----------------------------- MODULE ApiProofs -----------------------------
(***************************************************************************)
(* Proofs about two components of the API: its accounts, for any requests,  *)
(* subjects, fields and accounts at the start, and the breaker its producer *)
(* publishes their events through, the gateway's as well, for any callers,  *)
(* thresholds, retries, conditions of the upstream, and bounds.  Each is a  *)
(* specification of its own; to the first, an open breaker is one way for a *)
(* publish to fail.                                                         *)
(***************************************************************************)
EXTENDS Accounts, CircuitBreaker, DataTheorems

-----------------------------------------------------------------------------
(***************************************************************************)
(* Accounts.                                                                *)
(***************************************************************************)

\* Any value a field of a profile may have, the profiles, the changes an event
\* may be about, and the events.
Value ==
    {NoName} \cup {Start[u].email : u \in DOMAIN Start}
    \cup {Start[u].name : u \in DOMAIN Start}
    \cup UNION {{Fields[r][f] : f \in DOMAIN Fields[r]} : r \in Request}

Profile == [{"email", "name"} -> Value]
Event == [user : DOMAIN Start, changes : UNION {[D -> Value] : D \in SUBSET {"email", "name"}}]

LEMMA StartFacts ==
    ASSUME NEW u \in DOMAIN Start
    PROVE  Start[u] \in Profile /\ u \notin Request
<1>1. Start[u] = [email |-> Start[u].email, name |-> Start[u].name]
  BY AccountsAssumption
<1>2. Start[u].email \in Value /\ Start[u].name \in Value
  BY DEF Value
<1>3. [email |-> Start[u].email, name |-> Start[u].name] \in Profile
  BY <1>2 DEF Profile
<1>4. u \notin Request
  BY AccountsAssumption
<1> QED
  BY <1>1, <1>3, <1>4

LEMMA RequestFacts ==
    ASSUME NEW r \in Request
    PROVE  /\ Kind[r] \in {"register", "login", "update", "delete"}
           /\ DOMAIN Fields[r] \subseteq {"email", "name"}
           /\ \A f \in DOMAIN Fields[r] : Fields[r][f] \in Value
           /\ Kind[r] \in {"register", "login"} => Email(r) \in Value
           /\ Kind[r] \in {"update", "delete"} => Subject[r] \in DOMAIN Start
<1>1. \A f \in DOMAIN Fields[r] : Fields[r][f] \in Value
  <2>1. ASSUME NEW f \in DOMAIN Fields[r]
        PROVE  Fields[r][f] \in UNION {{Fields[q][g] : g \in DOMAIN Fields[q]} : q \in Request}
    <3> DEFINE given(q) == {Fields[q][g] : g \in DOMAIN Fields[q]}
    <3>1. Fields[r][f] \in given(r)
      OBVIOUS
    <3>2. given(r) \in {given(q) : q \in Request}
      OBVIOUS
    <3> QED
      BY <3>1, <3>2
  <2> QED
    BY <2>1 DEF Value
<1> QED
  BY <1>1, AccountsAssumption DEF Email

-----------------------------------------------------------------------------
(* Replaying the events.                                                    *)

\* The profile of u after one more event.
After(u, fields, e) ==
    [f \in DOMAIN fields |->
        IF e.user = u /\ f \in DOMAIN e.changes THEN e.changes[f] ELSE fields[f]]

\* What Replayed computes of any sequence of events.
Replay(u, s) ==
    FoldLeft(LAMBDA fields, e :
                [f \in DOMAIN fields |->
                    IF e.user = u /\ f \in DOMAIN e.changes THEN e.changes[f] ELSE fields[f]],
             Start[u], s)

\* The profiles of u along the events s.
IsHistory(p, u, s) ==
    /\ p[0] = Start[u]
    /\ \A k \in 1..Len(s) : p[k] = After(u, p[k - 1], s[k])
    /\ p[Len(s)] = Replay(u, s)

LEMMA AfterType ==
    ASSUME NEW u, NEW p \in Profile, NEW e \in Event
    PROVE  After(u, p, e) \in Profile
<1>1. PICK D \in SUBSET {"email", "name"} : e.changes \in [D -> Value]
  BY DEF Event
<1>2. \A f \in D : e.changes[f] \in Value
  BY <1>1
<1>3. DOMAIN e.changes = D
  BY <1>1
<1> QED
  BY <1>2, <1>3 DEF After, Profile

LEMMA HistoryExists ==
    ASSUME NEW u \in DOMAIN Start, NEW s \in Seq(Event)
    PROVE  \E p \in [0..Len(s) -> Profile] : IsHistory(p, u, s)
<1>1. PICK n \in Nat : n = Len(s) /\ DOMAIN s = 1..n
  OBVIOUS
<1>2. \A k \in 1..n : s[k] \in Event
  BY <1>1
<1>3. PICK base \in Profile : base = Start[u]
  BY StartFacts
<1> DEFINE h == [k \in 1..n |-> [p \in Profile |-> After(u, p, s[k])]]
<1>4. h \in [1..n -> [Profile -> Profile]]
  <2>1. \A k \in 1..n : \A p \in Profile : After(u, p, s[k]) \in Profile
    BY <1>2, AfterType
  <2> QED
    BY <2>1
<1>5. \A k \in 1..n : \A p \in Profile : h[k][p] = After(u, p, s[k])
  OBVIOUS
<1> HIDE DEF h
<1>6. PICK g \in [SUBSET (1..n) -> Profile] : IsFoldLeft(g, n, base, h)
  BY <1>4, FoldLeftExists
<1>7. g = [t \in SUBSET (1..n) |->
              IF t = {} THEN Start[u]
              ELSE LET i == Max(t) IN After(u, g[t \ {i}], s[i])]
  <2>1. ASSUME NEW t \in SUBSET (1..n), t # {}
        PROVE  g[t] = After(u, g[t \ {Max(t)}], s[Max(t)])
    <3>1. PICK i \in 1..n : i = Max(t)
      BY <2>1, MaxChooses DEF Chooses
    <3>2. g[t] = h[i][g[t \ {i}]] /\ g[t \ {i}] \in Profile
      BY <1>6, <2>1, <3>1 DEF IsFoldLeft
    <3> QED
      BY <1>5, <3>1, <3>2
  <2>2. ASSUME NEW t \in SUBSET (1..n)
        PROVE  g[t] = IF t = {} THEN Start[u]
                      ELSE LET i == Max(t) IN After(u, g[t \ {i}], s[i])
    BY <1>3, <1>6, <2>1 DEF IsFoldLeft
  <2> QED
    BY <2>2
<1>8. PICK f : /\ f = [t \in SUBSET (1..n) |->
                        IF t = {} THEN Start[u]
                        ELSE LET i == Max(t) IN After(u, f[t \ {i}], s[i])]
               /\ f[1..n] = Replay(u, s)
  <2>1. Replay(u, s) = MapThenFoldSet(
            LAMBDA e, fields : After(u, fields, e), Start[u],
            LAMBDA i : s[i], LAMBDA S : Max(S), DOMAIN s)
    BY Zenon DEF Replay, FoldLeft, After
  <2>2. \E f : /\ f = [t \in SUBSET (1..n) |->
                        IF t = {} THEN Start[u]
                        ELSE LET i == Max(t) IN After(u, f[t \ {i}], s[i])]
               /\ f[1..n] = MapThenFoldSet(
                    LAMBDA e, fields : After(u, fields, e), Start[u],
                    LAMBDA i : s[i], LAMBDA S : Max(S), 1..n)
    BY <1>7, Zenon DEF MapThenFoldSet
  <2> QED
    BY <1>1, <2>1, <2>2
<1> DEFINE p == [k \in 0..n |-> f[1..k]]
<1>9. p[0] = Start[u] /\ p[n] = Replay(u, s)
  <2>1. 1..0 = {}
    OBVIOUS
  <2>2. f[{}] = Start[u]
    BY <1>8
  <2>3. p[0] = f[1..0] /\ p[n] = f[1..n]
    OBVIOUS
  <2> QED
    BY <1>8, <2>1, <2>2, <2>3
<1>10. ASSUME NEW k \in 1..n
       PROVE  p[k] = After(u, p[k - 1], s[k])
  <2>1. k \in Nat /\ k # 0 /\ 1..k \in SUBSET (1..n)
    OBVIOUS
  <2>2. 1..k # {} /\ Max(1..k) = k /\ (1..k) \ {k} = 1..(k - 1)
    BY <2>1, MaxOfPrefix
  <2>3. PICK t \in SUBSET (1..n) : t = 1..k
    BY <2>1
  <2>4. f[t] = After(u, f[t \ {k}], s[k])
    <3>1. f[t] = IF t = {} THEN Start[u]
                 ELSE LET i == Max(t) IN After(u, f[t \ {i}], s[i])
      BY <1>8
    <3>2. t # {} /\ Max(t) = k
      BY <2>2, <2>3
    <3> QED
      BY <3>1, <3>2
  <2>5. p[k] = f[t] /\ p[k - 1] = f[t \ {k}]
    <3>1. k \in 0..n /\ k - 1 \in 0..n
      OBVIOUS
    <3>2. p[k] = f[1..k] /\ p[k - 1] = f[1..(k - 1)]
      BY <3>1
    <3> QED
      BY <2>2, <2>3, <3>2
  <2> HIDE DEF p
  <2> QED
    BY <2>4, <2>5
<1> HIDE DEF p
<1>11. p \in [0..n -> Profile]
  <2> DEFINE Good == {k \in 0..n : p[k] \in Profile}
  <2>1. 0 \in Good
    BY <1>3, <1>9
  <2>2. ASSUME NEW k \in 1..n, k - 1 \in Good
        PROVE  k \in Good
    <3>1. s[k] \in Event
      BY <1>2
    <3>2. p[k] \in Profile
      BY <1>10, <2>2, <3>1, AfterType
    <3> QED
      BY <3>2
  <2>3. 0..n \subseteq Good
    <3> HIDE DEF Good
    <3> QED
      BY <2>1, <2>2, UpTo
  <2>4. DOMAIN p = 0..n /\ p = [k \in 0..n |-> p[k]]
    BY DEF p
  <2> QED
    BY <2>3, <2>4
<1> QED
  BY <1>1, <1>9, <1>10, <1>11 DEF IsHistory

\* Before any event it is what the account started with.
LEMMA ReplayOfNone ==
    ASSUME NEW u \in DOMAIN Start
    PROVE  Replay(u, <<>>) = Start[u]
<1>1. <<>> \in Seq(Event) /\ Len(<<>>) = 0
  OBVIOUS
<1>2. PICK p \in [0..Len(<<>>) -> Profile] : IsHistory(p, u, <<>>)
  BY <1>1, HistoryExists
<1> QED
  BY <1>1, <1>2 DEF IsHistory

\* One more event is what After makes of the others.
LEMMA ReplayOfOneMore ==
    ASSUME NEW u \in DOMAIN Start, NEW s \in Seq(Event), NEW e \in Event
    PROVE  /\ Replay(u, s) \in Profile
           /\ Replay(u, Append(s, e)) = After(u, Replay(u, s), e)
<1>1. PICK n \in Nat : n = Len(s)
  OBVIOUS
<1>2. PICK t \in Seq(Event) : t = Append(s, e)
  BY AppendFacts
<1>3. Len(t) = n + 1 /\ t[n + 1] = e /\ \A k \in 1..n : t[k] = s[k]
  BY <1>1, <1>2
<1>4. PICK p \in [0..n -> Profile] : IsHistory(p, u, s)
  BY <1>1, HistoryExists
<1>5. PICK q \in [0..(n + 1) -> Profile] : IsHistory(q, u, t)
  BY <1>3, HistoryExists
<1> DEFINE Good == {k \in 0..n : p[k] = q[k]}
<1>6. 0 \in Good
  BY <1>4, <1>5 DEF IsHistory
<1>7. ASSUME NEW k \in 1..n, k - 1 \in Good
      PROVE  k \in Good
  <2>1. p[k] = After(u, p[k - 1], s[k])
    BY <1>1, <1>4 DEF IsHistory
  <2>2. k \in 1..(n + 1) /\ k \in 0..n
    OBVIOUS
  <2>3. q[k] = After(u, q[k - 1], t[k])
    BY <1>3, <1>5, <2>2 DEF IsHistory
  <2>4. t[k] = s[k] /\ p[k - 1] = q[k - 1]
    BY <1>3, <1>7
  <2> QED
    BY <2>1, <2>2, <2>3, <2>4
<1>8. 0..n \subseteq Good
  <2> HIDE DEF Good
  <2> QED
    BY <1>6, <1>7, UpTo
<1>9. p[n] = q[n] /\ p[n] = Replay(u, s) /\ p[n] \in Profile
  <2>1. n \in 0..n
    OBVIOUS
  <2> QED
    BY <1>1, <1>4, <1>8, <2>1 DEF IsHistory
<1>10. q[n + 1] = After(u, q[(n + 1) - 1], t[n + 1])
  <2>1. n + 1 \in 1..(n + 1)
    OBVIOUS
  <2> QED
    BY <1>3, <1>5, <2>1 DEF IsHistory
<1>11. (n + 1) - 1 = n
  OBVIOUS
<1>12. q[n + 1] = Replay(u, t)
  BY <1>3, <1>5 DEF IsHistory
<1> QED
  BY <1>2, <1>3, <1>9, <1>10, <1>11, <1>12

IsReplayed(u) == Replayed(u) = Replay(u, updated)

LEMMA ReplayedIsReplay ==
    ASSUME NEW u
    PROVE  Replayed(u) = Replay(u, updated) /\ Replayed(u)' = Replay(u, updated')
<1>1. IsReplayed(u)
  BY Zenon DEF IsReplayed, Replayed, Replay
<1>2. IsReplayed(u)'
  BY <1>1, PTL
<1> QED
  BY <1>1, <1>2, Zenon DEF IsReplayed

-----------------------------------------------------------------------------
(* Types.                                                                   *)

Progress ==
    [state : {"new", "checked", "read", "locked", "written", "done"},
     old : Profile \cup {<<>>}]

RequestsOK ==
    /\ DOMAIN requests \subseteq Request
    /\ requests \in [DOMAIN requests -> Progress]
    /\ \A r \in DOMAIN requests :
        requests[r].state = "written" => Kind[r] \in {"update", "delete"}

UsersOK ==
    /\ DOMAIN Start \subseteq DOMAIN users
    /\ users \in [DOMAIN users -> [fields : Profile, live : BOOLEAN]]

TopicsOK == updated \in Seq(Event) /\ deleted \in Seq(DOMAIN Start)

AccountsOK == RequestsOK /\ UsersOK /\ TopicsOK

\* The request r has moved on, and no other.
Moved(r) ==
    /\ DOMAIN requests' = DOMAIN requests
    /\ \A s \in DOMAIN requests \ {r} : requests'[s] = requests[s]
    /\ requests' \in [DOMAIN requests -> Progress]

LEMMA GoesFacts ==
    ASSUME RequestsOK, NEW r \in DOMAIN requests,
           NEW state \in {"new", "checked", "read", "locked", "written", "done"},
           Goes(r, state)
    PROVE  /\ Moved(r) /\ requests'[r].state = state
           /\ requests'[r].old = requests[r].old
BY DEF RequestsOK, Progress, Goes, Moved

LEMMA AnswersFacts ==
    ASSUME RequestsOK, NEW r \in DOMAIN requests, NEW a, Answers(r, a)
    PROVE  Moved(r) /\ requests'[r].state = "done"
BY DEF RequestsOK, Progress, Answers, Moved

LEMMA ReadFacts ==
    ASSUME RequestsOK, NEW r \in DOMAIN requests, NEW p \in Profile,
           requests' = [requests EXCEPT ![r] = [state |-> "read", old |-> p]]
    PROVE  Moved(r) /\ requests'[r].state = "read" /\ requests'[r].old = p
BY DEF RequestsOK, Progress, Moved

LEMMA MovedType ==
    ASSUME RequestsOK, NEW r \in DOMAIN requests, Moved(r),
           requests'[r].state = "written" => Kind[r] \in {"update", "delete"}
    PROVE  RequestsOK'
BY DEF RequestsOK, Moved

\* What the actions write into a row.
LEMMA WrittenType ==
    ASSUME UsersOK, NEW r \in Request, Kind[r] = "update"
    PROVE  /\ DOMAIN Written(r) = DOMAIN users
           /\ Written(r) \in [DOMAIN users -> [fields : Profile, live : BOOLEAN]]
           /\ \A v \in DOMAIN users \ {Subject[r]} : Written(r)[v] = users[v]
           /\ Written(r)[Subject[r]].live = users[Subject[r]].live
           /\ Written(r)[Subject[r]].fields =
                [f \in {"email", "name"} |->
                    IF f \in DOMAIN Fields[r] THEN Fields[r][f]
                    ELSE users[Subject[r]].fields[f]]
<1>1. PICK u \in DOMAIN Start : u = Subject[r]
  BY RequestFacts
<1>2. u \in DOMAIN users /\ users[u] \in [fields : Profile, live : BOOLEAN]
  BY DEF UsersOK
<1>3. PICK p \in Profile : p = users[u].fields
  BY <1>2
<1>4. DOMAIN p = {"email", "name"} /\ \A f \in {"email", "name"} : p[f] \in Value
  BY DEF Profile
<1>5. PICK q : q = [f \in {"email", "name"} |->
                       IF f \in DOMAIN Fields[r] THEN Fields[r][f] ELSE p[f]]
  OBVIOUS
<1>6. q \in Profile
  BY <1>4, <1>5, RequestFacts DEF Profile
<1>7. Written(r) = [users EXCEPT ![u].fields = q]
  BY <1>1, <1>2, <1>3, <1>4, <1>5 DEF Written
<1>8. users \in [DOMAIN users -> [fields : Profile, live : BOOLEAN]]
  BY DEF UsersOK
<1>9. /\ DOMAIN Written(r) = DOMAIN users
      /\ Written(r) \in [DOMAIN users -> [fields : Profile, live : BOOLEAN]]
      /\ \A v \in DOMAIN users \ {u} : Written(r)[v] = users[v]
      /\ Written(r)[u].live = users[u].live
      /\ Written(r)[u].fields = q
  BY <1>2, <1>6, <1>7, <1>8
<1> QED
  BY <1>1, <1>3, <1>5, <1>9

LEMMA ChangedType ==
    ASSUME NEW r \in Request, Kind[r] = "update"
    PROVE  [user |-> Subject[r], changes |-> Changed(r)] \in Event
<1>1. PICK D \in SUBSET {"email", "name"} :
        D = {g \in DOMAIN Fields[r] : Fields[r][g] # requests[r].old[g]}
  BY RequestFacts
<1>2. Changed(r) = [f \in D |-> Fields[r][f]]
  BY <1>1 DEF Changed
<1>3. \A f \in D : Fields[r][f] \in Value
  BY <1>1, RequestFacts
<1>4. Changed(r) \in [D -> Value]
  BY <1>2, <1>3
<1>5. Changed(r) \in UNION {[E -> Value] : E \in SUBSET {"email", "name"}}
  BY <1>4, Zenon
<1> QED
  BY <1>5, RequestFacts DEF Event

-----------------------------------------------------------------------------
(* The invariant.                                                           *)

\* Whoever reads the row while another change of it is under way is noted.
OneAtATime(u) == \A r, s \in Underway(u) : r # s => u \in overlapped

\* A row that is locked is live.
LockedIsLive(u) == Locked(u) => Live(u)

\* A deletion that is written or published has deleted the row.
DeletedIsGone(u) ==
    /\ u \in ToSet(deleted) => ~ Live(u)
    /\ \A r \in Underway(u) : At(r, "delete", "written") => ~ Live(u)

\* A change under way once the deletion is published has read the row before,
\* so it has overlapped the deletion, or it is the deletion, which was not
\* answered.
DeletedOnce(u) ==
    /\ u \in ToSet(deleted) /\ Underway(u) # {} => u \in overlapped \cup unheard
    /\ \A i, j \in DOMAIN deleted :
        deleted[i] = u /\ deleted[j] = u /\ i # j => u \in overlapped \cup unheard

\* Between the deletion and its event there is the request that will publish.
GoneIsDeleted(u) ==
    ~ Live(u) /\ u \notin lost /\ u \notin ToSet(deleted) =>
        \E r \in Underway(u) : At(r, "delete", "written")

\* The profile that r is about to announce.
Announced(r) ==
    [f \in {"email", "name"} |->
        IF f \in DOMAIN Fields[r] THEN Fields[r][f] ELSE requests[r].old[f]]

\* A change alone under way has read what the events add up to, if it has not made
\* them add up to what it has written already; the row is that too until the
\* change is written, and then what the event will make it.
EventsKnown(u) ==
    u \notin lost \cup overlapped =>
        /\ \A r \in Underway(u) :
                \/ requests[r].old = Replayed(u)
                \/ At(r, "update", "written") /\ Replayed(u) = Announced(r)
        /\ (\A r \in Underway(u) : ~ At(r, "update", "written")) =>
                users[u].fields = Replayed(u)
        /\ \A r \in Underway(u) :
                At(r, "update", "written") => users[u].fields = Announced(r)

AccountKept(u) ==
    /\ OneAtATime(u) /\ LockedIsLive(u)
    /\ DeletedIsGone(u) /\ DeletedOnce(u) /\ GoneIsDeleted(u)
    /\ EventsKnown(u)

AccountsInv == AccountsOK /\ \A u \in DOMAIN Start : AccountKept(u)

-----------------------------------------------------------------------------
(* What a step does for one account.                                        *)

\* The changes and deletions of u.
Mine(u) == {r \in Request : Kind[r] \in {"update", "delete"} /\ Subject[r] = u}

LEMMA UnderwayFacts ==
    ASSUME RequestsOK, NEW u
    PROVE  \A r : r \in Underway(u) <=>
                r \in DOMAIN requests /\ r \in Mine(u) /\ requests[r].state \notin {"new", "done"}
BY DEF RequestsOK, Underway, Mine

LEMMA UnderwayNext ==
    ASSUME RequestsOK, NEW u, NEW r \in DOMAIN requests, Moved(r)
    PROVE  /\ \A s \in Underway(u)' : s # r => s \in Underway(u)
           /\ \A s \in Underway(u) : s # r => s \in Underway(u)' /\ requests'[s] = requests[s]
           /\ r \in Underway(u)' <=>
                r \in Mine(u) /\ requests'[r].state \notin {"new", "done"}
BY DEF RequestsOK, Underway, Mine, Moved

\* The row of u, what is known of it, and its events are as they were.
RowKept(u) ==
    /\ u \in DOMAIN users /\ u \in DOMAIN users'
    /\ users'[u] = users[u]

EventsKept(u) ==
    /\ Replayed(u)' = Replayed(u)
    /\ (u \in ToSet(deleted)') <=> (u \in ToSet(deleted))
    /\ \A i, j \in DOMAIN deleted' :
        deleted'[i] = u /\ deleted'[j] = u =>
            /\ i \in DOMAIN deleted /\ j \in DOMAIN deleted
            /\ deleted[i] = u /\ deleted[j] = u

HistoryKept(u) ==
    /\ (u \in lost') <=> (u \in lost)
    /\ (u \in unheard') <=> (u \in unheard)
    /\ (u \in overlapped') <=> (u \in overlapped)

LEMMA RowKeptFacts ==
    ASSUME NEW u, RowKept(u)
    PROVE  /\ Live(u)' <=> Live(u)
           /\ users'[u].fields = users[u].fields
BY DEF RowKept, Live

\* A step of a request that is no change of u.
LEMMA StepOfOthers ==
    ASSUME RequestsOK, NEW u, AccountKept(u), NEW r \in DOMAIN requests, Moved(r),
           r \notin Mine(u), RowKept(u), EventsKept(u), HistoryKept(u)
    PROVE  AccountKept(u)'
<1>1. \A s : s \in Underway(u)' <=> s \in Underway(u)
  BY UnderwayNext, UnderwayFacts
<1>2. \A s \in Underway(u) : requests'[s] = requests[s]
  BY UnderwayNext, UnderwayFacts
<1>3. (Live(u)' <=> Live(u)) /\ users'[u].fields = users[u].fields
  BY RowKeptFacts
<1>4. OneAtATime(u)'
  BY <1>1 DEF AccountKept, OneAtATime, HistoryKept
<1>5. LockedIsLive(u)'
  <2>1. Locked(u)' => Locked(u)
    BY DEF Locked, At, Moved, Mine, RequestsOK
  <2> QED
    BY <1>3, <2>1 DEF AccountKept, LockedIsLive
<1>6. \A s \in Underway(u) : \A kind, state : At(s, kind, state)' <=> At(s, kind, state)
  BY <1>2 DEF At
<1>7. DeletedIsGone(u)'
  BY <1>1, <1>3, <1>6 DEF AccountKept, DeletedIsGone, EventsKept
<1>8. DeletedOnce(u)'
  BY <1>1 DEF AccountKept, DeletedOnce, EventsKept, HistoryKept
<1>9. GoneIsDeleted(u)'
  BY <1>1, <1>3, <1>6 DEF AccountKept, GoneIsDeleted, EventsKept, HistoryKept
<1>10. EventsKnown(u)'
  <2>1. \A s \in Underway(u) : Announced(s)' = Announced(s)
    BY <1>2 DEF Announced
  <2> QED
    BY <1>1, <1>2, <1>3, <1>6, <2>1 DEF AccountKept, EventsKnown, EventsKept, HistoryKept
<1> QED
  BY <1>4, <1>5, <1>7, <1>8, <1>9, <1>10 DEF AccountKept

\* A change of u ends that has not written.
LEMMA EndsUnwritten ==
    ASSUME RequestsOK, NEW u, AccountKept(u), NEW r \in DOMAIN requests, Moved(r),
           requests[r].state # "written", requests'[r].state = "done",
           RowKept(u), EventsKept(u), (u \in lost') <=> (u \in lost),
           u \in overlapped => u \in overlapped', u \in unheard => u \in unheard'
    PROVE  AccountKept(u)'
<1>1. \A s : s \in Underway(u)' => s \in Underway(u) /\ requests'[s] = requests[s]
  BY UnderwayNext, UnderwayFacts
<1>2. \A s \in Underway(u) : s = r \/ s \in Underway(u)'
  BY UnderwayNext
<1>3. (Live(u)' <=> Live(u)) /\ users'[u].fields = users[u].fields
  BY RowKeptFacts
<1>4. OneAtATime(u)'
  BY <1>1 DEF AccountKept, OneAtATime
<1>5. LockedIsLive(u)'
  <2>1. Locked(u)' => Locked(u)
    BY DEF Locked, At, Moved
  <2> QED
    BY <1>3, <2>1 DEF AccountKept, LockedIsLive
<1>6. \A s \in Underway(u)' : \A kind, state : At(s, kind, state)' <=> At(s, kind, state)
  BY <1>1 DEF At
<1>6a. \A s \in Underway(u) : \A kind : At(s, kind, "written") => s \in Underway(u)'
  BY <1>2 DEF At
<1>7. DeletedIsGone(u)'
  BY <1>1, <1>3, <1>6 DEF AccountKept, DeletedIsGone, EventsKept
<1>8. DeletedOnce(u)'
  BY <1>1 DEF AccountKept, DeletedOnce, EventsKept
<1>9. GoneIsDeleted(u)'
  BY <1>3, <1>6, <1>6a DEF AccountKept, GoneIsDeleted, EventsKept
<1>10. EventsKnown(u)'
  <2>1. \A s \in Underway(u)' : Announced(s)' = Announced(s)
    BY <1>1 DEF Announced
  <2> QED
    BY <1>1, <1>3, <1>6, <1>6a, <2>1 DEF AccountKept, EventsKnown, EventsKept
<1> QED
  BY <1>4, <1>5, <1>7, <1>8, <1>9, <1>10 DEF AccountKept

\* A change of u that nobody overlaps is the only one.
LEMMA Alone ==
    ASSUME NEW u, AccountKept(u), u \notin overlapped, NEW r \in Underway(u)
    PROVE  \A s \in Underway(u) : s = r
BY DEF AccountKept, OneAtATime

\* A change of u reads the row.
LEMMA Reads ==
    ASSUME RequestsOK, NEW u, AccountKept(u), NEW r \in DOMAIN requests, Moved(r),
           requests[r].state = "new", r \in Mine(u), Live(u),
           requests'[r].state = "read", requests'[r].old = users[u].fields,
           RowKept(u), EventsKept(u), (u \in lost') <=> (u \in lost),
           u \in overlapped => u \in overlapped', u \in unheard => u \in unheard',
           Underway(u) # {} => u \in overlapped'
    PROVE  AccountKept(u)'
<1>1. \A s \in Underway(u)' : s = r \/ (s \in Underway(u) /\ requests'[s] = requests[s])
  <2> TAKE s \in Underway(u)'
  <2>1. CASE s # r
    <3>1. s \in Underway(u)
      BY UnderwayNext, <2>1
    <3>2. requests'[s] = requests[s]
      BY UnderwayNext, <2>1, <3>1
    <3> QED
      BY <3>1, <3>2
  <2> QED
    BY <2>1
<1>2. \A s \in Underway(u) : s # r /\ s \in Underway(u)'
  BY UnderwayNext, UnderwayFacts
<1>3. (Live(u)' <=> Live(u)) /\ users'[u].fields = users[u].fields
  BY RowKeptFacts
<1>4. OneAtATime(u)'
  BY <1>1 DEF OneAtATime
<1>5. LockedIsLive(u)'
  BY <1>3 DEF LockedIsLive
<1>6. DeletedIsGone(u)'
  <2>1. \A s \in Underway(u)' : At(s, "delete", "written")' => s # r /\ At(s, "delete", "written")
    BY <1>1 DEF At
  <2> QED
    BY <1>1, <1>3, <2>1 DEF AccountKept, DeletedIsGone, EventsKept
<1>7. DeletedOnce(u)'
  BY <1>3 DEF AccountKept, DeletedIsGone, DeletedOnce, EventsKept
<1>8. GoneIsDeleted(u)'
  BY <1>3 DEF GoneIsDeleted
<1>9. EventsKnown(u)'
  <2> SUFFICES ASSUME u \notin lost', u \notin overlapped'
               PROVE  /\ \A s \in Underway(u)' : requests'[s].old = Replayed(u)'
                      /\ users'[u].fields = Replayed(u)'
                      /\ \A s \in Underway(u)' : ~ At(s, "update", "written")'
    BY DEF EventsKnown
  <2>1. Underway(u) = {}
    OBVIOUS
  <2>2. users[u].fields = Replayed(u)
    BY <2>1 DEF AccountKept, EventsKnown
  <2>3. \A s \in Underway(u)' : s = r
    BY <1>1, <2>1
  <2> QED
    BY <1>3, <2>2, <2>3 DEF EventsKept, At
<1> QED
  BY <1>4, <1>5, <1>6, <1>7, <1>8, <1>9 DEF AccountKept

\* An update of u locks the row.
LEMMA Locks ==
    ASSUME RequestsOK, NEW u, AccountKept(u), NEW r \in DOMAIN requests, Moved(r),
           r \in Mine(u), Kind[r] = "update", requests[r].state = "read", Live(u),
           requests'[r].state = "locked", requests'[r].old = requests[r].old,
           RowKept(u), EventsKept(u), HistoryKept(u)
    PROVE  AccountKept(u)'
<1>1. \A s : s \in Underway(u)' <=> s \in Underway(u)
  BY UnderwayNext, UnderwayFacts
<1>2. \A s \in Underway(u) : requests'[s].old = requests[s].old
  BY UnderwayNext, UnderwayFacts
<1>3. (Live(u)' <=> Live(u)) /\ users'[u].fields = users[u].fields
  BY RowKeptFacts
<1>4. \A s \in Underway(u) : \A kind : At(s, kind, "written")' <=> At(s, kind, "written")
  BY UnderwayNext, UnderwayFacts DEF At
<1>5. OneAtATime(u)'
  BY <1>1 DEF AccountKept, OneAtATime, HistoryKept
<1>6. LockedIsLive(u)'
  BY <1>3 DEF LockedIsLive
<1>7. DeletedIsGone(u)'
  BY <1>1, <1>3, <1>4 DEF AccountKept, DeletedIsGone, EventsKept
<1>8. DeletedOnce(u)'
  BY <1>1 DEF AccountKept, DeletedOnce, EventsKept, HistoryKept
<1>9. GoneIsDeleted(u)'
  BY <1>3 DEF GoneIsDeleted
<1>10. EventsKnown(u)'
  <2>1. \A s \in Underway(u) : Announced(s)' = Announced(s)
    BY <1>2 DEF Announced
  <2> QED
    BY <1>1, <1>2, <1>3, <1>4, <2>1 DEF AccountKept, EventsKnown, EventsKept, HistoryKept
<1> QED
  BY <1>5, <1>6, <1>7, <1>8, <1>9, <1>10 DEF AccountKept

\* An update of u writes the row that it has locked.
LEMMA WritesRow ==
    ASSUME RequestsOK, NEW u, AccountKept(u), NEW r \in DOMAIN requests, Moved(r),
           r \in Mine(u), Kind[r] = "update", requests[r].state = "locked",
           requests'[r].state = "written", requests'[r].old = requests[r].old,
           Live(u)' <=> Live(u),
           users'[u].fields =
                [f \in {"email", "name"} |->
                    IF f \in DOMAIN Fields[r] THEN Fields[r][f] ELSE users[u].fields[f]],
           EventsKept(u), HistoryKept(u)
    PROVE  AccountKept(u)'
<1>1. \A s : s \in Underway(u)' <=> s \in Underway(u)
  BY UnderwayNext, UnderwayFacts
<1>2. \A s \in Underway(u) : s = r \/ requests'[s] = requests[s]
  BY UnderwayNext, UnderwayFacts
<1>3. r \in Underway(u)
  BY UnderwayFacts
<1>4. \A s \in Underway(u) : At(s, "delete", "written")' <=> At(s, "delete", "written")
  BY <1>2 DEF At
<1>5. OneAtATime(u)'
  BY <1>1 DEF AccountKept, OneAtATime, HistoryKept
<1>6. LockedIsLive(u)'
  <2>1. Locked(u)
    BY DEF Locked, At, Mine
  <2> QED
    BY <2>1 DEF AccountKept, LockedIsLive
<1>7. DeletedIsGone(u)'
  BY <1>1, <1>4 DEF AccountKept, DeletedIsGone, EventsKept
<1>8. DeletedOnce(u)'
  BY <1>1 DEF AccountKept, DeletedOnce, EventsKept, HistoryKept
<1>9. GoneIsDeleted(u)'
  BY <1>1, <1>4 DEF AccountKept, GoneIsDeleted, EventsKept, HistoryKept
<1>10. EventsKnown(u)'
  <2> SUFFICES ASSUME u \notin lost', u \notin overlapped'
               PROVE  /\ \A s \in Underway(u)' : requests'[s].old = Replayed(u)'
                      /\ ~ (\A s \in Underway(u)' : ~ At(s, "update", "written")')
                      /\ \A s \in Underway(u)' : users'[u].fields = Announced(s)'
    BY DEF EventsKnown
  <2>1. u \notin lost /\ u \notin overlapped
    BY DEF HistoryKept
  <2>2. \A s \in Underway(u) : s = r
    BY <1>3, <2>1, Alone
  <2>4. ~ At(r, "update", "written")
    BY DEF At
  <2>3. requests[r].old = Replayed(u)
    BY <1>3, <2>1, <2>4 DEF AccountKept, EventsKnown
  <2>5. users[u].fields = Replayed(u)
    BY <2>1, <2>2, <2>4 DEF AccountKept, EventsKnown
  <2>6. At(r, "update", "written")'
    BY DEF At
  <2>7. users'[u].fields = Announced(r)'
    BY <2>3, <2>5 DEF Announced
  <2> QED
    BY <1>1, <1>3, <2>2, <2>3, <2>6, <2>7 DEF EventsKept
<1> QED
  BY <1>5, <1>6, <1>7, <1>8, <1>9, <1>10 DEF AccountKept

\* A deletion of u deletes the row, which is not locked.
LEMMA DeletesRow ==
    ASSUME RequestsOK, NEW u, AccountKept(u), NEW r \in DOMAIN requests, Moved(r),
           r \in Mine(u), Kind[r] = "delete", requests[r].state = "read", ~ Locked(u),
           requests'[r].state = "written", requests'[r].old = requests[r].old,
           ~ Live(u)', users'[u].fields = users[u].fields,
           EventsKept(u), HistoryKept(u)
    PROVE  AccountKept(u)'
<1>1. \A s : s \in Underway(u)' <=> s \in Underway(u)
  BY UnderwayNext, UnderwayFacts
<1>2. \A s \in Underway(u) : s = r \/ requests'[s] = requests[s]
  BY UnderwayNext, UnderwayFacts
<1>3. r \in Underway(u) /\ At(r, "delete", "written")'
  BY UnderwayFacts DEF At
<1>4. \A s \in Underway(u) : At(s, "update", "written")' <=> At(s, "update", "written")
  BY <1>2 DEF At
<1>5. OneAtATime(u)'
  BY <1>1 DEF AccountKept, OneAtATime, HistoryKept
<1>6. LockedIsLive(u)'
  <2>1. Locked(u)' => Locked(u)
    BY DEF Locked, At, Moved
  <2> QED
    BY <2>1 DEF LockedIsLive
<1>7. DeletedIsGone(u)'
  BY DEF DeletedIsGone
<1>8. DeletedOnce(u)'
  BY <1>1 DEF AccountKept, DeletedOnce, EventsKept, HistoryKept
<1>9. GoneIsDeleted(u)'
  BY <1>1, <1>3 DEF GoneIsDeleted
<1>10. EventsKnown(u)'
  <2>1. \A s \in Underway(u) : requests'[s].old = requests[s].old
    BY <1>2
  <2>2. \A s \in Underway(u) : Announced(s)' = Announced(s)
    BY <2>1 DEF Announced
  <2> QED
    BY <1>1, <1>4, <2>1, <2>2 DEF AccountKept, EventsKnown, EventsKept, HistoryKept
<1> QED
  BY <1>5, <1>6, <1>7, <1>8, <1>9, <1>10 DEF AccountKept

\* An update of u ends whose event, if there is one, makes of the events what
\* it has written.
LEMMA Announces ==
    ASSUME RequestsOK, NEW u, AccountKept(u), NEW r \in DOMAIN requests, Moved(r),
           r \in Mine(u), Kind[r] = "update", requests[r].state = "written",
           requests'[r].state = "done", RowKept(u), HistoryKept(u), UNCHANGED deleted,
           Replayed(u) \in {requests[r].old, Announced(r)} => Replayed(u)' = Announced(r)
    PROVE  AccountKept(u)'
<1>1. \A s : s \in Underway(u)' => s \in Underway(u) /\ requests'[s] = requests[s]
  BY UnderwayNext, UnderwayFacts
<1>2. \A s \in Underway(u) : s = r \/ s \in Underway(u)'
  BY UnderwayNext
<1>3. (Live(u)' <=> Live(u)) /\ users'[u].fields = users[u].fields
  BY RowKeptFacts
<1>4. r \in Underway(u) /\ r \notin Underway(u)'
  BY UnderwayFacts, UnderwayNext
<1>5. OneAtATime(u)'
  BY <1>1 DEF AccountKept, OneAtATime, HistoryKept
<1>6. LockedIsLive(u)'
  <2>1. Locked(u)' => Locked(u)
    BY DEF Locked, At, Moved
  <2> QED
    BY <1>3, <2>1 DEF AccountKept, LockedIsLive
<1>7. \A s \in Underway(u) : At(s, "delete", "written") =>
            s \in Underway(u)' /\ At(s, "delete", "written")'
  BY <1>1, <1>2 DEF At
<1>8. \A s \in Underway(u)' : At(s, "delete", "written")' => At(s, "delete", "written")
  BY <1>1 DEF At
<1>9. DeletedIsGone(u)'
  BY <1>1, <1>3, <1>8 DEF AccountKept, DeletedIsGone
<1>10. DeletedOnce(u)'
  BY <1>1 DEF AccountKept, DeletedOnce, HistoryKept
<1>11. GoneIsDeleted(u)'
  BY <1>3, <1>7 DEF AccountKept, GoneIsDeleted, HistoryKept
<1>12. EventsKnown(u)'
  <2> SUFFICES ASSUME u \notin lost', u \notin overlapped'
               PROVE  Underway(u)' = {} /\ users'[u].fields = Replayed(u)'
    BY DEF EventsKnown
  <2>1. u \notin lost /\ u \notin overlapped
    BY DEF HistoryKept
  <2>2. \A s \in Underway(u) : s = r
    BY <1>4, <2>1, Alone
  <2>3. Replayed(u) \in {requests[r].old, Announced(r)}
    BY <1>4, <2>1 DEF AccountKept, EventsKnown
  <2>4. At(r, "update", "written")
    BY DEF At
  <2>5. users[u].fields = Announced(r)
    BY <1>4, <2>1, <2>4 DEF AccountKept, EventsKnown
  <2> QED
    BY <1>1, <1>3, <1>4, <2>2, <2>3, <2>5
<1> QED
  BY <1>5, <1>6, <1>9, <1>10, <1>11, <1>12 DEF AccountKept

\* A deletion of u ends with its event.
LEMMA AnnouncesDeletion ==
    ASSUME RequestsOK, TopicsOK, NEW u \in DOMAIN Start, AccountKept(u),
           NEW r \in DOMAIN requests, Moved(r),
           r \in Mine(u), Kind[r] = "delete", requests[r].state = "written",
           requests'[r].state = "done", RowKept(u), HistoryKept(u),
           deleted' = Append(deleted, u), Replayed(u)' = Replayed(u)
    PROVE  AccountKept(u)'
<1>1. \A s : s \in Underway(u)' => s \in Underway(u) /\ requests'[s] = requests[s]
  BY UnderwayNext, UnderwayFacts
<1>2. r \in Underway(u) /\ r \notin Underway(u)' /\ At(r, "delete", "written")
  BY UnderwayFacts, UnderwayNext DEF At
<1>3. (Live(u)' <=> Live(u)) /\ users'[u].fields = users[u].fields
  BY RowKeptFacts
<1>4. ~ Live(u)
  BY <1>2 DEF AccountKept, DeletedIsGone
<1>5. deleted \in Seq(DOMAIN Start)
  BY DEF TopicsOK
<1>6. PICK n \in Nat : n = Len(deleted) /\ DOMAIN deleted = 1..n
  BY <1>5
<1>7. /\ DOMAIN deleted' = 1..(n + 1)
      /\ \A i \in 1..n : deleted'[i] = deleted[i]
      /\ ToSet(deleted') = ToSet(deleted) \cup {u}
  BY <1>5, <1>6, AppendFacts
<1>8. OneAtATime(u)'
  BY <1>1 DEF AccountKept, OneAtATime, HistoryKept
<1>9. LockedIsLive(u)'
  <2>1. Locked(u)' => Locked(u)
    BY DEF Locked, At, Moved
  <2> QED
    BY <1>3, <2>1 DEF AccountKept, LockedIsLive
<1>10. DeletedIsGone(u)'
  BY <1>3, <1>4 DEF DeletedIsGone
<1>11. DeletedOnce(u)'
  <2>1. Underway(u)' # {} => u \in overlapped
    BY <1>1, <1>2 DEF AccountKept, OneAtATime
  <2>2. ASSUME NEW i \in DOMAIN deleted', NEW j \in DOMAIN deleted',
               deleted'[i] = u, deleted'[j] = u, i # j
        PROVE  u \in overlapped \cup unheard
    <3>1. i \in 1..n \/ j \in 1..n
      BY <1>6, <1>7, <2>2
    <3>2. u \in ToSet(deleted)
      BY <1>6, <1>7, <2>2, <3>1 DEF ToSet
    <3> QED
      BY <1>2, <3>2 DEF AccountKept, DeletedOnce
  <2> QED
    BY <2>1, <2>2 DEF DeletedOnce, HistoryKept
<1>12. GoneIsDeleted(u)'
  <2>1. u \in ToSet(deleted)'
    BY <1>7
  <2> QED
    BY <2>1 DEF GoneIsDeleted
<1>13. EventsKnown(u)'
  <2> SUFFICES ASSUME u \notin lost', u \notin overlapped'
               PROVE  Underway(u)' = {} /\ users'[u].fields = Replayed(u)'
    BY DEF EventsKnown
  <2>1. u \notin lost /\ u \notin overlapped
    BY DEF HistoryKept
  <2>2. \A s \in Underway(u) : s = r
    BY <1>2, <2>1, Alone
  <2>3. ~ At(r, "update", "written")
    BY DEF At
  <2>4. users[u].fields = Replayed(u)
    BY <2>1, <2>2, <2>3 DEF AccountKept, EventsKnown
  <2> QED
    BY <1>1, <1>2, <1>3, <2>2, <2>4
<1> QED
  BY <1>8, <1>9, <1>10, <1>11, <1>12, <1>13 DEF AccountKept

\* Nothing but the event of r is written.
LEMMA SameRequests ==
    ASSUME NEW u, UNCHANGED requests
    PROVE  /\ Underway(u)' = Underway(u) /\ (Locked(u)' <=> Locked(u))
           /\ \A r, kind, state : At(r, kind, state)' <=> At(r, kind, state)
           /\ \A r : Announced(r)' = Announced(r)
BY DEF Underway, Locked, At, Announced

\* An update of u writes an event, to no answer.
LEMMA AnnouncesUnheard ==
    ASSUME RequestsOK, NEW u, AccountKept(u), NEW r \in DOMAIN requests,
           r \in Mine(u), Kind[r] = "update", requests[r].state = "written",
           UNCHANGED <<requests, deleted>>, RowKept(u), HistoryKept(u),
           Replayed(u) \in {requests[r].old, Announced(r)} => Replayed(u)' = Announced(r)
    PROVE  AccountKept(u)'
<1>1. /\ Underway(u)' = Underway(u) /\ (Locked(u)' <=> Locked(u))
      /\ \A s, kind, state : At(s, kind, state)' <=> At(s, kind, state)
      /\ \A s : Announced(s)' = Announced(s)
  BY SameRequests
<1>2. (Live(u)' <=> Live(u)) /\ users'[u].fields = users[u].fields
  BY RowKeptFacts
<1>3. r \in Underway(u) /\ At(r, "update", "written")
  BY UnderwayFacts DEF At
<1>4. OneAtATime(u)' /\ LockedIsLive(u)' /\ DeletedIsGone(u)'
  BY <1>1, <1>2 DEF AccountKept, OneAtATime, LockedIsLive, DeletedIsGone, HistoryKept
<1>5. DeletedOnce(u)' /\ GoneIsDeleted(u)'
  BY <1>1, <1>2 DEF AccountKept, DeletedOnce, GoneIsDeleted, HistoryKept
<1>6. EventsKnown(u)'
  <2> SUFFICES ASSUME u \notin lost', u \notin overlapped'
               PROVE  /\ \A s \in Underway(u) : At(s, "update", "written")
                      /\ \A s \in Underway(u) : Replayed(u)' = Announced(s)
                      /\ \A s \in Underway(u) : users[u].fields = Announced(s)
    BY <1>1, <1>2, <1>3 DEF EventsKnown
  <2>1. u \notin lost /\ u \notin overlapped
    BY DEF HistoryKept
  <2>2. \A s \in Underway(u) : s = r
    BY <1>3, <2>1, Alone
  <2>3. Replayed(u) \in {requests[r].old, Announced(r)} /\ users[u].fields = Announced(r)
    BY <1>3, <2>1 DEF AccountKept, EventsKnown
  <2> QED
    BY <1>3, <2>2, <2>3
<1> QED
  BY <1>4, <1>5, <1>6 DEF AccountKept

\* A deletion of u writes an event, to no answer.
LEMMA DeletionUnheard ==
    ASSUME RequestsOK, NEW u, AccountKept(u), NEW r \in DOMAIN requests,
           r \in Mine(u), Kind[r] = "delete", requests[r].state = "written",
           UNCHANGED requests, RowKept(u), u \in unheard', u \in ToSet(deleted)',
           (u \in lost') <=> (u \in lost), (u \in overlapped') <=> (u \in overlapped),
           Replayed(u)' = Replayed(u)
    PROVE  AccountKept(u)'
<1>1. /\ Underway(u)' = Underway(u) /\ (Locked(u)' <=> Locked(u))
      /\ \A s, kind, state : At(s, kind, state)' <=> At(s, kind, state)
      /\ \A s : Announced(s)' = Announced(s)
  BY SameRequests
<1>2. (Live(u)' <=> Live(u)) /\ users'[u].fields = users[u].fields
  BY RowKeptFacts
<1>3. ~ Live(u)
  <2>1. r \in Underway(u) /\ At(r, "delete", "written")
    BY UnderwayFacts DEF At
  <2> QED
    BY <2>1 DEF AccountKept, DeletedIsGone
<1>4. OneAtATime(u)' /\ LockedIsLive(u)'
  BY <1>1, <1>2 DEF AccountKept, OneAtATime, LockedIsLive
<1>5. DeletedIsGone(u)' /\ DeletedOnce(u)' /\ GoneIsDeleted(u)'
  BY <1>2, <1>3 DEF DeletedIsGone, DeletedOnce, GoneIsDeleted
<1>6. EventsKnown(u)'
  BY <1>1, <1>2 DEF AccountKept, EventsKnown
<1> QED
  BY <1>4, <1>5, <1>6 DEF AccountKept

\* A change of u ends, written or not, of which no event need be in the topic.
LEMMA Loses ==
    ASSUME RequestsOK, NEW u, AccountKept(u), NEW r \in DOMAIN requests, Moved(r),
           requests'[r].state = "done", u \in lost',
           Live(u)' => Live(u), Locked(u) /\ Live(u) => Live(u)',
           (u \in overlapped') <=> (u \in overlapped),
           (u \in unheard') <=> (u \in unheard), UNCHANGED deleted
    PROVE  AccountKept(u)'
<1>1. \A s : s \in Underway(u)' => s \in Underway(u) /\ requests'[s] = requests[s]
  BY UnderwayNext, UnderwayFacts
<1>3. OneAtATime(u)'
  BY <1>1 DEF AccountKept, OneAtATime
<1>4. LockedIsLive(u)'
  <2>1. Locked(u)' => Locked(u)
    BY DEF Locked, At, Moved
  <2> QED
    BY <2>1 DEF AccountKept, LockedIsLive
<1>5. DeletedIsGone(u)'
  <2>1. \A s \in Underway(u)' : At(s, "delete", "written")' => At(s, "delete", "written")
    BY <1>1 DEF At
  <2> QED
    BY <1>1, <2>1 DEF AccountKept, DeletedIsGone
<1>6. DeletedOnce(u)'
  BY <1>1 DEF AccountKept, DeletedOnce
<1>7. GoneIsDeleted(u)'
  BY DEF GoneIsDeleted
<1>8. EventsKnown(u)'
  BY DEF EventsKnown
<1> QED
  BY <1>3, <1>4, <1>5, <1>6, <1>7, <1>8 DEF AccountKept

-----------------------------------------------------------------------------
(* The actions.                                                             *)

LEMMA SameUsers ==
    ASSUME UsersOK, UNCHANGED users
    PROVE  UsersOK' /\ \A u \in DOMAIN Start : RowKept(u)
BY DEF UsersOK, RowKept

LEMMA SameTopics ==
    ASSUME TopicsOK, UNCHANGED topics
    PROVE  TopicsOK' /\ \A u \in DOMAIN Start : EventsKept(u)
<1>1. updated' = updated /\ deleted' = deleted
  BY DEF topics
<1>2. ASSUME NEW u \in DOMAIN Start
      PROVE  EventsKept(u)
  <2>1. Replayed(u)' = Replayed(u)
    BY <1>1, ReplayedIsReplay
  <2> QED
    BY <1>1, <2>1 DEF EventsKept
<1> QED
  BY <1>1, <1>2 DEF TopicsOK

LEMMA SameHistory ==
    ASSUME UNCHANGED history
    PROVE  \A u : HistoryKept(u)
BY DEF history, HistoryKept

LEMMA OneMoreDeletion ==
    ASSUME TopicsOK, NEW v \in DOMAIN Start, deleted' = Append(deleted, v), UNCHANGED updated
    PROVE  /\ TopicsOK'
           /\ \A u \in DOMAIN Start : Replayed(u)' = Replayed(u)
           /\ \A u \in DOMAIN Start \ {v} : EventsKept(u)
           /\ v \in ToSet(deleted')
<1>1. deleted \in Seq(DOMAIN Start)
  BY DEF TopicsOK
<1>2. PICK n \in Nat : n = Len(deleted) /\ DOMAIN deleted = 1..n
  BY <1>1
<1>3. /\ deleted' \in Seq(DOMAIN Start)
      /\ DOMAIN deleted' = 1..(n + 1)
      /\ \A i \in 1..n : deleted'[i] = deleted[i]
      /\ deleted'[n + 1] = v
      /\ ToSet(deleted') = ToSet(deleted) \cup {v}
  BY <1>1, <1>2, AppendFacts
<1>4. \A u \in DOMAIN Start : Replayed(u)' = Replayed(u)
  BY ReplayedIsReplay
<1>5. ASSUME NEW u \in DOMAIN Start \ {v}
      PROVE  EventsKept(u)
  <2>1. ASSUME NEW i \in DOMAIN deleted', deleted'[i] = u
        PROVE  i \in DOMAIN deleted /\ deleted[i] = u
    BY <1>2, <1>3, <2>1
  <2>2. (u \in ToSet(deleted)') <=> (u \in ToSet(deleted))
    BY <1>3
  <2> QED
    BY <1>4, <2>1, <2>2 DEF EventsKept
<1> QED
  BY <1>3, <1>4, <1>5 DEF TopicsOK

LEMMA OneMoreEvent ==
    ASSUME TopicsOK, NEW e \in Event, updated' = Append(updated, e), UNCHANGED deleted
    PROVE  /\ TopicsOK'
           /\ \A u \in DOMAIN Start : Replayed(u)' = After(u, Replayed(u), e)
           /\ \A u \in DOMAIN Start : u # e.user => EventsKept(u)
<1>1. updated \in Seq(Event)
  BY DEF TopicsOK
<1>2. updated' \in Seq(Event)
  BY <1>1, AppendFacts
<1>3. ASSUME NEW u \in DOMAIN Start
      PROVE  Replayed(u)' = After(u, Replayed(u), e) /\ Replayed(u) \in Profile
  <2>1. Replay(u, updated) \in Profile /\ Replay(u, Append(updated, e)) = After(u, Replay(u, updated), e)
    BY <1>1, ReplayOfOneMore
  <2> QED
    BY <2>1, ReplayedIsReplay
<1>4. ASSUME NEW u \in DOMAIN Start, u # e.user
      PROVE  EventsKept(u)
  <2>1. PICK p \in Profile : p = Replayed(u)
    BY <1>3
  <2>2. After(u, p, e) = p
    BY <1>4 DEF After, Profile
  <2>3. Replayed(u)' = Replayed(u)
    BY <1>3, <2>1, <2>2
  <2> QED
    BY <2>3 DEF EventsKept
<1> QED
  BY <1>2, <1>3, <1>4 DEF TopicsOK

\* An event of r makes of the profile that r has read the one that it announces.
LEMMA ChangedAnnounces ==
    ASSUME NEW r \in Request, requests[r].old \in Profile
    PROVE  After(Subject[r], requests[r].old, [user |-> Subject[r], changes |-> Changed(r)])
             = Announced(r)
<1>1. PICK p \in Profile : p = requests[r].old
  OBVIOUS
<1>2. DOMAIN p = {"email", "name"}
  BY DEF Profile
<1>3. PICK e : e = [user |-> Subject[r], changes |-> Changed(r)]
  OBVIOUS
<1>4. PICK c : c = Changed(r)
  OBVIOUS
<1>5. /\ DOMAIN c = {g \in DOMAIN Fields[r] : Fields[r][g] # p[g]}
      /\ \A f \in DOMAIN c : c[f] = Fields[r][f]
  BY <1>1, <1>4 DEF Changed
<1>6. e.user = Subject[r] /\ e.changes = c
  BY <1>3, <1>4
<1>7. \A f \in {"email", "name"} :
        (IF e.user = Subject[r] /\ f \in DOMAIN e.changes THEN e.changes[f] ELSE p[f])
            = IF f \in DOMAIN Fields[r] THEN Fields[r][f] ELSE p[f]
  BY <1>5, <1>6
<1> QED
  BY <1>1, <1>2, <1>3, <1>7 DEF After, Announced

\* Of that, it makes the same again.
LEMMA AnnouncedStays ==
    ASSUME NEW r \in Request
    PROVE  After(Subject[r], Announced(r), [user |-> Subject[r], changes |-> Changed(r)])
             = Announced(r)
<1>1. PICK e : e = [user |-> Subject[r], changes |-> Changed(r)]
  OBVIOUS
<1>2. PICK c : c = Changed(r)
  OBVIOUS
<1>3. DOMAIN c \subseteq DOMAIN Fields[r] /\ \A f \in DOMAIN c : c[f] = Fields[r][f]
  BY <1>2 DEF Changed
<1>4. PICK q : q = Announced(r)
  OBVIOUS
<1>5. /\ q = [f \in {"email", "name"} |-> q[f]]
      /\ \A f \in DOMAIN Fields[r] \cap {"email", "name"} : q[f] = Fields[r][f]
  BY <1>4 DEF Announced
<1>6. \A f \in {"email", "name"} :
        (IF e.user = Subject[r] /\ f \in DOMAIN e.changes THEN e.changes[f] ELSE q[f]) = q[f]
  BY <1>1, <1>2, <1>3, <1>5
<1>7. DOMAIN q = {"email", "name"}
  BY <1>5
<1>8. After(Subject[r], q, e) = q
  BY <1>5, <1>6, <1>7 DEF After
<1> QED
  BY <1>1, <1>4, <1>8

LEMMA NothingChanged ==
    ASSUME NEW r \in Request, requests[r].old \in Profile, Changed(r) = <<>>
    PROVE  requests[r].old = Announced(r)
<1>1. PICK p \in Profile : p = requests[r].old
  OBVIOUS
<1>2. p = [f \in {"email", "name"} |-> p[f]]
  BY DEF Profile
<1>3. DOMAIN Changed(r) = {}
  <2>1. DOMAIN <<>> = {}
    OBVIOUS
  <2> QED
    BY <2>1
<1>4. \A f \in DOMAIN Fields[r] : Fields[r][f] = p[f]
  BY <1>1, <1>3 DEF Changed
<1>5. \A f \in {"email", "name"} : p[f] = IF f \in DOMAIN Fields[r] THEN Fields[r][f] ELSE p[f]
  BY <1>4
<1> QED
  BY <1>1, <1>2, <1>5 DEF Announced

LEMMA ReplayedType ==
    ASSUME TopicsOK, NEW u \in DOMAIN Start
    PROVE  Replayed(u) \in Profile
<1>1. PICK s \in Seq(Event) : s = updated
  BY DEF TopicsOK
<1>2. PICK p \in [0..Len(s) -> Profile] : IsHistory(p, u, s)
  BY HistoryExists
<1>3. Len(s) \in 0..Len(s)
  <2>1. Len(s) \in Nat
    OBVIOUS
  <2> QED
    BY <2>1
<1>4. p[Len(s)] = Replay(u, s) /\ p[Len(s)] \in Profile
  BY <1>2, <1>3 DEF IsHistory
<1> QED
  BY <1>1, <1>4, ReplayedIsReplay

\* Registrations and logins: no change of an account that was there.
LEMMA RegisterStep ==
    ASSUME AccountsInv, NEW r \in DOMAIN requests,
           \/ CheckRegistration(r) \/ InsertUser(r) \/ Login(r)
           \/ Kind[r] \in {"register", "login"} /\ (StatementFails(r) \/ CommitUnheard(r))
    PROVE  AccountsInv'
<1>1. RequestsOK /\ UsersOK /\ TopicsOK /\ r \in Request
  BY DEF AccountsInv, AccountsOK, RequestsOK
<1>2. Kind[r] \in {"register", "login"} /\ UNCHANGED <<topics, history>>
  BY DEF CheckRegistration, InsertUser, Login, StatementFails, CommitUnheard, Updates,
     Deletes, history, At
<1>3. Moved(r) /\ requests'[r].state \in {"checked", "done"}
  BY <1>1, GoesFacts, AnswersFacts
     DEF CheckRegistration, InsertUser, Login, StatementFails, CommitUnheard
<1>4. RequestsOK'
  BY <1>1, <1>3, MovedType
<1>5. TopicsOK' /\ \A u \in DOMAIN Start : EventsKept(u)
  BY <1>1, <1>2, SameTopics
<1>6. UsersOK' /\ \A u \in DOMAIN Start : RowKept(u)
  <2>1. CASE UNCHANGED users
    BY <1>1, <2>1, SameUsers
  <2>2. CASE users' = WithUser(r)
    <3>1. Email(r) \in Value /\ NoName \in Value
      BY <1>1, <1>2, RequestFacts DEF Value
    <3>2. PICK p \in Profile : p = [email |-> Email(r), name |-> NoName]
      <4>1. [email |-> Email(r), name |-> NoName] \in Profile
        BY <3>1 DEF Profile
      <4> QED
        BY <4>1
    <3>3. DOMAIN users' = DOMAIN users \cup {r}
      BY <2>2 DEF WithUser
    <3>4. \A u \in DOMAIN users' :
            users'[u] = IF u = r THEN [fields |-> p, live |-> TRUE] ELSE users[u]
      BY <2>2, <3>2 DEF WithUser
    <3>5. \A u \in DOMAIN users' : users'[u] \in [fields : Profile, live : BOOLEAN]
      <4> TAKE u \in DOMAIN users'
      <4>1. CASE u = r
        <5>1. users'[u] = [fields |-> p, live |-> TRUE]
          BY <3>4, <4>1
        <5>2. [fields |-> p, live |-> TRUE] \in [fields : Profile, live : BOOLEAN]
          OBVIOUS
        <5> QED
          BY <5>1, <5>2
      <4>2. CASE u # r
        <5>1. u \in DOMAIN users /\ users'[u] = users[u]
          BY <3>3, <3>4, <4>2
        <5> QED
          BY <1>1, <5>1 DEF UsersOK
      <4> QED
        BY <4>1, <4>2
    <3>6. users' = [u \in DOMAIN users' |-> users'[u]]
      BY <2>2 DEF WithUser
    <3>7. UsersOK'
      BY <1>1, <3>3, <3>5, <3>6 DEF UsersOK
    <3>8. \A u \in DOMAIN Start : u # r
      BY <1>1, StartFacts
    <3> QED
      BY <1>1, <3>3, <3>4, <3>7, <3>8 DEF UsersOK, RowKept
  <2> QED
    BY <1>2, <2>1, <2>2 DEF CheckRegistration, InsertUser, Login, StatementFails,
       CommitUnheard, Updates, Deletes, At
<1>7. \A u \in DOMAIN Start : AccountKept(u)'
  <2> TAKE u \in DOMAIN Start
  <2>1. r \notin Mine(u)
    BY <1>2 DEF Mine
  <2>2. HistoryKept(u)
    BY <1>2, SameHistory
  <2>3. AccountKept(u)
    BY DEF AccountsInv
  <2> QED
    BY <1>1, <1>3, <1>5, <1>6, <2>1, <2>2, <2>3, StepOfOthers
<1> QED
  BY <1>4, <1>5, <1>6, <1>7 DEF AccountsInv, AccountsOK

\* The account that r is about.
LEMMA SubjectFacts ==
    ASSUME AccountsInv, NEW r \in DOMAIN requests, Kind[r] \in {"update", "delete"}
    PROVE  /\ RequestsOK /\ UsersOK /\ TopicsOK /\ r \in Request
           /\ Subject[r] \in DOMAIN Start /\ r \in Mine(Subject[r])
           /\ \A u \in DOMAIN Start : AccountKept(u)
           /\ \A u \in DOMAIN Start \ {Subject[r]} : r \notin Mine(u)
BY RequestFacts DEF AccountsInv, AccountsOK, RequestsOK, Mine

\* What is left to show of a change: what it does for its own account.
LEMMA ChangeStep ==
    ASSUME AccountsInv, NEW r \in DOMAIN requests, Kind[r] \in {"update", "delete"},
           Moved(r), UsersOK', TopicsOK',
           \A u \in DOMAIN Start \ {Subject[r]} : RowKept(u) /\ EventsKept(u) /\ HistoryKept(u),
           AccountKept(Subject[r])'
    PROVE  AccountsInv'
<1>1. RequestsOK'
  BY SubjectFacts, MovedType
<1>2. ASSUME NEW u \in DOMAIN Start
      PROVE  AccountKept(u)'
  <2>1. CASE u = Subject[r]
    BY <2>1
  <2>2. CASE u # Subject[r]
    <3>1. RequestsOK /\ AccountKept(u) /\ r \notin Mine(u)
      BY <2>2, SubjectFacts
    <3> QED
      BY <2>2, <3>1, StepOfOthers
  <2> QED
    BY <2>1, <2>2
<1> QED
  BY <1>1, <1>2 DEF AccountsInv, AccountsOK

LEMMA FindByIDStep ==
    ASSUME AccountsInv, NEW r \in DOMAIN requests, FindByID(r)
    PROVE  AccountsInv'
<1>1. Kind[r] \in {"update", "delete"} /\ requests[r].state = "new"
  BY DEF FindByID
<1>2. PICK u \in DOMAIN Start : u = Subject[r]
  BY <1>1, SubjectFacts
<1>3. /\ RequestsOK /\ UsersOK /\ TopicsOK /\ AccountKept(u) /\ r \in Mine(u)
  BY <1>1, <1>2, SubjectFacts
<1>4. /\ IF Live(u)
         THEN requests' = [requests EXCEPT ![r] = [state |-> "read", old |-> users[u].fields]]
         ELSE Answers(r, "not found")
      /\ overlapped' = IF Underway(u) # {} THEN overlapped \cup {u} ELSE overlapped
      /\ UNCHANGED <<users, topics, lost, unheard>>
  BY <1>2 DEF FindByID
<1>5. UsersOK' /\ \A v \in DOMAIN Start : RowKept(v)
  BY <1>3, <1>4, SameUsers
<1>6. TopicsOK' /\ \A v \in DOMAIN Start : EventsKept(v)
  BY <1>3, <1>4, SameTopics
<1>7. \A v \in DOMAIN Start \ {u} : HistoryKept(v)
  BY <1>4 DEF HistoryKept
<1>8. Moved(r) /\ AccountKept(u)'
  <2>1. CASE Live(u)
    <3>1. PICK p \in Profile : p = users[u].fields
      BY <1>3 DEF UsersOK
    <3>2. Moved(r) /\ requests'[r].state = "read" /\ requests'[r].old = users[u].fields
      BY <1>3, <1>4, <2>1, <3>1, ReadFacts
    <3> QED
      BY <1>1, <1>3, <1>4, <1>5, <1>6, <2>1, <3>2, Reads
  <2>2. CASE ~ Live(u)
    <3>1. Moved(r) /\ requests'[r].state = "done"
      BY <1>3, <1>4, <2>2, AnswersFacts
    <3> QED
      BY <1>1, <1>3, <1>4, <1>5, <1>6, <3>1, EndsUnwritten
  <2> QED
    BY <2>1, <2>2
<1> QED
  BY <1>1, <1>2, <1>5, <1>6, <1>7, <1>8, ChangeStep

LEMMA LockRowStep ==
    ASSUME AccountsInv, NEW r \in DOMAIN requests, LockRow(r)
    PROVE  AccountsInv'
<1>1. Kind[r] = "update" /\ requests[r].state = "read"
  BY DEF LockRow, At
<1>2. PICK u \in DOMAIN Start : u = Subject[r]
  BY <1>1, SubjectFacts
<1>3. /\ RequestsOK /\ UsersOK /\ TopicsOK /\ AccountKept(u) /\ r \in Mine(u)
  BY <1>1, <1>2, SubjectFacts
<1>4. UNCHANGED <<users, topics, history>>
  BY DEF LockRow
<1>5. UsersOK' /\ \A v \in DOMAIN Start : RowKept(v)
  BY <1>3, <1>4, SameUsers
<1>6. TopicsOK' /\ \A v \in DOMAIN Start : EventsKept(v)
  BY <1>3, <1>4, SameTopics
<1>7. \A v \in DOMAIN Start : HistoryKept(v)
  BY <1>4, SameHistory
<1>8. Moved(r) /\ AccountKept(u)'
  <2>1. CASE Live(u) /\ Goes(r, "locked")
    <3>1. Moved(r) /\ requests'[r].state = "locked" /\ requests'[r].old = requests[r].old
      BY <1>3, <2>1, GoesFacts
    <3> QED
      BY <1>1, <1>3, <1>5, <1>6, <1>7, <2>1, <3>1, Locks
  <2>2. ASSUME NEW a, Answers(r, a)
        PROVE  Moved(r) /\ AccountKept(u)'
    <3>1. Moved(r) /\ requests'[r].state = "done"
      BY <1>3, <2>2, AnswersFacts
    <3>2. HistoryKept(u)
      BY <1>7
    <3>3. /\ (u \in lost') <=> (u \in lost)
          /\ u \in overlapped => u \in overlapped'
          /\ u \in unheard => u \in unheard'
      BY <3>2 DEF HistoryKept
    <3> QED
      BY <1>1, <1>3, <1>5, <1>6, <3>1, <3>3, EndsUnwritten
  <2> QED
    BY <1>2, <2>1, <2>2 DEF LockRow
<1> QED
  BY <1>1, <1>2, <1>5, <1>6, <1>7, <1>8, ChangeStep

\* The row that an update writes is live, for it is locked.
LEMMA UpdatesFacts ==
    ASSUME AccountsInv, NEW r \in DOMAIN requests, Kind[r] = "update",
           requests[r].state = "locked",
           users' = IF Live(Subject[r]) THEN Written(r) ELSE users
    PROVE  /\ UsersOK' /\ Live(Subject[r]) /\ Live(Subject[r])'
           /\ \A v \in DOMAIN Start \ {Subject[r]} : RowKept(v)
           /\ users'[Subject[r]].fields =
                [f \in {"email", "name"} |->
                    IF f \in DOMAIN Fields[r] THEN Fields[r][f]
                    ELSE users[Subject[r]].fields[f]]
<1>1. PICK u \in DOMAIN Start : u = Subject[r]
  BY SubjectFacts
<1>2. UsersOK /\ AccountKept(u) /\ r \in Request
  BY <1>1, SubjectFacts
<1>3. Live(u)
  <2>1. Locked(u)
    BY <1>1 DEF Locked, At
  <2> QED
    BY <1>2, <2>1 DEF AccountKept, LockedIsLive
<1>4. users' = Written(r)
  BY <1>1, <1>3
<1>5. /\ DOMAIN users' = DOMAIN users
      /\ users' \in [DOMAIN users -> [fields : Profile, live : BOOLEAN]]
      /\ \A v \in DOMAIN users \ {u} : users'[v] = users[v]
      /\ users'[u].live = users[u].live
      /\ users'[u].fields =
            [f \in {"email", "name"} |->
                IF f \in DOMAIN Fields[r] THEN Fields[r][f] ELSE users[u].fields[f]]
  BY <1>1, <1>2, <1>4, WrittenType
<1>6. UsersOK' /\ Live(u)' /\ \A v \in DOMAIN Start \ {u} : RowKept(v)
  BY <1>2, <1>3, <1>5 DEF UsersOK, RowKept, Live
<1> QED
  BY <1>1, <1>3, <1>5, <1>6

LEMMA UpdateRowStep ==
    ASSUME AccountsInv, NEW r \in DOMAIN requests, UpdateRow(r)
    PROVE  AccountsInv'
<1>1. Kind[r] = "update" /\ requests[r].state = "locked"
  BY DEF UpdateRow, Updates, At
<1>2. PICK u \in DOMAIN Start : u = Subject[r]
  BY <1>1, SubjectFacts
<1>3. /\ RequestsOK /\ UsersOK /\ TopicsOK /\ AccountKept(u) /\ r \in Mine(u) /\ r \in Request
  BY <1>1, <1>2, SubjectFacts
<1>4. UNCHANGED <<topics, history>>
  BY DEF UpdateRow
<1>5. TopicsOK' /\ \A v \in DOMAIN Start : EventsKept(v)
  BY <1>3, <1>4, SameTopics
<1>6. \A v \in DOMAIN Start : HistoryKept(v)
  BY <1>4, SameHistory
<1>7. CASE Answers(r, "error") /\ UNCHANGED users
  <2>1. UsersOK' /\ \A v \in DOMAIN Start : RowKept(v)
    BY <1>3, <1>7, SameUsers
  <2>2. Moved(r) /\ requests'[r].state = "done"
    BY <1>3, <1>7, AnswersFacts
  <2>3. /\ (u \in lost') <=> (u \in lost)
        /\ u \in overlapped => u \in overlapped'
        /\ u \in unheard => u \in unheard'
    BY <1>6 DEF HistoryKept
  <2>4. AccountKept(u)'
    BY <1>1, <1>3, <1>5, <2>1, <2>2, <2>3, EndsUnwritten
  <2> QED
    BY <1>1, <1>2, <1>5, <1>6, <2>1, <2>2, <2>4, ChangeStep
<1>8. CASE Goes(r, "written") /\ users' = IF Live(u) THEN Written(r) ELSE users
  <2>1. /\ UsersOK' /\ Live(u) /\ Live(u)'
        /\ \A v \in DOMAIN Start \ {u} : RowKept(v)
        /\ users'[u].fields =
                [f \in {"email", "name"} |->
                    IF f \in DOMAIN Fields[r] THEN Fields[r][f] ELSE users[u].fields[f]]
    BY <1>1, <1>2, <1>8, UpdatesFacts
  <2>2. Moved(r) /\ requests'[r].state = "written" /\ requests'[r].old = requests[r].old
    BY <1>3, <1>8, GoesFacts
  <2>3. AccountKept(u)'
    BY <1>1, <1>3, <1>5, <1>6, <2>1, <2>2, WritesRow
  <2> QED
    BY <1>1, <1>2, <1>5, <1>6, <2>1, <2>2, <2>3, ChangeStep
<1> QED
  BY <1>2, <1>7, <1>8 DEF UpdateRow, Updates

LEMMA SoftDeleteStep ==
    ASSUME AccountsInv, NEW r \in DOMAIN requests, SoftDelete(r)
    PROVE  AccountsInv'
<1>1. Kind[r] = "delete" /\ requests[r].state = "read" /\ Goes(r, "written")
  BY DEF SoftDelete, Deletes, At
<1>2. PICK u \in DOMAIN Start : u = Subject[r]
  BY <1>1, SubjectFacts
<1>3. /\ RequestsOK /\ UsersOK /\ TopicsOK /\ AccountKept(u) /\ r \in Mine(u)
  BY <1>1, <1>2, SubjectFacts
<1>4. ~ Locked(u) /\ users' = [users EXCEPT ![u].live = FALSE] /\ UNCHANGED <<topics, history>>
  BY <1>2 DEF SoftDelete, Deletes
<1>5. TopicsOK' /\ \A v \in DOMAIN Start : EventsKept(v)
  BY <1>3, <1>4, SameTopics
<1>6. \A v \in DOMAIN Start : HistoryKept(v)
  BY <1>4, SameHistory
<1>7. Moved(r) /\ requests'[r].state = "written" /\ requests'[r].old = requests[r].old
  BY <1>1, <1>3, GoesFacts
<1>8. /\ DOMAIN users' = DOMAIN users /\ u \in DOMAIN users
      /\ users' \in [DOMAIN users -> [fields : Profile, live : BOOLEAN]]
      /\ \A v \in DOMAIN users \ {u} : users'[v] = users[v]
      /\ ~ users'[u].live /\ users'[u].fields = users[u].fields
  BY <1>3, <1>4 DEF UsersOK
<1>9. UsersOK' /\ ~ Live(u)' /\ \A v \in DOMAIN Start \ {u} : RowKept(v)
  BY <1>3, <1>8 DEF UsersOK, RowKept, Live
<1>10. AccountKept(u)'
  BY <1>1, <1>3, <1>4, <1>5, <1>6, <1>7, <1>8, <1>9, DeletesRow
<1> QED
  BY <1>1, <1>2, <1>5, <1>6, <1>7, <1>9, <1>10, ChangeStep

\* The event of an update, if there is one, makes of the events what it has written.
LEMMA WritesUpdate ==
    ASSUME RequestsOK, TopicsOK, NEW r \in DOMAIN requests, Kind[r] = "update", Writes(r)
    PROVE  /\ TopicsOK' /\ UNCHANGED deleted
           /\ \A v \in DOMAIN Start \ {Subject[r]} : EventsKept(v)
           /\ Replayed(Subject[r]) \in {requests[r].old, Announced(r)} =>
                Replayed(Subject[r])' = Announced(r)
<1>1. PICK u \in DOMAIN Start : u = Subject[r]
  BY RequestFacts DEF RequestsOK
<1>2. r \in Request /\ Replayed(u) \in Profile
  BY ReplayedType DEF RequestsOK
<1>3. CASE Changed(r) = <<>>
  <2>1. UNCHANGED topics
    BY <1>3 DEF Writes, topics
  <2>2. TopicsOK' /\ \A v \in DOMAIN Start : EventsKept(v)
    BY <2>1, SameTopics
  <2>3. Replayed(u)' = Replayed(u)
    BY <2>2 DEF EventsKept
  <2>4. Replayed(u) = requests[r].old => Replayed(u) = Announced(r)
    BY <1>2, <1>3, NothingChanged
  <2>5. UNCHANGED deleted
    BY <2>1 DEF topics
  <2> QED
    BY <1>1, <2>2, <2>3, <2>4, <2>5
<1>4. CASE Changed(r) # <<>>
  <2>1. PICK e \in Event : e = [user |-> Subject[r], changes |-> Changed(r)]
    BY <1>2, ChangedType
  <2>2. updated' = Append(updated, e) /\ UNCHANGED deleted
    BY <1>4, <2>1 DEF Writes
  <2>3. e.user = u
    BY <1>1, <2>1
  <2>4. /\ TopicsOK' /\ Replayed(u)' = After(u, Replayed(u), e)
        /\ \A v \in DOMAIN Start \ {u} : EventsKept(v)
    BY <2>2, <2>3, OneMoreEvent
  <2>5. requests[r].old \in Profile => After(u, requests[r].old, e) = Announced(r)
    BY <1>1, <1>2, <2>1, ChangedAnnounces
  <2>6. After(u, Announced(r), e) = Announced(r)
    BY <1>1, <1>2, <2>1, AnnouncedStays
  <2>7. Replayed(u) \in {requests[r].old, Announced(r)} => Replayed(u)' = Announced(r)
    BY <1>2, <2>4, <2>5, <2>6
  <2> QED
    BY <1>1, <2>2, <2>4, <2>7
<1> QED
  BY <1>3, <1>4

\* The event of a deletion.
LEMMA WritesDeletion ==
    ASSUME RequestsOK, TopicsOK, NEW r \in DOMAIN requests, Kind[r] = "delete", Writes(r)
    PROVE  /\ TopicsOK' /\ deleted' = Append(deleted, Subject[r])
           /\ Subject[r] \in ToSet(deleted')
           /\ Replayed(Subject[r])' = Replayed(Subject[r])
           /\ \A v \in DOMAIN Start \ {Subject[r]} : EventsKept(v)
<1>1. PICK u \in DOMAIN Start : u = Subject[r]
  BY RequestFacts DEF RequestsOK
<1>2. deleted' = Append(deleted, u) /\ UNCHANGED updated
  BY <1>1 DEF Writes
<1>3. /\ TopicsOK' /\ Replayed(u)' = Replayed(u) /\ u \in ToSet(deleted')
      /\ \A v \in DOMAIN Start \ {u} : EventsKept(v)
  BY <1>2, OneMoreDeletion
<1> QED
  BY <1>1, <1>2, <1>3

LEMMA PublishStep ==
    ASSUME AccountsInv, NEW r \in DOMAIN requests, Publish(r)
    PROVE  AccountsInv'
<1>1. requests[r].state = "written" /\ Kind[r] \in {"update", "delete"}
  BY DEF Publish, AccountsInv, AccountsOK, RequestsOK
<1>2. PICK u \in DOMAIN Start : u = Subject[r]
  BY <1>1, SubjectFacts
<1>3. /\ RequestsOK /\ UsersOK /\ TopicsOK /\ AccountKept(u) /\ r \in Mine(u) /\ r \in Request
  BY <1>1, <1>2, SubjectFacts
<1>4. Answers(r, "ok") /\ Writes(r) /\ UNCHANGED <<users, history>>
  BY DEF Publish
<1>5. UsersOK' /\ \A v \in DOMAIN Start : RowKept(v)
  BY <1>3, <1>4, SameUsers
<1>6. \A v \in DOMAIN Start : HistoryKept(v)
  BY <1>4, SameHistory
<1>7. Moved(r) /\ requests'[r].state = "done"
  BY <1>3, <1>4, AnswersFacts
<1>8. CASE Kind[r] = "delete"
  <2>1. /\ TopicsOK' /\ deleted' = Append(deleted, u) /\ Replayed(u)' = Replayed(u)
        /\ \A v \in DOMAIN Start \ {u} : EventsKept(v)
    BY <1>2, <1>3, <1>4, <1>8, WritesDeletion
  <2>2. AccountKept(u)'
    BY <1>1, <1>3, <1>5, <1>6, <1>7, <1>8, <2>1, AnnouncesDeletion
  <2> QED
    BY <1>1, <1>2, <1>5, <1>6, <1>7, <2>1, <2>2, ChangeStep
<1>9. CASE Kind[r] = "update"
  <2>1. /\ TopicsOK' /\ UNCHANGED deleted /\ \A v \in DOMAIN Start \ {u} : EventsKept(v)
        /\ Replayed(u) \in {requests[r].old, Announced(r)} => Replayed(u)' = Announced(r)
    BY <1>2, <1>3, <1>4, <1>9, WritesUpdate
  <2>2. AccountKept(u)'
    BY <1>1, <1>3, <1>5, <1>6, <1>7, <1>9, <2>1, Announces
  <2> QED
    BY <1>1, <1>2, <1>5, <1>6, <1>7, <2>1, <2>2, ChangeStep
<1> QED
  BY <1>1, <1>8, <1>9

LEMMA WriteUnheardStep ==
    ASSUME AccountsInv, NEW r \in DOMAIN requests, WriteUnheard(r)
    PROVE  AccountsInv'
<1>1. requests[r].state = "written" /\ Kind[r] \in {"update", "delete"}
  BY DEF WriteUnheard, AccountsInv, AccountsOK, RequestsOK
<1>2. PICK u \in DOMAIN Start : u = Subject[r]
  BY <1>1, SubjectFacts
<1>3. /\ RequestsOK /\ UsersOK /\ TopicsOK /\ AccountKept(u) /\ r \in Mine(u) /\ r \in Request
  BY <1>1, <1>2, SubjectFacts
<1>4. /\ Writes(r) /\ UNCHANGED <<users, requests, lost, overlapped>>
      /\ unheard' = IF Kind[r] = "delete" THEN unheard \cup {u} ELSE unheard
  BY <1>2 DEF WriteUnheard
<1>5. UsersOK' /\ \A v \in DOMAIN Start : RowKept(v)
  BY <1>3, <1>4, SameUsers
<1>6. \A v \in DOMAIN Start \ {u} : HistoryKept(v)
  BY <1>4 DEF HistoryKept
<1>7. Moved(r)
  BY <1>3, <1>4 DEF Moved, RequestsOK
<1>8. CASE Kind[r] = "delete"
  <2>1. /\ TopicsOK' /\ u \in ToSet(deleted') /\ Replayed(u)' = Replayed(u)
        /\ \A v \in DOMAIN Start \ {u} : EventsKept(v)
    BY <1>2, <1>3, <1>4, <1>8, WritesDeletion
  <2>2. RowKept(u) /\ u \in unheard' /\ UNCHANGED requests
        /\ ((u \in lost') <=> (u \in lost)) /\ ((u \in overlapped') <=> (u \in overlapped))
    BY <1>4, <1>5, <1>8
  <2>3. AccountKept(u)'
    BY <1>1, <1>3, <1>8, <2>1, <2>2, DeletionUnheard
  <2> QED
    BY <1>1, <1>2, <1>5, <1>6, <1>7, <2>1, <2>3, ChangeStep
<1>9. CASE Kind[r] = "update"
  <2>1. /\ TopicsOK' /\ UNCHANGED deleted /\ \A v \in DOMAIN Start \ {u} : EventsKept(v)
        /\ Replayed(u) \in {requests[r].old, Announced(r)} => Replayed(u)' = Announced(r)
    BY <1>2, <1>3, <1>4, <1>9, WritesUpdate
  <2>2. RowKept(u) /\ HistoryKept(u) /\ UNCHANGED <<requests, deleted>>
    BY <1>4, <1>5, <1>9, <2>1 DEF HistoryKept
  <2>3. AccountKept(u)'
    BY <1>1, <1>3, <1>9, <2>1, <2>2, AnnouncesUnheard
  <2> QED
    BY <1>1, <1>2, <1>5, <1>6, <1>7, <2>1, <2>3, ChangeStep
<1> QED
  BY <1>1, <1>8, <1>9

LEMMA PublishFailsStep ==
    ASSUME AccountsInv, NEW r \in DOMAIN requests, PublishFails(r)
    PROVE  AccountsInv'
<1>1. requests[r].state = "written" /\ Kind[r] \in {"update", "delete"}
  BY DEF PublishFails, AccountsInv, AccountsOK, RequestsOK
<1>2. PICK u \in DOMAIN Start : u = Subject[r]
  BY <1>1, SubjectFacts
<1>3. /\ RequestsOK /\ UsersOK /\ TopicsOK /\ AccountKept(u)
  BY <1>1, <1>2, SubjectFacts
<1>4. Answers(r, "ok") /\ lost' = lost \cup {u} /\ UNCHANGED <<users, topics, unheard, overlapped>>
  BY <1>2 DEF PublishFails
<1>5. UsersOK' /\ \A v \in DOMAIN Start : RowKept(v)
  BY <1>3, <1>4, SameUsers
<1>6. TopicsOK' /\ \A v \in DOMAIN Start : EventsKept(v)
  BY <1>3, <1>4, SameTopics
<1>7. \A v \in DOMAIN Start \ {u} : HistoryKept(v)
  BY <1>4 DEF HistoryKept
<1>8. Moved(r) /\ requests'[r].state = "done"
  BY <1>3, <1>4, AnswersFacts
<1>9. /\ u \in lost' /\ ((u \in overlapped') <=> (u \in overlapped))
      /\ ((u \in unheard') <=> (u \in unheard)) /\ UNCHANGED deleted
  BY <1>4 DEF topics
<1>10. Live(u)' <=> Live(u)
  BY <1>5, RowKeptFacts
<1>11. AccountKept(u)'
  BY <1>3, <1>8, <1>9, <1>10, Loses
<1> QED
  BY <1>1, <1>2, <1>5, <1>6, <1>7, <1>8, <1>11, ChangeStep

\* A statement of a change fails.
LEMMA StatementFailsStep ==
    ASSUME AccountsInv, NEW r \in DOMAIN requests, StatementFails(r),
           Kind[r] \in {"update", "delete"}
    PROVE  AccountsInv'
<1>1. requests[r].state # "written"
  BY DEF StatementFails
<1>2. PICK u \in DOMAIN Start : u = Subject[r]
  BY SubjectFacts
<1>3. RequestsOK /\ UsersOK /\ TopicsOK /\ AccountKept(u)
  BY <1>2, SubjectFacts
<1>4. Answers(r, "error") /\ UNCHANGED <<users, topics, history>>
  BY DEF StatementFails
<1>5. UsersOK' /\ \A v \in DOMAIN Start : RowKept(v)
  BY <1>3, <1>4, SameUsers
<1>6. TopicsOK' /\ \A v \in DOMAIN Start : EventsKept(v)
  BY <1>3, <1>4, SameTopics
<1>7. \A v \in DOMAIN Start : HistoryKept(v)
  BY <1>4, SameHistory
<1>8. Moved(r) /\ requests'[r].state = "done"
  BY <1>3, <1>4, AnswersFacts
<1>9. /\ (u \in lost') <=> (u \in lost)
      /\ u \in overlapped => u \in overlapped'
      /\ u \in unheard => u \in unheard'
  BY <1>7 DEF HistoryKept
<1>10. AccountKept(u)'
  BY <1>1, <1>3, <1>5, <1>6, <1>8, <1>9, EndsUnwritten
<1> QED
  BY <1>2, <1>5, <1>6, <1>7, <1>8, <1>10, ChangeStep

\* A change commits and its answer is lost.
LEMMA CommitUnheardStep ==
    ASSUME AccountsInv, NEW r \in DOMAIN requests, CommitUnheard(r),
           Kind[r] \in {"update", "delete"}
    PROVE  AccountsInv'
<1>1. PICK u \in DOMAIN Start : u = Subject[r]
  BY SubjectFacts
<1>2. RequestsOK /\ UsersOK /\ TopicsOK /\ AccountKept(u)
  BY <1>1, SubjectFacts
<1>3. /\ Updates(r) \/ Deletes(r)
      /\ lost' = lost \cup {u} /\ Answers(r, "error")
      /\ UNCHANGED <<topics, unheard, overlapped>>
  BY <1>1 DEF CommitUnheard, At
<1>4. TopicsOK' /\ \A v \in DOMAIN Start : EventsKept(v)
  BY <1>2, <1>3, SameTopics
<1>5. \A v \in DOMAIN Start \ {u} : HistoryKept(v)
  BY <1>3 DEF HistoryKept
<1>6. Moved(r) /\ requests'[r].state = "done"
  BY <1>2, <1>3, AnswersFacts
<1>7. /\ UsersOK' /\ \A v \in DOMAIN Start \ {u} : RowKept(v)
      /\ Live(u)' => Live(u)
      /\ Locked(u) /\ Live(u) => Live(u)'
  <2>1. CASE Updates(r)
    <3>1. /\ Kind[r] = "update" /\ requests[r].state = "locked"
          /\ users' = IF Live(Subject[r]) THEN Written(r) ELSE users
      BY <2>1 DEF Updates, At
    <3> QED
      BY <1>1, <3>1, UpdatesFacts
  <2>2. CASE Deletes(r)
    <3>1. ~ Locked(u) /\ users' = [users EXCEPT ![u].live = FALSE]
      BY <1>1, <2>2 DEF Deletes
    <3>2. /\ DOMAIN users' = DOMAIN users /\ u \in DOMAIN users
          /\ users' \in [DOMAIN users -> [fields : Profile, live : BOOLEAN]]
          /\ \A v \in DOMAIN users \ {u} : users'[v] = users[v]
          /\ ~ users'[u].live
      BY <1>2, <3>1 DEF UsersOK
    <3> QED
      BY <1>2, <3>1, <3>2 DEF UsersOK, RowKept, Live
  <2> QED
    BY <1>3, <2>1, <2>2
<1>8. /\ u \in lost' /\ ((u \in overlapped') <=> (u \in overlapped))
      /\ ((u \in unheard') <=> (u \in unheard)) /\ UNCHANGED deleted
  BY <1>3 DEF topics
<1>9. AccountKept(u)'
  BY <1>2, <1>6, <1>7, <1>8, Loses
<1> QED
  BY <1>1, <1>4, <1>5, <1>6, <1>7, <1>9, ChangeStep

-----------------------------------------------------------------------------
(* The theorems.                                                            *)

LEMMA AccountsInvInit == AccountsInit => AccountsInv
<1> SUFFICES ASSUME AccountsInit
             PROVE  AccountsInv
  OBVIOUS
<1>1. PICK c \in Cases : requests = [r \in c |-> [state |-> "new", old |-> <<>>]]
  BY DEF AccountsInit
<1>2. /\ users = [u \in DOMAIN Start |-> [fields |-> Start[u], live |-> TRUE]]
      /\ updated = <<>> /\ deleted = <<>>
  BY DEF AccountsInit
<1>3. RequestsOK
  BY <1>1, AccountsAssumption DEF RequestsOK, Progress
<1>4. UsersOK
  BY <1>2, StartFacts DEF UsersOK
<1>5. TopicsOK
  BY <1>2 DEF TopicsOK
<1>6. ASSUME NEW u \in DOMAIN Start
      PROVE  AccountKept(u)
  <2>1. Underway(u) = {} /\ ~ Locked(u)
    BY <1>1 DEF Underway, Locked, At
  <2>2. Live(u) /\ users[u].fields = Start[u]
    BY <1>2 DEF Live
  <2>3. Replayed(u) = Start[u]
    BY <1>2, ReplayOfNone, ReplayedIsReplay
  <2>4. u \notin ToSet(deleted) /\ DOMAIN deleted = {}
    BY <1>2 DEF ToSet
  <2> QED
    BY <2>1, <2>2, <2>3, <2>4 DEF AccountKept, OneAtATime, LockedIsLive, DeletedIsGone,
        DeletedOnce, GoneIsDeleted, EventsKnown
<1> QED
  BY <1>3, <1>4, <1>5, <1>6 DEF AccountsInv, AccountsOK

LEMMA AccountsInvStep == AccountsInv /\ [AccountsNext]_accountsVars => AccountsInv'
<1> SUFFICES ASSUME AccountsInv, [AccountsNext]_accountsVars
             PROVE  AccountsInv'
  OBVIOUS
<1>1. CASE AccountsNext
  <2>1. PICK r \in DOMAIN requests : Serve(r)
    BY <1>1 DEF AccountsNext
  <2>2. CASE CheckRegistration(r) \/ InsertUser(r) \/ Login(r)
    BY <2>2, RegisterStep
  <2>3. CASE FindByID(r)
    BY <2>3, FindByIDStep
  <2>4. CASE LockRow(r)
    BY <2>4, LockRowStep
  <2>5. CASE UpdateRow(r)
    BY <2>5, UpdateRowStep
  <2>6. CASE SoftDelete(r)
    BY <2>6, SoftDeleteStep
  <2>7. CASE Publish(r)
    BY <2>7, PublishStep
  <2>8. CASE PublishFails(r)
    BY <2>8, PublishFailsStep
  <2>9. CASE WriteUnheard(r)
    BY <2>9, WriteUnheardStep
  <2>10. CASE StatementFails(r) \/ CommitUnheard(r)
    <3>1. Kind[r] \in {"register", "login", "update", "delete"}
      BY AccountsAssumption DEF AccountsInv, AccountsOK, RequestsOK
    <3>2. CASE Kind[r] \in {"register", "login"}
      BY <2>10, <3>2, RegisterStep
    <3>3. CASE Kind[r] \in {"update", "delete"}
      BY <2>10, <3>3, StatementFailsStep, CommitUnheardStep
    <3> QED
      BY <3>1, <3>2, <3>3
  <2> QED
    BY <2>1, <2>2, <2>3, <2>4, <2>5, <2>6, <2>7, <2>8, <2>9, <2>10 DEF Serve
<1>2. CASE UNCHANGED accountsVars
  <2>1. UNCHANGED <<users, requests, topics, history>>
    BY <1>2 DEF accountsVars, topics, history
  <2>2. RequestsOK' /\ UsersOK'
    BY <2>1 DEF AccountsInv, AccountsOK, RequestsOK, UsersOK
  <2>3. TopicsOK' /\ \A u \in DOMAIN Start : EventsKept(u)
    BY <2>1, SameTopics DEF AccountsInv, AccountsOK
  <2>4. ASSUME NEW u \in DOMAIN Start
        PROVE  AccountKept(u)'
    <3>1. AccountKept(u) /\ EventsKept(u) /\ HistoryKept(u)
      BY <2>1, <2>3, SameHistory DEF AccountsInv
    <3>2. Underway(u)' = Underway(u) /\ (Locked(u)' <=> Locked(u)) /\ (Live(u)' <=> Live(u))
      BY <2>1 DEF Underway, Locked, Live, At
    <3>3. \A r : Announced(r)' = Announced(r)
      BY <2>1 DEF Announced
    <3>4. \A r, kind, state : At(r, kind, state)' <=> At(r, kind, state)
      BY <2>1 DEF At
    <3>5. /\ deleted' = deleted /\ lost' = lost
          /\ unheard' = unheard /\ overlapped' = overlapped
      BY <2>1 DEF topics, history
    <3>6. OneAtATime(u)' /\ LockedIsLive(u)'
      BY <3>1, <3>2, <3>5 DEF AccountKept, OneAtATime, LockedIsLive
    <3>7. DeletedIsGone(u)' /\ DeletedOnce(u)' /\ GoneIsDeleted(u)'
      BY <3>1, <3>2, <3>4, <3>5 DEF AccountKept, DeletedIsGone, DeletedOnce, GoneIsDeleted
    <3>8. EventsKnown(u)'
      BY <2>1, <3>1, <3>2, <3>3, <3>4, <3>5 DEF AccountKept, EventsKnown, EventsKept
    <3> QED
      BY <3>6, <3>7, <3>8 DEF AccountKept
  <2> QED
    BY <2>2, <2>3, <2>4 DEF AccountsInv, AccountsOK
<1> QED
  BY <1>1, <1>2

LEMMA AccountsInvariance == AccountsSpec => []AccountsInv
  BY AccountsInvInit, AccountsInvStep, PTL DEF AccountsSpec

\* Requests, rows and topics are what their types say: a row always has both of
\* its fields, only a change or a deletion is ever written, an account that was
\* there is never gone from the table, and every event is about one of those.
THEOREM AccountsTypeCorrect == AccountsSpec => []AccountsOK
<1>1. AccountsInv => AccountsOK
  BY DEF AccountsInv
<1> QED
  BY <1>1, AccountsInvariance, PTL

\* Whoever follows users.updated knows the profile of every account, however
\* often an event is written, but of one with a change whose event may not have
\* been published or with changes that overlapped.
THEOREM FollowersKnowTheProfile == AccountsSpec => []EventsAddUp
<1>1. AccountsInv => EventsAddUp
  BY DEF AccountsInv, AccountKept, EventsKnown, EventsAddUp
<1> QED
  BY <1>1, AccountsInvariance, PTL

\* users.deleted is about deleted accounts only: once about each, unless two
\* deletions overlapped or a broker's answer was lost, and about all of them once
\* their requests are over, but those whose publish failed or whose commit was
\* not heard of.
THEOREM DeletionsArePublished == AccountsSpec => []DeletionsAreTrue
<1>1. AccountsInv => DeletionsAreTrue
  BY DEF AccountsInv, AccountKept, DeletedIsGone, DeletedOnce, GoneIsDeleted, DeletionsAreTrue
<1> QED
  BY <1>1, AccountsInvariance, PTL

-----------------------------------------------------------------------------
(***************************************************************************)
(* CircuitBreaker.                                                          *)
(***************************************************************************)

\* The inductive invariant: what the counts of a generation know of its calls.
IsFailure(r) == r = "network" \/ (side = "gateway" /\ r = "cancelled")

\* The failures counted are the last results of this closed generation.
FailuresAreRecent ==
    breaker.state = "closed" =>
        /\ breaker.failures <= Len(outcomes) /\ Len(outcomes) <= ReadyToTrip
        /\ \A i \in DOMAIN outcomes :
            Len(outcomes) - breaker.failures < i => IsFailure(outcomes[i])

\* A half-open breaker that has counted no request has sent none.
ProbeIsCounted ==
    breaker.state = "half-open" /\ breaker.requests = 0 =>
        \A c \in Caller : ~ calls[c].current

IInv == TypeOK /\ FailuresAreRecent /\ ProbeIsCounted

Count == [state : {"closed", "open", "half-open"},
          requests : 0..MaxRequests, failures : 0..(ReadyToTrip - 1)]

CallRecord == [at : {"idle", "sent", "backoff"}, attempt : 0..maxRetries[side],
               current : BOOLEAN, asked : {"none", "closed", "half-open"}]

-----------------------------------------------------------------------------
(* The operators of the breaker.                                            *)

LEMMA ConstantFacts ==
    /\ ReadyToTrip \in Nat /\ ReadyToTrip >= 1
    /\ TypeOK => maxRetries[side] \in Nat
  BY BreakerAssumption DEF TypeOK, Side

\* Whoever looks at the breaker sees what it was, or half-open without requests.
LEMMA CurrentStateFacts ==
    ASSUME TypeOK
    PROVE  /\ currentState \in Count
           /\ \/ currentState = breaker
              \/ /\ breaker.state = "open" /\ due
                 /\ currentState = NewGeneration("half-open")
  BY ConstantFacts DEF TypeOK, currentState, NewGeneration, Count, MaxRequests

LEMMA NewGenerationFacts ==
    ASSUME NEW state \in {"closed", "open", "half-open"}
    PROVE  /\ NewGeneration(state) \in Count
           /\ NewGeneration(state).state = state
           /\ NewGeneration(state).requests = 0
           /\ NewGeneration(state).failures = 0
  BY ConstantFacts DEF NewGeneration, Count, MaxRequests

\* What a result may do to the breaker: pass without a trace, be a success or a
\* failure of a closed one, or end the generation.
LEMMA AfterRequestCases ==
    ASSUME TypeOK, NEW c \in Caller, NEW r \in Result
    PROVE  LET b == afterRequest(c, r)
           IN  \/ ~ calls[c].current /\ b = currentState
               \/ /\ calls[c].current /\ IsSuccessful(r) /\ breaker.state = "closed"
                  /\ b = [breaker EXCEPT !.failures = 0]
               \/ /\ calls[c].current /\ ~ IsSuccessful(r) /\ breaker.state = "closed"
                  /\ breaker.failures + 1 < ReadyToTrip
                  /\ b = [breaker EXCEPT !.failures = breaker.failures + 1]
               \/ /\ calls[c].current /\ ~ IsSuccessful(r) /\ breaker.state = "closed"
                  /\ breaker.failures + 1 >= ReadyToTrip
                  /\ b = NewGeneration("open")
               \/ /\ calls[c].current /\ IsSuccessful(r) /\ breaker.state = "half-open"
                  /\ b = NewGeneration("closed")
               \/ /\ calls[c].current /\ ~ IsSuccessful(r) /\ breaker.state = "half-open"
                  /\ b = NewGeneration("open")
<1>1. CASE ~ calls[c].current
  BY <1>1 DEF afterRequest, Counts
<1>2. CASE calls[c].current
  <2>1. breaker.state \in {"closed", "half-open"}
    BY <1>2 DEF TypeOK
  <2>2. currentState = breaker
    BY <2>1 DEF currentState
  <2>3. breaker.failures \in Int /\ ReadyToTrip \in Int
    BY ConstantFacts DEF TypeOK
  <2>4. CASE breaker.state = "closed"
    BY <1>2, <2>2, <2>3, <2>4 DEF afterRequest, Counts
  <2>5. CASE breaker.state = "half-open"
    BY <1>2, <2>2, <2>5 DEF afterRequest, Counts
  <2> QED
    BY <2>1, <2>4, <2>5
<1> QED
  BY <1>1, <1>2

LEMMA AfterRequestType ==
    ASSUME TypeOK, NEW c \in Caller, NEW r \in Result
    PROVE  afterRequest(c, r) \in Count
<1>1. breaker \in Count
  BY DEF TypeOK, Count
<1>2. [breaker EXCEPT !.failures = 0] \in Count
  BY <1>1, ConstantFacts DEF Count
<1>3. breaker.failures + 1 < ReadyToTrip
          => [breaker EXCEPT !.failures = breaker.failures + 1] \in Count
  BY <1>1, ConstantFacts DEF Count
<1> QED
  BY <1>2, <1>3, AfterRequestCases, CurrentStateFacts, NewGenerationFacts

-----------------------------------------------------------------------------
(* The two ways in which the breaker and the calls change.                  *)

LEMMA BeforeRequestInv ==
    ASSUME IInv, NEW c \in Caller, NEW attempt \in 0..maxRetries[side],
           beforeRequest(c, attempt), UNCHANGED <<side, upstream, changes, aborts, outcomes>>
    PROVE  IInv'
<1> DEFINE b == currentState
<1>1. /\ b \in Count
      /\ b = breaker \/ (breaker.state = "open" /\ due /\ b = NewGeneration("half-open"))
  BY CurrentStateFacts DEF IInv
<1>2. /\ b.state \in {"closed", "half-open"}
      /\ b.state = "half-open" => b.requests = 0
      /\ breaker' = IF b.state = "half-open" THEN [b EXCEPT !.requests = @ + 1] ELSE b
      /\ due' = (due /\ b.state = "open")
      /\ calls' = [calls EXCEPT ![c] =
            [at |-> "sent", attempt |-> attempt, current |-> TRUE, asked |-> b.state]]
  BY <1>1 DEF beforeRequest, Admits, MaxRequests, Count
<1> HIDE DEF b
<1>3. /\ breaker' \in Count /\ breaker'.state = b.state /\ breaker'.failures = b.failures
      /\ b.state = "half-open" => breaker'.requests = 1
  BY <1>1, <1>2 DEF Count, MaxRequests
<1>4. \A d \in Caller \ {c} : calls[d].current => b = breaker
  BY <1>1 DEF IInv, TypeOK
<1>5. TypeOK'
  <2>1. calls' \in [Caller -> CallRecord]
    BY <1>2 DEF IInv, TypeOK, CallRecord
  <2>2. \A d \in Caller : calls'[d].current => calls'[d].asked = breaker'.state
    BY <1>2, <1>3, <1>4 DEF IInv, TypeOK
  <2>3. due' = FALSE
    BY <1>2
  <2> QED
    BY <1>3, <2>1, <2>2, <2>3 DEF IInv, TypeOK, Count, CallRecord
<1>6. FailuresAreRecent'
  <2>1. breaker'.state = "closed" => b = breaker
    BY <1>1, <1>3, NewGenerationFacts
  <2> QED
    BY <1>3, <2>1 DEF IInv, FailuresAreRecent, IsFailure
<1>7. ProbeIsCounted'
  BY <1>3 DEF ProbeIsCounted
<1> QED
  BY <1>5, <1>6, <1>7 DEF IInv

\* The results this closed generation has seen, after one more.
Recent(r) ==
    IF Len(Append(outcomes, r)) > ReadyToTrip
    THEN Tail(Append(outcomes, r)) ELSE Append(outcomes, r)

LEMMA RecentFacts ==
    ASSUME TypeOK, Len(outcomes) <= ReadyToTrip, NEW r \in Result
    PROVE  LET new == Recent(r) IN
           /\ new \in Seq(Result)
           /\ Len(new) \in Nat /\ Len(new) <= ReadyToTrip
           /\ Len(new) = Len(outcomes) + 1 \/ Len(new) = ReadyToTrip
           /\ new[Len(new)] = r
           /\ \A k \in Nat : 0 < k /\ k < Len(new) =>
                new[Len(new) - k] = outcomes[Len(outcomes) - (k - 1)]
<1> DEFINE recent == Append(outcomes, r)
           new == Recent(r)
<1>1. /\ outcomes \in Seq(Result) /\ Len(outcomes) \in Nat
      /\ ReadyToTrip \in Nat /\ ReadyToTrip >= 1
  BY ConstantFacts DEF TypeOK
<1>2. /\ recent \in Seq(Result) /\ Len(recent) = Len(outcomes) + 1
      /\ \A i \in 1..Len(outcomes) : recent[i] = outcomes[i]
      /\ recent[Len(outcomes) + 1] = r
  BY <1>1
<1>3. CASE Len(recent) > ReadyToTrip
  <2>1. /\ Tail(recent) \in Seq(Result) /\ Len(Tail(recent)) = Len(outcomes)
        /\ \A i \in 1..Len(outcomes) : Tail(recent)[i] = recent[i + 1]
    BY <1>1, <1>2
  <2>2. new = Tail(recent) /\ Len(outcomes) = ReadyToTrip
    BY <1>1, <1>2, <1>3 DEF Recent
  <2> HIDE DEF recent, new
  <2>3. Len(new) = Len(outcomes) /\ new[Len(new)] = r
    BY <1>1, <1>2, <2>1, <2>2
  <2>4. ASSUME NEW k \in Nat, 0 < k, k < Len(new)
        PROVE  new[Len(new) - k] = outcomes[Len(outcomes) - (k - 1)]
    <3>1. /\ Len(new) - k \in 1..Len(outcomes)
          /\ (Len(new) - k) + 1 \in 1..Len(outcomes)
          /\ (Len(new) - k) + 1 = Len(outcomes) - (k - 1)
      BY <1>1, <2>3, <2>4
    <3> QED
      BY <1>2, <2>1, <2>2, <3>1
  <2> QED
    BY <1>1, <2>1, <2>2, <2>3, <2>4 DEF new
<1>4. CASE ~ (Len(recent) > ReadyToTrip)
  <2>1. new = recent
    BY <1>4 DEF Recent
  <2> HIDE DEF recent, new
  <2>2. Len(new) = Len(outcomes) + 1 /\ new[Len(new)] = r
    BY <1>1, <1>2, <2>1
  <2>3. ASSUME NEW k \in Nat, 0 < k, k < Len(new)
        PROVE  new[Len(new) - k] = outcomes[Len(outcomes) - (k - 1)]
    BY <1>1, <1>2, <2>1, <2>2, <2>3
  <2> QED
    BY <1>1, <1>2, <1>4, <2>1, <2>2, <2>3 DEF new, recent
<1> QED
  BY <1>3, <1>4

LEMMA ExecuteInv ==
    ASSUME IInv, NEW c \in Caller, NEW r \in Result,
           NEW next \in CallRecord, ~ next.current, Execute(c, r, next),
           UNCHANGED side, upstream' \in Conditions[side],
           changes' \in 0..Changes, aborts' \in 0..Aborts
    PROVE  IInv'
<1> DEFINE b == afterRequest(c, r)
           same == b.state = breaker.state
<1>1. /\ breaker' = b
      /\ due' = (due /\ b.state = "open" /\ same)
      /\ calls' = [d \in Caller |->
            IF d = c THEN next ELSE [calls[d] EXCEPT !.current = @ /\ same]]
      /\ outcomes' = IF b.state = "closed" /\ ~ same THEN <<>>
                     ELSE IF calls[c].asked # "closed" \/ ~ calls[c].current THEN outcomes
                     ELSE Recent(r)
  BY DEF Execute, Recent
<1>2. b \in Count
  BY AfterRequestType DEF IInv
<1>3. /\ calls \in [Caller -> CallRecord] /\ breaker \in Count
      /\ outcomes \in Seq(Result) /\ Len(outcomes) \in Nat
  BY DEF IInv, TypeOK, CallRecord, Count
<1>4. \A d \in Caller : calls'[d] \in CallRecord
                        /\ (calls'[d].current => calls[d].current /\ same)
                        /\ (calls'[d].current => calls'[d].asked = calls[d].asked)
  BY <1>1, <1>3 DEF CallRecord
<1>5. calls[c].asked = "closed" /\ calls[c].current => breaker.state = "closed"
  BY DEF IInv, TypeOK
<1>6. breaker.state = "closed" => Len(outcomes) <= ReadyToTrip
  BY DEF IInv, FailuresAreRecent
<1>7. outcomes' \in Seq(Result)
  <2>1. CASE outcomes' = <<>>
    BY <2>1
  <2>2. CASE outcomes' = outcomes
    BY <1>3, <2>2
  <2>3. CASE /\ breaker.state = "closed"
             /\ outcomes' = Recent(r)
    BY <1>6, <2>3, RecentFacts DEF IInv
  <2> QED
    BY <1>1, <1>5, <2>1, <2>2, <2>3
<1>8. TypeOK'
  <2>1. calls' \in [Caller -> CallRecord]
    BY <1>1, <1>4
  <2>2. \A d \in Caller : calls'[d].current => calls'[d].asked = breaker'.state
    BY <1>1, <1>4 DEF IInv, TypeOK
  <2>3. due' \in BOOLEAN /\ (due' => breaker'.state = "open")
    BY <1>1 DEF IInv, TypeOK
  <2> HIDE DEF b
  <2> QED
    BY <1>1, <1>2, <1>7, <2>1, <2>2, <2>3 DEF IInv, TypeOK, Count, CallRecord
<1>9. FailuresAreRecent'
  <2>1. CASE b.state # "closed"
    BY <1>1, <2>1 DEF FailuresAreRecent
  <2>2. CASE b.state = "closed" /\ ~ same
    <3>1. outcomes' = <<>>
      BY <1>1, <2>2
    <3>2. b = NewGeneration("closed")
      <4>1. breaker.state # "closed"
        BY <2>2
      <4>2. currentState.state # "closed"
        BY <4>1, CurrentStateFacts, NewGenerationFacts DEF IInv
      <4> QED
        BY <2>2, <4>1, <4>2, AfterRequestCases, NewGenerationFacts DEF IInv
    <3> HIDE DEF b
    <3> QED
      BY <1>1, <3>1, <3>2, ConstantFacts, NewGenerationFacts DEF FailuresAreRecent
  <2>3. CASE b.state = "closed" /\ same
    <3>1. breaker.state = "closed" /\ currentState = breaker
      BY <2>3 DEF currentState
    <3>2. CASE ~ calls[c].current
      <4>1. b = breaker
        BY <3>1, <3>2 DEF afterRequest, Counts
      <4>2. outcomes' = outcomes
        BY <1>1, <2>3, <3>2
      <4> HIDE DEF b
      <4> QED
        BY <1>1, <4>1, <4>2 DEF IInv, FailuresAreRecent, IsFailure
    <3>3. CASE calls[c].current
      <4>1. calls[c].asked = "closed"
        BY <3>1, <3>3 DEF IInv, TypeOK
      <4>2. outcomes' = Recent(r)
        BY <1>1, <2>3, <3>3, <4>1
      <4>3. /\ Len(outcomes') \in Nat /\ Len(outcomes') <= ReadyToTrip
            /\ Len(outcomes') = Len(outcomes) + 1 \/ Len(outcomes') = ReadyToTrip
            /\ outcomes'[Len(outcomes')] = r
            /\ \A k \in Nat : 0 < k /\ k < Len(outcomes') =>
                 outcomes'[Len(outcomes') - k] = outcomes[Len(outcomes) - (k - 1)]
        <5>1. TypeOK /\ Len(outcomes) <= ReadyToTrip
          BY <1>6, <3>1 DEF IInv
        <5> HIDE DEF b
        <5> QED
          BY <4>2, <5>1, RecentFacts
      <4>4. \/ /\ breaker' = [breaker EXCEPT !.failures = 0]
            \/ /\ ~ IsSuccessful(r) /\ breaker.failures + 1 < ReadyToTrip
               /\ breaker' = [breaker EXCEPT !.failures = breaker.failures + 1]
        BY <1>1, <2>3, <3>1, <3>3, AfterRequestCases, NewGenerationFacts DEF IInv
      <4>5. ~ IsSuccessful(r) => IsFailure(r)
        BY DEF IsSuccessful, IsFailure, Result, IInv, TypeOK, Side
      <4>6. /\ breaker.failures \in Nat /\ breaker.failures <= Len(outcomes)
            /\ \A i \in DOMAIN outcomes :
                 Len(outcomes) - breaker.failures < i => IsFailure(outcomes[i])
        BY <1>3, <3>1, ConstantFacts DEF IInv, FailuresAreRecent, Count
      <4>7. DOMAIN outcomes' = 1..Len(outcomes') /\ DOMAIN outcomes = 1..Len(outcomes)
        BY <1>3, <1>7
      <4>8. CASE breaker' = [breaker EXCEPT !.failures = 0]
        <5>1. breaker'.failures = 0
          BY <1>3, <4>8 DEF Count
        <5>2. \A i \in DOMAIN outcomes' : ~ (Len(outcomes') - breaker'.failures < i)
          <6>1. Len(outcomes') - breaker'.failures = Len(outcomes')
            BY <4>3, <5>1
          <6>2. \A i \in 1..Len(outcomes') : ~ (Len(outcomes') < i)
            BY <4>3
          <6> QED
            BY <4>7, <6>1, <6>2
        <5>3. breaker'.failures <= Len(outcomes')
          BY <4>3, <5>1
        <5> QED
          BY <4>3, <5>2, <5>3 DEF FailuresAreRecent
      <4>9. CASE /\ ~ IsSuccessful(r) /\ breaker.failures + 1 < ReadyToTrip
                 /\ breaker' = [breaker EXCEPT !.failures = breaker.failures + 1]
        <5>1. breaker'.failures = breaker.failures + 1
          BY <1>3, <4>9 DEF Count
        <5>2. breaker'.failures <= Len(outcomes')
          BY <4>3, <4>6, <4>9, <5>1, ConstantFacts
        <5>3. ASSUME NEW i \in 1..Len(outcomes'), Len(outcomes') - breaker'.failures < i
              PROVE  IsFailure(outcomes'[i])
          <6>1. CASE i = Len(outcomes')
            BY <4>3, <4>5, <4>9, <6>1
          <6>2. CASE i < Len(outcomes')
            <7>1. PICK n, m, fails \in Nat :
                    n = Len(outcomes') /\ m = Len(outcomes) /\ fails = breaker.failures
              BY <1>3, <4>3, <4>6
            <7>2. /\ i \in 1..n /\ i < n /\ n - (fails + 1) < i /\ fails <= m
                  /\ ReadyToTrip \in Nat /\ n <= ReadyToTrip /\ fails + 1 < ReadyToTrip
                  /\ n = m + 1 \/ n = ReadyToTrip
              BY <4>3, <4>6, <4>9, <5>1, <5>3, <6>2, <7>1, ConstantFacts
            <7>3. PICK k \in Nat : 0 < k /\ k < n /\ i = n - k
              <8>1. n - i \in Nat /\ 0 < n - i /\ n - i < n /\ i = n - (n - i)
                BY ONLY <7>2, n \in Nat
              <8> QED
                BY <8>1
            <7>4. outcomes'[i] = outcomes[m - (k - 1)]
              BY <4>3, <7>1, <7>3
            <7>5. m - (k - 1) \in 1..m /\ m - fails < m - (k - 1)
              BY ONLY <7>2, <7>3, m \in Nat, n \in Nat, fails \in Nat, k \in Nat
            <7> QED
              BY <4>6, <4>7, <7>1, <7>4, <7>5
          <6> QED
            BY <4>3, <6>1, <6>2
        <5>4. \A i \in DOMAIN outcomes' :
                Len(outcomes') - breaker'.failures < i => IsFailure(outcomes'[i])
          BY <4>7, <5>3
        <5> QED
          BY <4>3, <5>2, <5>4 DEF FailuresAreRecent, IsFailure
      <4> QED
        BY <4>4, <4>8, <4>9
    <3> QED
      BY <3>2, <3>3
  <2> QED
    BY <2>1, <2>2, <2>3
<1>10. ProbeIsCounted'
  <2>1. SUFFICES ASSUME b.state = "half-open", b.requests = 0
                 PROVE  \A d \in Caller : ~ calls'[d].current
    BY <1>1 DEF ProbeIsCounted
  <2>2. b = currentState
    BY <2>1, AfterRequestCases, NewGenerationFacts, <1>3 DEF IInv, Count
  <2>3. b = breaker \/ breaker.state = "open"
    BY <2>2, CurrentStateFacts DEF IInv
  <2> HIDE DEF b
  <2> QED
    BY <1>4, <2>1, <2>3 DEF IInv, ProbeIsCounted
<1> QED
  BY <1>8, <1>9, <1>10 DEF IInv

-----------------------------------------------------------------------------
(* The inductive invariant.                                                 *)

LEMMA CallFacts ==
    ASSUME TypeOK, NEW c \in Caller
    PROVE  /\ calls[c] \in CallRecord
           /\ Idle \in CallRecord /\ ~ Idle.current
           /\ AttemptsLeft(c) =>
                /\ BacksOff(c) \in CallRecord
                /\ BacksOff(c) = [at |-> "backoff", attempt |-> calls[c].attempt + 1,
                                  current |-> calls[c].current, asked |-> calls[c].asked]
<1>1. calls[c] \in CallRecord
  BY DEF TypeOK, CallRecord
<1>2. maxRetries[side] \in Nat
  BY ConstantFacts
<1>3. Idle \in CallRecord /\ ~ Idle.current
  BY <1>2 DEF Idle, CallRecord
<1>4. BacksOff(c) = [at |-> "backoff", attempt |-> calls[c].attempt + 1,
                     current |-> calls[c].current, asked |-> calls[c].asked]
  <2> DEFINE k == calls[c]
  <2>1. k = [at |-> k.at, attempt |-> k.attempt, current |-> k.current, asked |-> k.asked]
    BY <1>1 DEF CallRecord
  <2>2. BacksOff(c) = [k EXCEPT !.at = "backoff", !.attempt = @ + 1]
    BY DEF BacksOff
  <2> HIDE DEF k
  <2>3. BacksOff(c) = [at |-> "backoff", attempt |-> k.attempt + 1,
                       current |-> k.current, asked |-> k.asked]
    BY <2>1, <2>2
  <2> QED
    BY <2>3 DEF k
<1>5. AttemptsLeft(c) => calls[c].attempt + 1 \in 0..maxRetries[side]
  BY <1>1, <1>2 DEF AttemptsLeft, CallRecord
<1> QED
  BY <1>1, <1>3, <1>4, <1>5 DEF CallRecord

LEMMA WriteJSONIsExecute ==
    ASSUME TypeOK, NEW c \in Caller, NEW r \in Result, writeJSON(c, r)
    PROVE  /\ side = "producer" /\ calls[c].at = "sent"
           /\ \E next \in CallRecord :
                /\ ~ next.current /\ Execute(c, r, next)
                /\ IsSuccessful(r) => next = Idle
                /\ next.at # "sent"
<1> DEFINE again == [BacksOff(c) EXCEPT !.current = FALSE, !.asked = "none"]
<1>1. CASE r = "network" /\ AttemptsLeft(c)
  <2>1. BacksOff(c) \in CallRecord /\ BacksOff(c).at = "backoff"
    BY <1>1, CallFacts
  <2>2. again \in CallRecord /\ ~ again.current /\ again.at # "sent"
    <3> DEFINE k == BacksOff(c)
    <3>1. k \in CallRecord /\ k.at = "backoff"
      BY <2>1
    <3> HIDE DEF k
    <3>2. LET n == [k EXCEPT !.current = FALSE, !.asked = "none"]
          IN  n \in CallRecord /\ n.current = FALSE /\ n.at = k.at
      BY <3>1 DEF CallRecord
    <3> QED
      BY <3>1, <3>2 DEF k
  <2>3. Execute(c, r, again) /\ ~ IsSuccessful(r)
    BY <1>1 DEF writeJSON, IsSuccessful
  <2> QED
    BY <2>2, <2>3 DEF writeJSON
<1>2. CASE ~ (r = "network" /\ AttemptsLeft(c))
  BY <1>2, CallFacts DEF writeJSON, Idle
<1> QED
  BY <1>1, <1>2

\* An attempt of the gateway that is repeated leaves the breaker alone.
RetriesUnasked(c) ==
    /\ AttemptsLeft(c)
    /\ calls' = [calls EXCEPT ![c] = BacksOff(c)]
    /\ UNCHANGED <<breaker, due, outcomes>>

LEMMA RoundTripCases ==
    ASSUME TypeOK, NEW c \in Caller, NEW r \in Result, RoundTrip(c, r)
    PROVE  /\ side = "gateway" /\ calls[c].at = "sent"
           /\ RetriesUnasked(c) \/ Execute(c, r, Idle)
  BY DEF RoundTrip, RetriesUnasked

\* A call that goes on, or ends, without the breaker.
LEMMA CallChangeInv ==
    ASSUME IInv, NEW c \in Caller, NEW next \in CallRecord,
           next.current => /\ calls[c].current
                           /\ next.asked = calls[c].asked,
           calls' = [calls EXCEPT ![c] = next],
           UNCHANGED <<side, breaker, due, outcomes>>,
           upstream' \in Conditions[side], changes' \in 0..Changes, aborts' \in 0..Aborts
    PROVE  IInv'
<1>1. /\ calls' \in [Caller -> CallRecord]
      /\ \A d \in Caller : calls'[d].current =>
            calls[d].current /\ calls'[d].asked = calls[d].asked
  BY DEF IInv, TypeOK, CallRecord
<1>2. TypeOK'
  BY <1>1 DEF IInv, TypeOK, CallRecord
<1>3. FailuresAreRecent' /\ ProbeIsCounted'
  BY <1>1 DEF IInv, FailuresAreRecent, IsFailure, ProbeIsCounted
<1> QED
  BY <1>2, <1>3 DEF IInv

LEMMA ResponseIsResult == TypeOK => Response \in Result
  BY DEF Response, Result

LEMMA ReturnInv ==
    ASSUME IInv, NEW c \in Caller, NEW r \in Result,
           writeJSON(c, r) \/ RoundTrip(c, r), UNCHANGED side,
           upstream' \in Conditions[side], changes' \in 0..Changes, aborts' \in 0..Aborts
    PROVE  IInv'
<1>0. TypeOK
  BY DEF IInv
<1>1. CASE writeJSON(c, r)
  <2>1. PICK next \in CallRecord : ~ next.current /\ Execute(c, r, next)
    BY <1>0, <1>1, WriteJSONIsExecute
  <2> QED
    BY <2>1, ExecuteInv
<1>2. CASE RoundTrip(c, r)
  <2>1. CASE RetriesUnasked(c)
    BY <1>0, <2>1, CallFacts, CallChangeInv DEF RetriesUnasked
  <2>2. CASE Execute(c, r, Idle)
    BY <1>0, <2>2, CallFacts, ExecuteInv
  <2> QED
    BY <1>0, <1>2, <2>1, <2>2, RoundTripCases
<1> QED
  BY <1>1, <1>2

LEMMA InvInit == Init => IInv
<1> SUFFICES ASSUME Init PROVE IInv
  OBVIOUS
<1>1. /\ upstream \in Conditions[side] /\ maxRetries[side] \in Nat
      /\ Changes \in Nat /\ Aborts \in Nat
  BY BreakerAssumption DEF Init
<1>2. TypeOK
  <2>1. breaker \in Count
    BY ConstantFacts DEF Init, Count, MaxRequests
  <2>2. calls \in [Caller -> CallRecord] /\ \A c \in Caller : ~ calls[c].current
    BY <1>1 DEF Init, Idle, CallRecord
  <2>3. outcomes \in Seq(Result)
    BY DEF Init
  <2>4. changes \in 0..Changes /\ aborts \in 0..Aborts
    BY <1>1 DEF Init
  <2> QED
    BY <1>1, <2>1, <2>2, <2>3, <2>4 DEF Init, TypeOK, Count, CallRecord
<1>3. FailuresAreRecent /\ ProbeIsCounted
  BY ConstantFacts DEF Init, FailuresAreRecent, ProbeIsCounted
<1> QED
  BY <1>2, <1>3 DEF IInv

LEMMA InvStep == IInv /\ [Next]_vars => IInv'
<1> SUFFICES ASSUME IInv, [Next]_vars PROVE IInv'
  OBVIOUS
<1>0. /\ TypeOK /\ upstream \in Conditions[side]
      /\ changes \in 0..Changes /\ aborts \in 0..Aborts /\ Changes \in Nat /\ Aborts \in Nat
  BY BreakerAssumption DEF IInv, TypeOK
<1>1. CASE Timeout
  BY <1>1 DEF Timeout, IInv, TypeOK, FailuresAreRecent, IsFailure, ProbeIsCounted
<1>2. CASE Change
  <2>1. upstream' \in Conditions[side] /\ changes' \in 0..Changes
    BY <1>0, <1>2 DEF Change
  <2> QED
    BY <1>2, <2>1
    DEF Change, IInv, TypeOK, FailuresAreRecent, IsFailure, ProbeIsCounted
<1>3. ASSUME NEW c \in Caller, Call(c) PROVE IInv'
  <2>1. 0 \in 0..maxRetries[side]
    BY <1>0, ConstantFacts
  <2> QED
    BY <1>3, <2>1, BeforeRequestInv DEF Call
<1>4. ASSUME NEW c \in Caller, Returns(c) PROVE IInv'
  BY <1>0, <1>4, ResponseIsResult, ReturnInv DEF Returns
<1>5. ASSUME NEW c \in Caller, Cancelled(c) PROVE IInv'
  <2>1. aborts' \in 0..Aborts
    BY <1>0, <1>5 DEF Cancelled
  <2>2. "cancelled" \in Result
    BY DEF Result
  <2> QED
    BY <1>0, <1>5, <2>1, <2>2, ReturnInv DEF Cancelled
<1>6. ASSUME NEW c \in Caller, Retry(c) PROVE IInv'
  <2>1. calls[c] \in CallRecord /\ Idle \in CallRecord /\ ~ Idle.current
    BY <1>0, CallFacts
  <2>2. CASE side = "gateway"
    <3> DEFINE next == [calls[c] EXCEPT !.at = "sent"]
    <3>1. calls' = [calls EXCEPT ![c] = next]
      BY <1>0, <1>6, <2>2 DEF Retry, TypeOK
    <3>2. next \in CallRecord /\ next.current = calls[c].current /\ next.asked = calls[c].asked
      BY <2>1 DEF CallRecord
    <3> HIDE DEF next
    <3> QED
      BY <1>0, <1>6, <2>2, <3>1, <3>2, CallChangeInv DEF Retry
  <2>3. CASE side # "gateway" /\ Admits(currentState)
    BY <1>6, <2>1, <2>3, BeforeRequestInv DEF Retry, CallRecord
  <2>4. CASE side # "gateway" /\ ~ Admits(currentState)
    BY <1>0, <1>6, <2>1, <2>4, CallChangeInv DEF Retry
  <2> QED
    BY <2>2, <2>3, <2>4
<1>7. ASSUME NEW c \in Caller, GiveUp(c) PROVE IInv'
  <2>1. aborts' \in 0..Aborts
    BY <1>0, <1>7 DEF GiveUp
  <2> QED
    BY <1>0, <1>7, <2>1, CallFacts, CallChangeInv DEF GiveUp
<1>8. CASE UNCHANGED vars
  BY <1>8 DEF vars, IInv, TypeOK, FailuresAreRecent, IsFailure, ProbeIsCounted
<1> QED
  BY <1>1, <1>2, <1>3, <1>4, <1>5, <1>6, <1>7, <1>8 DEF Next

LEMMA Invariance == Spec => []IInv
  BY InvInit, InvStep, PTL DEF Spec

\* The breaker's counts stay in their range whatever the callers do, and a call
\* that counts was admitted in the state the breaker is in (gobreaker's
\* generation, reverse.go:47, producer.go:53).
THEOREM TypeCorrect == Spec => []TypeOK
  BY Invariance, PTL DEF IInv

-----------------------------------------------------------------------------
(* What a step does to the breaker and the calls.                           *)

\* A request is sent through a breaker that is closed, or half-open with no
\* other request of this half-open state.
LEMMA BeforeRequestSendsOne ==
    ASSUME IInv, NEW c \in Caller, NEW attempt \in 0..maxRetries[side],
           beforeRequest(c, attempt)
    PROVE  /\ breaker'.state # "open"
           /\ breaker'.state = "closed" => breaker.state = "closed"
           /\ \A d \in Caller \ {c} :
                /\ calls'[d] = calls[d]
                /\ breaker'.state = "half-open" =>
                     calls'[d].asked # "half-open" \/ ~ calls'[d].current
<1> DEFINE b == currentState
<1>1. /\ b \in Count
      /\ b = breaker \/ (breaker.state = "open" /\ b = NewGeneration("half-open"))
  BY CurrentStateFacts DEF IInv
<1>2. /\ b.state \in {"closed", "half-open"}
      /\ b.state = "half-open" => b.requests = 0
      /\ breaker' = IF b.state = "half-open" THEN [b EXCEPT !.requests = @ + 1] ELSE b
      /\ \A d \in Caller \ {c} : calls'[d] = calls[d]
  BY <1>1 DEF beforeRequest, Admits, MaxRequests, Count, IInv, TypeOK
<1> HIDE DEF b
<1>3. breaker'.state = b.state
  BY <1>1, <1>2 DEF Count
<1>4. b.state = "closed" => breaker.state = "closed"
  BY <1>1, NewGenerationFacts
<1>5. ASSUME b.state = "half-open", NEW d \in Caller, calls[d].asked = "half-open"
      PROVE  ~ calls[d].current
  <2>1. CASE b = breaker
    BY <1>2, <1>5, <2>1 DEF IInv, ProbeIsCounted
  <2>2. CASE breaker.state = "open"
    BY <1>5, <2>2 DEF IInv, TypeOK
  <2> QED
    BY <1>1, <2>1, <2>2
<1> QED
  BY <1>2, <1>3, <1>4, <1>5

\* Every step sends through the breaker, ends an attempt, is a retry of the
\* gateway, or sends nothing and leaves the breaker alone.
LEMMA StepCases ==
    ASSUME IInv, [Next]_vars
    PROVE  \/ \E c \in Caller : \E attempt \in 0..maxRetries[side] :
                beforeRequest(c, attempt)
           \/ \E c \in Caller, r \in Result :
                /\ writeJSON(c, r) \/ RoundTrip(c, r)
                /\ \/ r = Response
                   \/ r = "cancelled" /\ aborts' < aborts
           \/ \E c \in Caller :
                /\ side = "gateway" /\ calls[c].at = "backoff"
                /\ calls' = [calls EXCEPT ![c].at = "sent"]
                /\ UNCHANGED breaker
           \/ /\ UNCHANGED breaker
              /\ \A c \in Caller : calls'[c] = calls[c] \/ calls'[c] = Idle
<1>0. /\ calls \in [Caller -> CallRecord] /\ aborts \in Int /\ Response \in Result
      /\ 0 \in 0..maxRetries[side]
      /\ \A c \in Caller : calls[c].attempt \in 0..maxRetries[side]
  BY ResponseIsResult, ConstantFacts, BreakerAssumption DEF IInv, TypeOK, CallRecord
<1>1. CASE Timeout \/ Change \/ UNCHANGED vars
  BY <1>1 DEF Timeout, Change, vars
<1>2. ASSUME NEW c \in Caller, Call(c)
      PROVE  beforeRequest(c, 0)
  BY <1>2 DEF Call
<1>3. ASSUME NEW c \in Caller, Returns(c)
      PROVE  writeJSON(c, Response) \/ RoundTrip(c, Response)
  BY <1>3 DEF Returns
<1>4. ASSUME NEW c \in Caller, Cancelled(c)
      PROVE  /\ writeJSON(c, "cancelled") \/ RoundTrip(c, "cancelled")
             /\ aborts' < aborts /\ "cancelled" \in Result
  BY <1>0, <1>4 DEF Cancelled, Result
<1>5. ASSUME NEW c \in Caller, Retry(c)
      PROVE  \/ beforeRequest(c, calls[c].attempt)
             \/ /\ side = "gateway" /\ calls[c].at = "backoff"
                /\ calls' = [calls EXCEPT ![c].at = "sent"] /\ UNCHANGED breaker
             \/ calls' = [calls EXCEPT ![c] = Idle] /\ UNCHANGED breaker
  BY <1>5 DEF Retry
<1>6. ASSUME NEW c \in Caller, GiveUp(c)
      PROVE  calls' = [calls EXCEPT ![c] = Idle] /\ UNCHANGED breaker
  BY <1>6 DEF GiveUp
<1>7. ASSUME NEW c \in Caller, calls' = [calls EXCEPT ![c] = Idle]
      PROVE  \A d \in Caller : calls'[d] = calls[d] \/ calls'[d] = Idle
  BY <1>0, <1>7
<1> QED
  BY <1>0, <1>1, <1>2, <1>3, <1>4, <1>5, <1>6, <1>7 DEF Next

\* An attempt that ends sends nothing.
LEMMA EndingSendsNothing ==
    ASSUME TypeOK, NEW c \in Caller, NEW r \in Result, writeJSON(c, r) \/ RoundTrip(c, r),
           NEW d \in Caller, calls[d].at # "sent"
    PROVE  calls'[d].at = calls[d].at
<1>1. calls \in [Caller -> CallRecord] /\ c # d
  BY DEF TypeOK, CallRecord, writeJSON, RoundTrip
<1>2. ASSUME NEW next, Execute(c, r, next) PROVE calls'[d].at = calls[d].at
  BY <1>1, <1>2 DEF Execute, CallRecord
<1>3. RetriesUnasked(c) => calls'[d] = calls[d]
  BY <1>1 DEF RetriesUnasked
<1> QED
  BY <1>2, <1>3, WriteJSONIsExecute, RoundTripCases

\* An ending attempt changes the breaker's state only through the breaker, which
\* the call then leaves.
LEMMA EndingExecutes ==
    ASSUME TypeOK, NEW c \in Caller, NEW r \in Result, writeJSON(c, r) \/ RoundTrip(c, r),
           breaker' # breaker
    PROVE  /\ calls[c].at = "sent"
           /\ \E next \in CallRecord : Execute(c, r, next) /\ (IsSuccessful(r) => next = Idle)
<1>1. CASE writeJSON(c, r)
  BY <1>1, WriteJSONIsExecute
<1>2. CASE RoundTrip(c, r)
  BY <1>2, RoundTripCases, CallFacts DEF RetriesUnasked
<1> QED
  BY <1>1, <1>2

-----------------------------------------------------------------------------
(* The action properties.                                                   *)

\* For any number of callers and retries: while the breaker is open, what
\* reaches the upstream are the gateway's retries of requests it had admitted,
\* and one probe at a time when it is half-open (reverse.go:83, producer.go:100).
THEOREM OpenMeansNoNewRequest == Spec => OpenSendsNothingNew
<1> DEFINE NothingNew ==
        \A c \in Caller :
            calls[c].at # "sent" /\ calls'[c].at = "sent" /\ breaker'.state # "closed" =>
                \/ side = "gateway" /\ calls[c].at = "backoff"
                \/ /\ breaker'.state = "half-open"
                   /\ \A d \in Caller \ {c} :
                        calls'[d].at = "idle" \/ calls'[d].asked # "half-open"
                        \/ ~ calls'[d].current
<1>1. ASSUME IInv, [Next]_vars PROVE NothingNew
  <2> SUFFICES ASSUME NEW c \in Caller, calls[c].at # "sent", calls'[c].at = "sent",
                      breaker'.state # "closed", ~ (side = "gateway" /\ calls[c].at = "backoff")
               PROVE  /\ breaker'.state = "half-open"
                      /\ \A d \in Caller \ {c} :
                            calls'[d].asked # "half-open" \/ ~ calls'[d].current
    OBVIOUS
  <2>0. TypeOK /\ calls \in [Caller -> CallRecord] /\ IInv'
    BY <1>1, InvStep DEF IInv, TypeOK, CallRecord
  <2>1. CASE \E d \in Caller : \E attempt \in 0..maxRetries[side] : beforeRequest(d, attempt)
    <3>1. PICK d \in Caller, attempt \in 0..maxRetries[side] : beforeRequest(d, attempt)
      BY <2>1
    <3>2. d = c
      BY <1>1, <3>1, BeforeRequestSendsOne
    <3>3. breaker'.state \in {"closed", "open", "half-open"}
      BY <2>0 DEF IInv, TypeOK
    <3> QED
      BY <1>1, <3>1, <3>2, <3>3, BeforeRequestSendsOne
  <2>2. CASE \E d \in Caller, r \in Result : writeJSON(d, r) \/ RoundTrip(d, r)
    BY <2>0, <2>2, EndingSendsNothing
  <2>3. CASE \E d \in Caller : /\ side = "gateway" /\ calls[d].at = "backoff"
                               /\ calls' = [calls EXCEPT ![d].at = "sent"]
    BY <2>0, <2>3
  <2>4. CASE \A d \in Caller : calls'[d] = calls[d] \/ calls'[d] = Idle
    BY <2>4 DEF Idle
  <2> QED
    BY <1>1, <2>1, <2>2, <2>3, <2>4, StepCases
<1> QED
  BY <1>1, Invariance, PTL DEF Spec, OpenSendsNothingNew

\* For any threshold: a breaker opens from closed only when its last results
\* are that many failures in a row (reverse.go:50, producer.go:56-64).
THEOREM OpenedByFailures == Spec => OpensOnlyForFailures
<1> DEFINE ForFailures ==
        breaker.state = "closed" /\ breaker'.state = "open" =>
            /\ Len(outcomes') = ReadyToTrip
            /\ \A i \in DOMAIN outcomes' :
                outcomes'[i] = "network" \/ (side = "gateway" /\ outcomes'[i] = "cancelled")
<1>1. ASSUME IInv, [Next]_vars PROVE ForFailures
  <2> SUFFICES ASSUME breaker.state = "closed", breaker'.state = "open"
               PROVE  /\ Len(outcomes') = ReadyToTrip
                      /\ \A i \in DOMAIN outcomes' : IsFailure(outcomes'[i])
    BY DEF IsFailure
  <2>0. TypeOK
    BY <1>1 DEF IInv
  <2>1. PICK c \in Caller, r \in Result : writeJSON(c, r) \/ RoundTrip(c, r)
    BY <1>1, StepCases, BeforeRequestSendsOne
  <2>2. PICK next \in CallRecord : Execute(c, r, next)
    BY <2>0, <2>1, EndingExecutes
  <2>3. afterRequest(c, r).state = "open" /\ breaker' = afterRequest(c, r)
    BY <2>2 DEF Execute
  <2>4. calls[c].current /\ ~ IsSuccessful(r) /\ breaker.failures + 1 >= ReadyToTrip
    <3>1. currentState.state = "closed"
      BY DEF currentState
    <3>2. /\ [breaker EXCEPT !.failures = 0].state = "closed"
          /\ [breaker EXCEPT !.failures = breaker.failures + 1].state = "closed"
      BY <2>0 DEF TypeOK
    <3> QED
      BY <2>0, <2>3, <3>1, <3>2, AfterRequestCases
  <2>5. outcomes' = Recent(r)
    <3>1. calls[c].asked = "closed"
      BY <2>0, <2>4 DEF TypeOK
    <3> QED
      BY <2>2, <2>3, <2>4, <3>1 DEF Execute, Recent
  <2>6. /\ outcomes \in Seq(Result) /\ Len(outcomes) \in Nat
        /\ breaker.failures \in Nat /\ breaker.failures < ReadyToTrip
        /\ breaker.failures <= Len(outcomes) /\ Len(outcomes) <= ReadyToTrip
        /\ \A i \in DOMAIN outcomes :
            Len(outcomes) - breaker.failures < i => IsFailure(outcomes[i])
    BY <1>1, ConstantFacts DEF IInv, TypeOK, FailuresAreRecent
  <2>7. /\ outcomes' \in Seq(Result)
        /\ Len(outcomes') \in Nat /\ Len(outcomes') <= ReadyToTrip
        /\ Len(outcomes') = Len(outcomes) + 1 \/ Len(outcomes') = ReadyToTrip
        /\ outcomes'[Len(outcomes')] = r
        /\ \A k \in Nat : 0 < k /\ k < Len(outcomes') =>
             outcomes'[Len(outcomes') - k] = outcomes[Len(outcomes) - (k - 1)]
    BY <2>0, <2>5, <2>6, RecentFacts
  <2>8. Len(outcomes') = ReadyToTrip
    BY <2>4, <2>6, <2>7, ConstantFacts
  <2>9. ~ IsSuccessful(r) => IsFailure(r)
    BY <2>0 DEF IsSuccessful, IsFailure, Result, TypeOK, Side
  <2>10. ASSUME NEW i \in 1..ReadyToTrip PROVE IsFailure(outcomes'[i])
    <3>1. CASE i = ReadyToTrip
      BY <2>4, <2>7, <2>8, <2>9, <3>1
    <3>2. CASE i < ReadyToTrip
      <4> DEFINE k == ReadyToTrip - i
                 j == Len(outcomes) - (k - 1)
      <4>1. k \in Nat /\ 0 < k /\ k < ReadyToTrip /\ i = ReadyToTrip - k
        BY <3>2, ConstantFacts
      <4>2. outcomes'[i] = outcomes[j]
        BY <2>7, <2>8, <4>1
      <4>3. j \in 1..Len(outcomes) /\ Len(outcomes) - breaker.failures < j
        BY <2>4, <2>6, <4>1, ConstantFacts
      <4>4. DOMAIN outcomes = 1..Len(outcomes)
        BY <2>6
      <4> QED
        BY <2>6, <4>2, <4>3, <4>4
    <3> QED
      BY <3>1, <3>2, ConstantFacts
  <2>11. DOMAIN outcomes' = 1..ReadyToTrip
    BY <2>7, <2>8
  <2> QED
    BY <2>8, <2>10, <2>11
<1> QED
  BY <1>1, Invariance, PTL DEF Spec, OpensOnlyForFailures

\* A breaker that is not closed is closed when the probe of its half-open state
\* was answered, or when it is the producer's and the probe's client went away,
\* be the broker back or not (producer.go:62-65); never by what comes late of an
\* earlier call (README.md:363).
THEOREM ClosedByProbe == Spec => ClosesOnlyByProbe
<1> DEFINE ByProbe ==
        breaker.state # "closed" /\ breaker'.state = "closed" =>
            \E c \in Caller :
                /\ calls[c].at = "sent" /\ calls[c].asked = "half-open" /\ calls'[c].at = "idle"
                /\ upstream \in {"up", "failing"} \/ (side = "producer" /\ aborts' < aborts)
<1>1. ASSUME IInv, [Next]_vars PROVE ByProbe
  <2> SUFFICES ASSUME breaker.state # "closed", breaker'.state = "closed"
               PROVE  \E c \in Caller :
                        /\ calls[c].at = "sent" /\ calls[c].asked = "half-open"
                        /\ calls'[c].at = "idle"
                        /\ \/ upstream \in {"up", "failing"}
                           \/ side = "producer" /\ aborts' < aborts
    OBVIOUS
  <2>0. TypeOK
    BY <1>1 DEF IInv
  <2>1. PICK c \in Caller, r \in Result :
            /\ writeJSON(c, r) \/ RoundTrip(c, r)
            /\ r = Response \/ (r = "cancelled" /\ aborts' < aborts)
    BY <1>1, StepCases, BeforeRequestSendsOne
  <2>2. PICK next \in CallRecord : Execute(c, r, next) /\ (IsSuccessful(r) => next = Idle)
    BY <2>0, <2>1, EndingExecutes
  <2>3. calls[c].at = "sent"
    BY <2>0, <2>1, EndingExecutes
  <2>4. afterRequest(c, r).state = "closed"
    BY <2>2 DEF Execute
  <2>5. calls[c].current /\ IsSuccessful(r) /\ breaker.state = "half-open"
    BY <2>0, <2>4, AfterRequestCases, CurrentStateFacts, NewGenerationFacts
  <2>6. calls[c].asked = "half-open"
    BY <2>0, <2>5 DEF TypeOK
  <2>7. calls'[c].at = "idle"
    BY <2>2, <2>5 DEF Execute, Idle
  <2>8. upstream \in {"up", "failing"} \/ (side = "producer" /\ aborts' < aborts)
    BY <2>1, <2>5 DEF IsSuccessful, Response
  <2> QED
    BY <2>3, <2>6, <2>7, <2>8
<1> QED
  BY <1>1, Invariance, PTL DEF Spec, ClosesOnlyByProbe
=============================================================================
