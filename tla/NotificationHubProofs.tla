------------------------- MODULE NotificationHubProofs -------------------------
(***************************************************************************)
(* Proofs about NotificationHub.tla, for any pages, users, messages and     *)
(* channel sizes, and however many connections, restarts and logins there   *)
(* are.                                                                     *)
(***************************************************************************)
EXTENDS NotificationHub, FiniteSetTheorems, SequenceTheorems, TLAPS

-----------------------------------------------------------------------------
(* The inductive invariant.                                                 *)

\* All a feed has passed, and of the message it is at as many as it counted.
WasHanded(f) ==
    \A at \in DOMAIN Messages[f] : \A to \in DOMAIN Messages[f][at] :
        at < position[f] \/ (at = position[f] /\ to <= step[f]) =>
            [feed |-> f, at |-> at, to |-> to] \in handed

\* A connection that is not open for its page yet has nothing to send; one that
\* is open is registered, and its writer runs.
SocketIsSound(i) ==
    LET s == sockets[i]
    IN  /\ s.page \in DOMAIN pages /\ s.dropped \subseteq DOMAIN s.due
        /\ s.peer = "opening" =>
            /\ s.writer = "none" /\ s.buffer = <<>>
            /\ s.got = <<>> /\ s.due = <<>> /\ s.dropped = {}
        /\ s.peer = "open" => /\ i \in clients /\ s.writer = "running"
                              /\ InOrder(s.got \o s.buffer, s.due, s.dropped)

\* All of a page's connections have ended but the last, and it has a timer only
\* when that one has ended as well, or there is none.  Has nobody been logged in
\* when it looked for the token, then not since it was mounted.
PageIsSound(p) ==
    LET page == pages[p]
        one == IF Ended(page.ws) THEN 1 ELSE 0
    IN  /\ \A i \in DOMAIN sockets :
            sockets[i].page = p /\ sockets[i].peer # "closed" => i = page.ws
        /\ page.ws # 0 => sockets[page.ws].page = p
        /\ page.state = "new" => page.ws = 0 /\ page.timers = 0
        /\ page.state \in {"mounted", "leaving"} => page.timers <= one
        /\ page.state = "mounted" /\ p \notin signedOut => page.timers = one
        /\ page.state = "mounted" /\ LoggedOut(p) => p \in signedOut
        /\ page.state = "left" => Ended(page.ws) /\ page.timers = 0

IInv ==
    /\ TypeOK
    /\ \A f \in Feeds : WasHanded(f)
    /\ \A i \in DOMAIN sockets : SocketIsSound(i)
    /\ \A p \in DOMAIN pages : PageIsSound(p)

-----------------------------------------------------------------------------
(* What is sent, and in which order.                                        *)

LEMMA NothingIsInOrder == InOrder(<<>>, <<>>, {})
<1> DEFINE nth == [k \in {} |-> k]
<1>1. nth \in [{} -> {}] /\ DOMAIN <<>> = {} /\ DOMAIN <<>> \ {} = {}
  OBVIOUS
<1> HIDE DEF nth
<1> QED
  BY <1>1 DEF InOrder

\* One more that is due is one more that is sent.
LEMMA OneMoreSent ==
    ASSUME NEW sent \in Seq(Id), NEW due \in Seq(Id), NEW m \in Id,
           NEW dropped, dropped \subseteq DOMAIN due, InOrder(sent, due, dropped)
    PROVE  InOrder(Append(sent, m), Append(due, m), dropped)
<1> DEFINE n == Len(sent)
           d == Len(due)
           kept == DOMAIN due \ dropped
           sent2 == Append(sent, m)
           due2 == Append(due, m)
<1>1. PICK nth \in [DOMAIN sent -> kept] :
        /\ \A j, k \in DOMAIN sent : j < k => nth[j] < nth[k]
        /\ \A i \in kept : \E k \in DOMAIN sent : nth[k] = i
        /\ \A k \in DOMAIN sent : sent[k] = due[nth[k]]
  BY DEF InOrder
<1>2. n \in Nat /\ d \in Nat /\ DOMAIN sent = 1..n /\ DOMAIN due = 1..d
  OBVIOUS
<1>3. /\ DOMAIN sent2 = 1..(n + 1) /\ DOMAIN due2 = 1..(d + 1)
      /\ \A k \in 1..n : sent2[k] = sent[k]
      /\ \A k \in 1..d : due2[k] = due[k]
      /\ sent2[n + 1] = m /\ due2[d + 1] = m
  OBVIOUS
<1> HIDE DEF sent2, due2
<1>4. kept \subseteq 1..d /\ DOMAIN due2 \ dropped = kept \cup {d + 1}
  BY <1>2, <1>3
<1>5. /\ nth \in [1..n -> kept]
      /\ \A j, k \in 1..n : j < k => nth[j] < nth[k]
      /\ \A i \in kept : \E k \in 1..n : nth[k] = i
      /\ \A k \in 1..n : sent[k] = due[nth[k]] /\ nth[k] \in kept /\ nth[k] \in 1..d
  BY <1>1, <1>2, <1>4
<1> HIDE DEF n, d, kept
<1> DEFINE more == [k \in 1..(n + 1) |-> IF k = n + 1 THEN d + 1 ELSE nth[k]]
<1>6. /\ \A k \in 1..n : k \in 1..(n + 1) /\ more[k] = nth[k]
      /\ n + 1 \in 1..(n + 1) /\ more[n + 1] = d + 1
  BY <1>2
<1>7. \A k \in 1..(n + 1) : k = n + 1 \/ k \in 1..n
  BY <1>2
<1>8. more \in [1..(n + 1) -> kept \cup {d + 1}]
  BY <1>5, <1>7
<1> HIDE DEF more
<1>9. \A j, k \in 1..(n + 1) : j < k => more[j] < more[k]
  <2> SUFFICES ASSUME NEW j \in 1..(n + 1), NEW k \in 1..(n + 1), j < k
               PROVE  more[j] < more[k]
    OBVIOUS
  <2>1. j \in 1..n /\ more[j] \in 1..d
    BY <1>2, <1>5, <1>6
  <2>2. CASE k = n + 1
    BY <1>2, <1>6, <2>1, <2>2
  <2>3. CASE k \in 1..n
    BY <1>5, <1>6, <2>1, <2>3
  <2> QED
    BY <1>7, <2>2, <2>3
<1>10. \A i \in kept \cup {d + 1} : \E k \in 1..(n + 1) : more[k] = i
  BY <1>5, <1>6
<1>11. \A k \in 1..(n + 1) : sent2[k] = due2[more[k]]
  <2> TAKE k \in 1..(n + 1)
  <2>1. CASE k = n + 1
    BY <1>3, <1>6, <2>1
  <2>2. CASE k \in 1..n
    <3>1. nth[k] \in 1..d /\ sent[k] = due[nth[k]]
      BY <1>5, <2>2
    <3>2. sent2[k] = sent[k] /\ due2[nth[k]] = due[nth[k]] /\ more[k] = nth[k]
      BY <1>3, <1>6, <2>2, <3>1
    <3> QED
      BY <3>1, <3>2
  <2> QED
    BY <1>7, <2>1, <2>2
<1>12. \E f \in [DOMAIN sent2 -> DOMAIN due2 \ dropped] :
        /\ \A j, k \in DOMAIN sent2 : j < k => f[j] < f[k]
        /\ \A i \in DOMAIN due2 \ dropped : \E k \in DOMAIN sent2 : f[k] = i
        /\ \A k \in DOMAIN sent2 : sent2[k] = due2[f[k]]
  <2>1. DOMAIN sent2 = 1..(n + 1) /\ DOMAIN due2 \ dropped = kept \cup {d + 1}
    BY <1>3, <1>4
  <2>2. more \in [DOMAIN sent2 -> DOMAIN due2 \ dropped]
    BY <1>8, <2>1
  <2> WITNESS more \in [DOMAIN sent2 -> DOMAIN due2 \ dropped]
  <2> QED
    BY <1>9, <1>10, <1>11, <2>1, Zenon
<1> QED
  BY <1>12 DEF InOrder, sent2, due2

\* One more that is due and does not fit.
LEMMA OneMoreDropped ==
    ASSUME NEW sent \in Seq(Id), NEW due \in Seq(Id), NEW m \in Id,
           NEW dropped, dropped \subseteq DOMAIN due, InOrder(sent, due, dropped)
    PROVE  InOrder(sent, Append(due, m), dropped \cup {Len(due) + 1})
<1>1. PICK nth \in [DOMAIN sent -> DOMAIN due \ dropped] :
        /\ \A j, k \in DOMAIN sent : j < k => nth[j] < nth[k]
        /\ \A i \in DOMAIN due \ dropped : \E k \in DOMAIN sent : nth[k] = i
        /\ \A k \in DOMAIN sent : sent[k] = due[nth[k]]
  BY DEF InOrder
<1>2. /\ DOMAIN Append(due, m) \ (dropped \cup {Len(due) + 1}) = DOMAIN due \ dropped
      /\ \A i \in DOMAIN due : Append(due, m)[i] = due[i]
  OBVIOUS
<1>3. \A k \in DOMAIN sent : sent[k] = Append(due, m)[nth[k]]
  BY <1>1, <1>2
<1> QED
  BY <1>1, <1>2, <1>3 DEF InOrder

LEMMA AppendSent ==
    ASSUME NEW got \in Seq(Id), NEW buffer \in Seq(Id), NEW m \in Id
    PROVE  got \o Append(buffer, m) = Append(got \o buffer, m)
<1>1. /\ Append(buffer, m) = buffer \o <<m>> /\ <<m>> \in Seq(Id)
      /\ got \o buffer \in Seq(Id)
  BY AppendIsConcat, ConcatProperties
<1>2. Append(got \o buffer, m) = (got \o buffer) \o <<m>>
  BY <1>1, AppendIsConcat, Zenon
<1>3. (got \o buffer) \o <<m>> = got \o (buffer \o <<m>>)
  BY <1>1, ConcatAssociative, SMTT(30)
<1> QED
  BY <1>1, <1>2, <1>3, Zenon

\* Writing the head of the buffer changes nothing of what was or will be sent.
LEMMA SentStays ==
    ASSUME NEW got \in Seq(Id), NEW buffer \in Seq(Id), buffer # <<>>
    PROVE  Append(got, Head(buffer)) \o Tail(buffer) = got \o buffer
<1> DEFINE h == Head(buffer)
           t == Tail(buffer)
<1>1. h \in Id /\ t \in Seq(Id) /\ <<h>> \in Seq(Id) /\ h = buffer[1]
  BY HeadTailProperties
<1>2. buffer = <<h>> \o t
  <2>1. Len(buffer) \in Nat /\ 1 \in 1..Len(buffer) /\ Len(buffer) \in 1..Len(buffer)
    BY EmptySeq
  <2>2. SubSeq(buffer, 1, Len(buffer)) = <<buffer[1]>> \o SubSeq(buffer, 2, Len(buffer))
    <3>1. 1 + 1 = 2
      OBVIOUS
    <3>2. SubSeq(buffer, 1, Len(buffer)) = <<buffer[1]>> \o SubSeq(buffer, 1 + 1, Len(buffer))
      BY <2>1, SubSeqRecursiveFirst, Zenon
    <3> QED
      BY <3>1, <3>2, Zenon
  <2>3. SubSeq(buffer, 1, Len(buffer)) = buffer /\ t = SubSeq(buffer, 2, Len(buffer))
    BY SubSeqFull, TailIsSubSeq, Zenon
  <2> QED
    BY <1>1, <2>2, <2>3, Zenon
<1> HIDE DEF h, t
<1>3. Append(got, h) = got \o <<h>>
  BY <1>1, AppendIsConcat, Zenon
<1>4. (got \o <<h>>) \o t = got \o (<<h>> \o t)
  BY <1>1, ConcatAssociative, SMTT(30)
<1>5. Append(got, h) \o t = got \o buffer
  BY <1>2, <1>3, <1>4, Zenon
<1> QED
  BY <1>5 DEF h, t

-----------------------------------------------------------------------------
(* What every action finds, and what most leave alone.                      *)

LEMMA SocketFacts ==
    ASSUME TypeOK, NEW i \in DOMAIN sockets
    PROVE  /\ sockets[i] \in Socket /\ i \in Nat /\ i # 0
           /\ sockets[i].page \in Page
           /\ sockets[i].peer \in {"opening", "open", "closing", "closed"}
           /\ sockets[i].writer \in {"none", "running", "failed", "done"}
           /\ sockets[i].buffer \in Seq(Id) /\ sockets[i].got \in Seq(Id)
           /\ sockets[i].due \in Seq(Id) /\ sockets[i].dropped \subseteq Nat
           /\ Len(sockets[i].buffer) <= sendSize
<1>1. sockets[i] \in Socket /\ i \in Nat /\ i # 0 /\ Len(sockets[i].buffer) <= sendSize
  BY DEF TypeOK
<1> QED
  BY <1>1 DEF Socket

LEMMA FeedFacts ==
    ASSUME TypeOK, NEW f \in Feeds
    PROVE  /\ f \in Feed /\ Messages[f] \in Seq(Seq(User \cup {Everyone}))
           /\ position[f] \in Nat \ {0} /\ committed[f] \in Nat /\ step[f] \in Nat
           /\ committed[f] < position[f]
           /\ position[f] <= Len(Messages[f]) + 1
           /\ AtMessage(f) => /\ position[f] \in DOMAIN Messages[f]
                              /\ Addressees(f) \in Seq(User \cup {Everyone})
                              /\ step[f] <= Len(Addressees(f))
<1>1. f \in Feed
  BY DEF TypeOK
<1>2. Messages[f] \in Seq(Seq(User \cup {Everyone}))
  BY <1>1, HubAssumption
<1>3. position[f] \in Nat /\ committed[f] \in Nat /\ step[f] \in Nat
  BY DEF TypeOK
<1>4. /\ committed[f] < position[f] /\ position[f] <= Len(Messages[f]) + 1
      /\ AtMessage(f) => step[f] <= Len(Addressees(f))
  <2>1. \A g \in Feeds : committed[g] < position[g]
    BY Zenon DEF TypeOK
  <2>2. \A g \in Feeds : position[g] <= Len(Messages[g]) + 1
    BY Zenon DEF TypeOK
  <2>3. \A g \in Feeds : AtMessage(g) => step[g] <= Len(Addressees(g))
    BY Zenon DEF TypeOK
  <2> QED
    BY <2>1, <2>2, <2>3
<1>5. position[f] \in Nat \ {0}
  BY <1>3, <1>4
<1>6. AtMessage(f) => position[f] \in DOMAIN Messages[f]
  BY <1>2, <1>5 DEF AtMessage
<1>7. AtMessage(f) => Addressees(f) \in Seq(User \cup {Everyone})
  BY <1>2, <1>6 DEF Addressees
<1> QED
  BY <1>1, <1>2, <1>3, <1>4, <1>5, <1>6, <1>7

\* The same connections, each with a state of its own.
LEMMA SameSockets ==
    ASSUME NEW s \in Seq(Socket), NEW t, DOMAIN t = DOMAIN s,
           t = [i \in DOMAIN s |-> t[i]], \A i \in DOMAIN s : t[i] \in Socket
    PROVE  t \in Seq(Socket) /\ Len(t) = Len(s)
<1>1. DOMAIN s = 1..Len(s) /\ Len(s) \in Nat
  OBVIOUS
<1>2. t \in [1..Len(s) -> Socket]
  BY <1>1
<1> QED
  BY <1>1, <1>2, SeqDef

LEMMA FeedsStay ==
    ASSUME IInv, UNCHANGED feeds, handed \subseteq handed'
    PROVE  Feeds' = Feeds /\ \A f \in Feeds : WasHanded(f)'
<1>1. position' = position /\ step' = step
  BY DEF feeds
<1> QED
  BY <1>1 DEF IInv, WasHanded, Feeds

\* The last connection of a page, if there is one.
LEMMA WsFacts ==
    ASSUME TypeOK, NEW p \in DOMAIN pages, PageIsSound(p)
    PROVE  /\ pages[p] \in PageRecord /\ pages[p].ws \in Nat /\ pages[p].timers \in Nat
           /\ pages[p].state \in {"new", "mounted", "left", "leaving"}
           /\ pages[p].ws # 0 =>
                /\ pages[p].ws \in DOMAIN sockets
                /\ sockets[pages[p].ws].page = p
<1>1. pages[p] \in PageRecord /\ pages[p].ws <= Len(sockets) /\ sockets \in Seq(Socket)
  BY DEF TypeOK
<1>2. /\ pages[p].ws \in Nat /\ pages[p].timers \in Nat
      /\ pages[p].state \in {"new", "mounted", "left", "leaving"}
  BY <1>1 DEF PageRecord
<1>3. pages[p].ws # 0 => sockets[pages[p].ws].page = p
  BY DEF PageIsSound
<1>4. pages[p].ws # 0 => pages[p].ws \in DOMAIN sockets
  <2> DEFINE w == pages[p].ws
             n == Len(sockets)
  <2>1. DOMAIN sockets = 1..n /\ n \in Nat
    BY <1>1
  <2>3. w \in Nat
    BY <1>2
  <2>4. w <= n
    BY <1>1
  <2> HIDE DEF w, n
  <2>2. w # 0 => w \in DOMAIN sockets
    BY <2>1, <2>3, <2>4
  <2> QED
    BY <2>2 DEF w
<1> QED
  BY <1>1, <1>2, <1>3, <1>4

\* A page's account of its connections only has to do with which of them have ended.
LEMMA PageStays ==
    ASSUME TypeOK, NEW p \in DOMAIN pages, PageIsSound(p),
           pages'[p] = pages[p], DOMAIN sockets' = DOMAIN sockets,
           p \in signedOut => p \in signedOut',
           pages[p].state = "mounted" /\ LoggedOut(p)' => LoggedOut(p) \/ p \in signedOut',
           \A i \in DOMAIN sockets :
                /\ sockets'[i].page = sockets[i].page
                /\ sockets[i].page = p =>
                     (sockets'[i].peer = "closed" <=> sockets[i].peer = "closed")
    PROVE  PageIsSound(p)'
<1>1. pages[p].ws # 0 => pages[p].ws \in DOMAIN sockets /\ sockets[pages[p].ws].page = p
  BY WsFacts
<1>2. Ended(pages[p].ws)' <=> Ended(pages[p].ws)
  BY <1>1 DEF Ended
<1> QED
  BY <1>1, <1>2 DEF PageIsSound

\* And nobody logs in or out.
LEMMA SameSession ==
    ASSUME TypeOK, UNCHANGED session
    PROVE  /\ token' \in [Browser -> User \cup {Nobody}] /\ signedOut' \subseteq Page
           /\ logins' \in Nat /\ signedOut' = signedOut
           /\ \A p : LoggedOut(p)' <=> LoggedOut(p)
BY DEF TypeOK, session, LoggedOut

-----------------------------------------------------------------------------
(* The consumers.                                                           *)

LEMMA TellKeepsIInv ==
    ASSUME IInv, NEW f \in Feeds, Tell(f)
    PROVE  IInv'
<1> USE DEF IInv
<1> DEFINE user == Addressees(f)[step[f] + 1]
           m == [id |-> Now(f), user |-> user]
<1>1. /\ AtMessage(f) /\ step[f] < Len(Addressees(f))
      /\ step' = [step EXCEPT ![f] = step[f] + 1] /\ handed' = handed \cup {Now(f)}
      /\ position' = position /\ committed' = committed /\ clients' = clients
      /\ sockets' = sockets /\ pages' = pages /\ dials' = dials /\ restarts' = restarts
      /\ session' = session /\ Feeds' = Feeds
  BY DEF Tell, browser, Feeds
<1>2. Broadcast(m) \/ BroadcastAll(m)
  BY DEF Tell
<1>3. /\ position[f] \in Nat /\ step[f] \in Nat /\ f \in Feed
      /\ Addressees(f) \in Seq(User \cup {Everyone}) /\ step \in [Feeds -> Nat]
  BY <1>1, FeedFacts DEF TypeOK
<1>4. Now(f) \in Id /\ user \in User \cup {Everyone}
  BY <1>1, <1>3 DEF Now, Id
<1>5. m \in Message
  BY <1>4 DEF Message
<1> HIDE DEF m
<1>6. /\ broadcast' \in Seq(Message) /\ Len(broadcast') <= broadcastSize
      /\ broadcastAll' \in Seq(Message) /\ Len(broadcastAll') <= broadcastAllSize
  <2>1. /\ broadcast \in Seq(Message) /\ Len(broadcast) <= broadcastSize
        /\ broadcastAll \in Seq(Message) /\ Len(broadcastAll) <= broadcastAllSize
        /\ broadcastSize \in Nat /\ broadcastAllSize \in Nat
    BY HubAssumption DEF TypeOK
  <2>2. CASE Broadcast(m)
    <3>1. Len(broadcast) < broadcastSize /\ broadcast' = Append(broadcast, m)
          /\ broadcastAll' = broadcastAll
      BY <2>2 DEF Broadcast, Fits
    <3> QED
      BY <1>5, <2>1, <3>1
  <2>3. CASE BroadcastAll(m)
    <3>1. /\ broadcast' = broadcast
          /\ \/ broadcastAll' = broadcastAll
             \/ /\ Len(broadcastAll) < broadcastAllSize
                /\ broadcastAll' = Append(broadcastAll, m)
      BY <2>3 DEF BroadcastAll, Fits
    <3> QED
      BY <1>5, <2>1, <3>1
  <2> QED
    BY <1>2, <2>2, <2>3
<1>7. /\ step'[f] = step[f] + 1 /\ \A g \in Feeds \ {f} : step'[g] = step[g]
      /\ step' \in [Feeds -> Nat]
  BY <1>1, <1>3
<1>8. TypeOK'
  <2>1. \A g \in Feeds : AtMessage(g)' => step'[g] <= Len(Addressees(g)')
    <3> TAKE g \in Feeds
    <3>1. CASE g = f
      BY <1>1, <1>3, <1>7, <3>1 DEF Addressees
    <3>2. CASE g # f
      BY <1>1, <1>7, <3>2, FeedFacts DEF Addressees, AtMessage
    <3> QED
      BY <3>1, <3>2
  <2>2. \A g \in Feeds : committed'[g] < position'[g] /\ position'[g] <= Len(Messages[g]) + 1
    BY <1>1, FeedFacts
  <2> QED
    BY <1>1, <1>4, <1>6, <1>7, <2>1, <2>2, SameSession DEF TypeOK
<1>9. ASSUME NEW g \in Feeds
      PROVE  WasHanded(g)'
  <2>1. CASE g = f
    <3> SUFFICES ASSUME NEW at \in DOMAIN Messages[f], NEW to \in DOMAIN Messages[f][at],
                        at < position[f] \/ (at = position[f] /\ to <= step[f] + 1)
                 PROVE  [feed |-> f, at |-> at, to |-> to] \in handed'
      BY <1>1, <1>7, <2>1 DEF WasHanded
    <3>1. CASE at < position[f] \/ (at = position[f] /\ to <= step[f])
      BY <1>1, <3>1 DEF WasHanded
    <3>2. CASE at = position[f] /\ to = step[f] + 1
      BY <1>1, <3>2 DEF Now
    <3>3. to \in Nat
      <4>1. Messages[f] \in Seq(Seq(User \cup {Everyone}))
        BY FeedFacts
      <4>2. Messages[f][at] \in Seq(User \cup {Everyone})
        BY <4>1
      <4> QED
        BY <4>2
    <3> QED
      BY <1>3, <3>1, <3>2, <3>3
  <2>2. CASE g # f
    BY <1>1, <1>7, <2>2 DEF WasHanded
  <2> QED
    BY <2>1, <2>2
<1>10. \A i \in DOMAIN sockets : SocketIsSound(i)'
  BY <1>1 DEF SocketIsSound
<1>11. \A p \in DOMAIN pages : PageIsSound(p)'
  BY <1>1, SameSession, PageStays
<1> QED
  BY <1>1, <1>8, <1>9, <1>10, <1>11

LEMMA CommitMessagesKeepsIInv ==
    ASSUME IInv, NEW f \in Feeds, CommitMessages(f)
    PROVE  IInv'
<1> USE DEF IInv
<1>1. /\ AtMessage(f) /\ step[f] = Len(Addressees(f))
      /\ \/ committed' = committed
         \/ committed' = [committed EXCEPT ![f] = position[f]]
      /\ position' = [position EXCEPT ![f] = position[f] + 1]
      /\ step' = [step EXCEPT ![f] = 0]
  BY DEF CommitMessages, AllTold
<1>2. /\ broadcast' = broadcast /\ broadcastAll' = broadcastAll /\ clients' = clients
      /\ sockets' = sockets /\ pages' = pages /\ handed' = handed
      /\ dials' = dials /\ restarts' = restarts /\ session' = session
  BY DEF CommitMessages, hub, browser
<1>3. /\ position \in [Feeds -> Nat] /\ step \in [Feeds -> Nat] /\ committed \in [Feeds -> Nat]
  BY DEF TypeOK
<1>4. /\ Feeds' = Feeds
      /\ position' \in [Feeds -> Nat] /\ step' \in [Feeds -> Nat]
      /\ committed' \in [Feeds -> Nat]
      /\ position'[f] = position[f] + 1 /\ step'[f] = 0
      /\ committed'[f] \in {committed[f], position[f]}
      /\ \A g \in Feeds \ {f} : /\ position'[g] = position[g] /\ step'[g] = step[g]
                                /\ committed'[g] = committed[g]
  <2>1. Feeds' = Feeds
    BY <1>1, <1>3 DEF Feeds
  <2> QED
    BY <1>1, <1>3, <2>1
<1>5. /\ Messages[f] \in Seq(Seq(User \cup {Everyone}))
      /\ position[f] \in DOMAIN Messages[f] /\ position[f] \in Nat
      /\ committed[f] < position[f] /\ committed[f] \in Nat
      /\ Addressees(f) \in Seq(User \cup {Everyone})
  BY <1>1, FeedFacts
<1>6. TypeOK'
  <2>1. \A g \in Feeds : committed'[g] < position'[g] /\ position'[g] <= Len(Messages[g]) + 1
    <3> TAKE g \in Feeds
    <3>1. CASE g = f
      <4>1. position[f] + 1 <= Len(Messages[f]) + 1
        BY <1>5
      <4> QED
        BY <1>4, <1>5, <3>1, <4>1
    <3>2. CASE g # f
      BY <1>4, <3>2, FeedFacts
    <3> QED
      BY <3>1, <3>2
  <2>2. \A g \in Feeds : AtMessage(g)' => step'[g] <= Len(Addressees(g)')
    <3> TAKE g \in Feeds
    <3>1. CASE g = f
      <4> SUFFICES ASSUME AtMessage(f)'
                   PROVE  0 <= Len(Addressees(f)')
        BY <1>4, <3>1
      <4>1. position[f] + 1 \in DOMAIN Messages[f]
        BY <1>4, <1>5 DEF AtMessage
      <4>2. Addressees(f)' \in Seq(User \cup {Everyone})
        BY <1>4, <1>5, <4>1 DEF Addressees
      <4> QED
        BY <4>2
    <3>2. CASE g # f
      BY <1>4, <3>2, FeedFacts DEF AtMessage, Addressees
    <3> QED
      BY <3>1, <3>2
  <2> QED
    BY <1>2, <1>4, <2>1, <2>2, SameSession DEF TypeOK
<1>7. ASSUME NEW g \in Feeds
      PROVE  WasHanded(g)'
  <2>1. CASE g = f
    <3> SUFFICES ASSUME NEW at \in DOMAIN Messages[f], NEW to \in DOMAIN Messages[f][at],
                        at < position[f] + 1 \/ (at = position[f] + 1 /\ to <= 0)
                 PROVE  [feed |-> f, at |-> at, to |-> to] \in handed
      BY <1>2, <1>4, <2>1 DEF WasHanded
    <3>1. Messages[f][at] \in Seq(User \cup {Everyone}) /\ at \in Nat
      BY <1>5
    <3>2. to \in Nat /\ to # 0 /\ to <= Len(Messages[f][at])
      BY <3>1
    <3>3. at < position[f] \/ at = position[f]
      BY <1>5, <3>1, <3>2
    <3>4. at = position[f] => to <= step[f]
      BY <1>1, <3>2 DEF Addressees
    <3> QED
      BY <3>3, <3>4 DEF WasHanded
  <2>2. CASE g # f
    BY <1>2, <1>4, <2>2 DEF WasHanded
  <2> QED
    BY <2>1, <2>2
<1>8. \A i \in DOMAIN sockets : SocketIsSound(i)'
  BY <1>2 DEF SocketIsSound
<1>9. \A p \in DOMAIN pages : PageIsSound(p)'
  BY <1>2, SameSession, PageStays
<1> QED
  BY <1>2, <1>4, <1>6, <1>7, <1>8, <1>9

-----------------------------------------------------------------------------
(* The hub.                                                                 *)

\* What is left to show when connections go on, as some writer or the hub
\* changes them.
LEMMA SocketsChange ==
    ASSUME IInv, UNCHANGED <<feeds, pages, handed, dials, restarts, session>>,
           broadcast' \in Seq(Message), Len(broadcast') <= broadcastSize,
           broadcastAll' \in Seq(Message), Len(broadcastAll') <= broadcastAllSize,
           DOMAIN sockets' = DOMAIN sockets,
           sockets' = [i \in DOMAIN sockets |-> sockets'[i]],
           clients' \subseteq DOMAIN sockets,
           \A i \in DOMAIN sockets :
                /\ sockets'[i] \in Socket /\ Len(sockets'[i].buffer) <= sendSize
                /\ sockets'[i].page = sockets[i].page
                /\ sockets'[i].peer = "closed" <=> sockets[i].peer = "closed"
                /\ SocketIsSound(i)'
    PROVE  IInv'
<1> USE DEF IInv
<1>1. /\ position' = position /\ committed' = committed /\ step' = step
      /\ pages' = pages /\ handed' = handed /\ dials' = dials /\ restarts' = restarts
      /\ session' = session /\ Feeds' = Feeds
  BY DEF feeds, Feeds
<1>2. sockets \in Seq(Socket)
  BY DEF TypeOK
<1>3. sockets' \in Seq(Socket) /\ Len(sockets') = Len(sockets)
  BY <1>2, SameSockets
<1>4. \A f \in Feeds : WasHanded(f)'
  BY <1>1 DEF WasHanded
<1>5. \A p \in DOMAIN pages : PageIsSound(p)'
  BY <1>1, SameSession, PageStays
<1>6. TypeOK'
  <2>1. \A f \in Feeds : /\ committed'[f] < position'[f]
                         /\ position'[f] <= Len(Messages[f]) + 1
                         /\ AtMessage(f)' => step'[f] <= Len(Addressees(f)')
    BY <1>1, FeedFacts DEF AtMessage, Addressees
  <2>2. \A i \in DOMAIN sockets' : Len(sockets'[i].buffer) <= sendSize
    OBVIOUS
  <2>3. \A p \in DOMAIN pages' : pages'[p].ws <= Len(sockets')
    BY <1>1, <1>3 DEF TypeOK
  <2> QED
    BY <1>1, <1>3, <2>1, <2>2, <2>3, SameSession DEF TypeOK
<1> QED
  BY <1>1, <1>4, <1>5, <1>6

\* The same when only one of them changes.
LEMMA OneSocketChanges ==
    ASSUME IInv, UNCHANGED <<feeds, broadcast, broadcastAll, pages, handed, dials, restarts, session>>,
           NEW i \in DOMAIN sockets, NEW t \in Socket,
           sockets' = [sockets EXCEPT ![i] = t], Len(t.buffer) <= sendSize,
           t.page = sockets[i].page, t.peer = "closed" <=> sockets[i].peer = "closed",
           clients' \subseteq DOMAIN sockets,
           \A k \in DOMAIN sockets \ {i} : k \in clients => k \in clients',
           SocketIsSound(i)'
    PROVE  IInv'
<1> USE DEF IInv
<1>1. sockets \in Seq(Socket) /\ \A k \in DOMAIN sockets : sockets[k] \in Socket
  BY DEF TypeOK
<1>2. /\ DOMAIN sockets' = DOMAIN sockets
      /\ sockets' = [k \in DOMAIN sockets |-> sockets'[k]]
      /\ sockets'[i] = t /\ \A k \in DOMAIN sockets \ {i} : sockets'[k] = sockets[k]
  BY <1>1
<1>3. /\ broadcast' \in Seq(Message) /\ Len(broadcast') <= broadcastSize
      /\ broadcastAll' \in Seq(Message) /\ Len(broadcastAll') <= broadcastAllSize
  BY DEF TypeOK
<1>4. ASSUME NEW k \in DOMAIN sockets
      PROVE  SocketIsSound(k)'
  <2>1. CASE k = i
    BY <2>1
  <2>2. CASE k # i
    <3>1. sockets'[k] = sockets[k] /\ (k \in clients => k \in clients') /\ pages' = pages
      BY <1>2, <2>2
    <3> QED
      BY <3>1 DEF SocketIsSound
  <2> QED
    BY <2>1, <2>2
<1>5. \A k \in DOMAIN sockets :
        /\ sockets'[k] \in Socket /\ Len(sockets'[k].buffer) <= sendSize
        /\ sockets'[k].page = sockets[k].page
        /\ sockets'[k].peer = "closed" <=> sockets[k].peer = "closed"
  <2> TAKE k \in DOMAIN sockets
  <2>1. CASE k = i
    BY <1>2, <2>1
  <2>2. CASE k # i
    BY <1>2, <2>2, SocketFacts
  <2> QED
    BY <2>1, <2>2
<1> QED
  BY <1>2, <1>3, <1>4, <1>5, SocketsChange

LEMMA OfferedFacts ==
    ASSUME IInv, NEW i \in DOMAIN sockets, NEW m \in Message
    PROVE  LET s == sockets[i]
               t == Offered(i, m)
           IN  /\ t \in Socket /\ Len(t.buffer) <= sendSize
               /\ t.page = s.page /\ t.peer = s.peer /\ t.writer = s.writer
               /\ t.dropped \subseteq DOMAIN t.due
               /\ s.peer = "opening" => t = s
               /\ s.peer = "open" => InOrder(t.got \o t.buffer, t.due, t.dropped)
<1> DEFINE s == sockets[i]
           id == m.id
           fits == i \in clients /\ Fits(s.buffer, sendSize)
           offered == IF fits THEN Append(s.buffer, id) ELSE s.buffer
           due2 == Append(s.due, id)
           dropped2 == IF i \in clients /\ ~ fits THEN s.dropped \cup {Len(s.due) + 1}
                       ELSE s.dropped
           t == Offered(i, m)
<1>1. id \in Id /\ sendSize \in Nat
  BY HubAssumption DEF Message
<1>2. /\ s \in Socket /\ s.buffer \in Seq(Id) /\ s.got \in Seq(Id) /\ s.due \in Seq(Id)
      /\ s.dropped \subseteq DOMAIN s.due /\ Len(s.buffer) <= sendSize
      /\ s.dropped \subseteq Nat
      /\ s.peer = "opening" => s.writer = "none"
      /\ s.peer = "open" => /\ i \in clients
                            /\ InOrder(s.got \o s.buffer, s.due, s.dropped)
  BY SocketFacts DEF IInv, SocketIsSound
<1>3. /\ t = IF s.writer # "running" THEN s
             ELSE IF s.peer # "open" THEN [s EXCEPT !.buffer = offered]
             ELSE [s EXCEPT !.due = due2, !.buffer = offered, !.dropped = dropped2]
  BY DEF Offered
<1>4. fits => Len(s.buffer) < sendSize
  BY DEF Fits
<1>5. offered \in Seq(Id) /\ Len(offered) <= sendSize
  <2>1. CASE fits
    <3> HIDE DEF fits
    <3> QED
      BY <1>1, <1>2, <1>4, <2>1
  <2>2. CASE ~ fits
    <3> HIDE DEF fits
    <3> QED
      BY <1>2, <2>2
  <2> QED
    BY <2>1, <2>2
<1>6. due2 \in Seq(Id) /\ dropped2 \subseteq Nat /\ dropped2 \subseteq DOMAIN due2
  <2>1. /\ due2 \in Seq(Id) /\ DOMAIN s.due \subseteq DOMAIN due2
        /\ Len(s.due) + 1 \in DOMAIN due2 /\ Len(s.due) + 1 \in Nat
    BY <1>1, <1>2
  <2> HIDE DEF due2, fits
  <2> QED
    BY <1>2, <2>1
<1>7. ASSUME i \in clients, InOrder(s.got \o s.buffer, s.due, s.dropped)
      PROVE  InOrder(s.got \o offered, due2, dropped2)
  <2>1. s.got \o s.buffer \in Seq(Id)
    BY <1>2, ConcatProperties
  <2>2. CASE fits
    <3>1. InOrder(Append(s.got \o s.buffer, id), Append(s.due, id), s.dropped)
      BY <1>1, <1>2, <1>7, <2>1, OneMoreSent
    <3>2. s.got \o Append(s.buffer, id) = Append(s.got \o s.buffer, id)
      BY <1>1, <1>2, AppendSent
    <3> QED
      BY <2>2, <3>1, <3>2, Zenon
  <2>3. CASE ~ fits
    <3>1. InOrder(s.got \o s.buffer, Append(s.due, id), s.dropped \cup {Len(s.due) + 1})
      BY <1>1, <1>2, <1>7, <2>1, OneMoreDropped
    <3> QED
      BY <1>7, <2>3, <3>1, Zenon
  <2> QED
    BY <2>2, <2>3
<1> HIDE DEF offered, due2, dropped2, id, fits, t
<1>8. CASE s.writer # "running"
  BY <1>2, <1>3, <1>8, SocketFacts DEF IInv, SocketIsSound, t
<1>9. CASE s.writer = "running" /\ s.peer # "open"
  <2>1. t = [s EXCEPT !.buffer = offered]
    BY <1>3, <1>9
  <2>2. t \in Socket
    BY <1>2, <1>5, <2>1 DEF Socket
  <2>3. /\ t.page = s.page /\ t.peer = s.peer /\ t.writer = s.writer
        /\ t.due = s.due /\ t.dropped = s.dropped /\ t.buffer = offered
    BY <1>2, <2>1 DEF Socket
  <2> QED
    BY <1>2, <1>5, <1>9, <2>2, <2>3 DEF t
<1>10. CASE s.writer = "running" /\ s.peer = "open"
  <2>1. t = [s EXCEPT !.due = due2, !.buffer = offered, !.dropped = dropped2]
    BY <1>3, <1>10
  <2>2. t \in Socket
    BY <1>2, <1>5, <1>6, <2>1 DEF Socket
  <2>3. /\ t.page = s.page /\ t.peer = s.peer /\ t.writer = s.writer /\ t.got = s.got
        /\ t.due = due2 /\ t.dropped = dropped2 /\ t.buffer = offered
    BY <1>2, <2>1 DEF Socket
  <2>4. InOrder(t.got \o t.buffer, t.due, t.dropped)
    BY <1>2, <1>7, <1>10, <2>3
  <2> QED
    BY <1>5, <1>6, <1>10, <2>2, <2>3, <2>4 DEF t
<1> QED
  BY <1>8, <1>9, <1>10

LEMMA DeliverKeepsIInv ==
    ASSUME IInv, NEW m \in Message, NEW to, Deliver(m, to),
           broadcast' \in Seq(Message), Len(broadcast') <= broadcastSize,
           broadcastAll' \in Seq(Message), Len(broadcastAll') <= broadcastAllSize
    PROVE  IInv'
<1>1. /\ UNCHANGED <<feeds, pages, handed, dials, restarts, session>> /\ clients' = clients
      /\ sockets' = [i \in DOMAIN sockets |-> IF i \in to THEN Offered(i, m) ELSE sockets[i]]
  BY DEF Deliver
<1>2. /\ DOMAIN sockets' = DOMAIN sockets
      /\ sockets' = [i \in DOMAIN sockets |-> sockets'[i]]
      /\ \A i \in DOMAIN sockets : sockets'[i] \in {sockets[i], Offered(i, m)}
  BY <1>1
<1>3. ASSUME NEW i \in DOMAIN sockets
      PROVE  /\ sockets'[i] \in Socket /\ Len(sockets'[i].buffer) <= sendSize
             /\ sockets'[i].page = sockets[i].page
             /\ sockets'[i].peer = "closed" <=> sockets[i].peer = "closed"
             /\ SocketIsSound(i)'
  <2>1. CASE sockets'[i] = sockets[i]
    <3>1. SocketIsSound(i)'
      BY <1>1, <2>1 DEF IInv, SocketIsSound
    <3> QED
      BY <2>1, <3>1, SocketFacts DEF IInv
  <2>2. CASE sockets'[i] = Offered(i, m)
    <3> DEFINE s == sockets[i]
               t == sockets'[i]
    <3>1. /\ t \in Socket /\ Len(t.buffer) <= sendSize
          /\ t.page = s.page /\ t.peer = s.peer /\ t.writer = s.writer
          /\ t.dropped \subseteq DOMAIN t.due
          /\ s.peer = "opening" => t = s
          /\ s.peer = "open" => InOrder(t.got \o t.buffer, t.due, t.dropped)
      BY <2>2, OfferedFacts
    <3>2. SocketIsSound(i)
      BY DEF IInv
    <3>3. pages' = pages /\ clients' = clients
      BY <1>1
    <3>4. SocketIsSound(i)'
      BY <3>1, <3>2, <3>3 DEF SocketIsSound
    <3> QED
      BY <3>1, <3>4
  <2> QED
    BY <1>2, <2>1, <2>2
<1>4. clients' \subseteq DOMAIN sockets
  BY <1>1 DEF IInv, TypeOK
<1> QED
  BY <1>1, <1>2, <1>3, <1>4, SocketsChange

LEMMA TakeBroadcastKeepsIInv ==
    ASSUME IInv, TakeBroadcast
    PROVE  IInv'
<1>1. /\ broadcast \in Seq(Message) /\ Len(broadcast) <= broadcastSize
      /\ broadcastAll \in Seq(Message) /\ Len(broadcastAll) <= broadcastAllSize
  BY DEF IInv, TypeOK
<1>2. /\ broadcast # <<>> /\ broadcast' = Tail(broadcast) /\ broadcastAll' = broadcastAll
      /\ \E to : Deliver(Head(broadcast), to)
  BY DEF TakeBroadcast
<1>3. /\ Head(broadcast) \in Message /\ Tail(broadcast) \in Seq(Message)
      /\ Len(Tail(broadcast)) = Len(broadcast) - 1 /\ broadcastSize \in Nat
  BY <1>1, <1>2, HubAssumption
<1>4. Len(broadcast') <= broadcastSize
  BY <1>1, <1>2, <1>3
<1> QED
  BY <1>1, <1>2, <1>3, <1>4, DeliverKeepsIInv

LEMMA TakeBroadcastAllKeepsIInv ==
    ASSUME IInv, TakeBroadcastAll
    PROVE  IInv'
<1>1. /\ broadcast \in Seq(Message) /\ Len(broadcast) <= broadcastSize
      /\ broadcastAll \in Seq(Message) /\ Len(broadcastAll) <= broadcastAllSize
  BY DEF IInv, TypeOK
<1>2. /\ broadcastAll # <<>> /\ broadcastAll' = Tail(broadcastAll) /\ broadcast' = broadcast
      /\ \E to : Deliver(Head(broadcastAll), to)
  BY DEF TakeBroadcastAll
<1>3. /\ Head(broadcastAll) \in Message /\ Tail(broadcastAll) \in Seq(Message)
      /\ Len(Tail(broadcastAll)) = Len(broadcastAll) - 1 /\ broadcastAllSize \in Nat
  BY <1>1, <1>2, HubAssumption
<1>4. Len(broadcastAll') <= broadcastAllSize
  BY <1>1, <1>2, <1>3
<1> QED
  BY <1>1, <1>2, <1>3, <1>4, DeliverKeepsIInv

LEMMA RegisterKeepsIInv ==
    ASSUME IInv, NEW i \in DOMAIN sockets, Register(i)
    PROVE  IInv'
<1> DEFINE s == sockets[i]
           peer == IF s.peer = "opening" THEN "open" ELSE s.peer
           t == [s EXCEPT !.peer = peer, !.writer = "running"]
<1>1. /\ s.writer = "none" /\ clients' = clients \cup {i}
      /\ UNCHANGED <<feeds, broadcast, broadcastAll, pages, handed, dials, restarts, session>>
      /\ sockets' = [sockets EXCEPT
            ![i].peer = IF s.peer = "opening" THEN "open" ELSE s.peer,
            ![i].writer = "running"]
  BY DEF Register
<1>2. sockets \in Seq(Socket) /\ s \in Socket /\ Len(s.buffer) <= sendSize
  BY SocketFacts DEF IInv, TypeOK
<1>3. sockets' = [sockets EXCEPT ![i] = t]
  BY <1>1, <1>2
<1>4. peer \in {"opening", "open", "closing", "closed"} /\ t \in Socket
  BY <1>2 DEF Socket
<1>5. /\ t.page = s.page /\ t.peer = peer /\ t.writer = "running" /\ t.buffer = s.buffer
      /\ t.got = s.got /\ t.due = s.due /\ t.dropped = s.dropped
  BY <1>2 DEF Socket
<1>6. /\ s.page \in DOMAIN pages /\ s.dropped \subseteq DOMAIN s.due /\ s.peer # "open"
      /\ s.peer = "opening" =>
            s.buffer = <<>> /\ s.got = <<>> /\ s.due = <<>> /\ s.dropped = {}
  BY <1>1 DEF IInv, SocketIsSound
<1> HIDE DEF t
<1>7. s.peer = "opening" => InOrder(t.got \o t.buffer, t.due, t.dropped)
  <2>1. <<>> \o <<>> = <<>>
    OBVIOUS
  <2> QED
    BY <1>5, <1>6, <2>1, NothingIsInOrder
<1>8. sockets'[i] = t /\ i \in clients' /\ pages' = pages
  BY <1>1, <1>2, <1>3
<1>9. peer # "opening" /\ (peer = "open" => s.peer = "opening")
  BY <1>6
<1>10. SocketIsSound(i)'
  BY <1>5, <1>6, <1>7, <1>8, <1>9 DEF SocketIsSound
<1>11. clients' \subseteq DOMAIN sockets
  BY <1>1 DEF IInv, TypeOK
<1>12. t.peer = "closed" <=> s.peer = "closed"
  BY <1>5
<1> QED
  BY <1>1, <1>2, <1>3, <1>4, <1>5, <1>10, <1>11, <1>12, OneSocketChanges

LEMMA UnregisterKeepsIInv ==
    ASSUME IInv, NEW i \in DOMAIN sockets, Unregister(i)
    PROVE  IInv'
<1> DEFINE s == sockets[i]
           t == [s EXCEPT !.writer = "done"]
<1>1. /\ s.writer = "failed" /\ clients' = clients \ {i}
      /\ UNCHANGED <<feeds, broadcast, broadcastAll, pages, handed, dials, restarts, session>>
      /\ sockets' = [sockets EXCEPT ![i].writer = "done"]
  BY DEF Unregister, Removed
<1>2. sockets \in Seq(Socket) /\ s \in Socket /\ Len(s.buffer) <= sendSize
  BY SocketFacts DEF IInv, TypeOK
<1>3. sockets' = [sockets EXCEPT ![i] = t]
  BY <1>1, <1>2
<1>4. t \in Socket
  BY <1>2 DEF Socket
<1>5. /\ t.page = s.page /\ t.peer = s.peer /\ t.buffer = s.buffer
      /\ t.got = s.got /\ t.due = s.due /\ t.dropped = s.dropped
  BY <1>2 DEF Socket
<1>6. /\ s.page \in DOMAIN pages /\ s.dropped \subseteq DOMAIN s.due
      /\ s.peer \notin {"opening", "open"}
  BY <1>1 DEF IInv, SocketIsSound
<1> HIDE DEF t
<1>7. sockets'[i] = t /\ pages' = pages
  BY <1>1, <1>2, <1>3
<1>8. SocketIsSound(i)'
  BY <1>5, <1>6, <1>7 DEF SocketIsSound
<1>9. clients' \subseteq DOMAIN sockets
  BY <1>1 DEF IInv, TypeOK
<1> QED
  BY <1>1, <1>2, <1>3, <1>4, <1>5, <1>8, <1>9, OneSocketChanges

LEMMA WriteKeepsIInv ==
    ASSUME IInv, NEW i \in DOMAIN sockets, Write(i)
    PROVE  IInv'
<1> DEFINE s == sockets[i]
           rest == Tail(s.buffer)
           more == Append(s.got, Head(s.buffer))
<1>1. /\ s.writer = "running" /\ s.buffer # <<>>
      /\ UNCHANGED <<feeds, hub, pages, handed, dials, restarts, session>>
      /\ \/ /\ s.peer = "open"
            /\ sockets' = [sockets EXCEPT ![i] =
                    [[s EXCEPT !.buffer = rest] EXCEPT !.got = more]]
         \/ /\ s.peer # "open"
            /\ \E w \in {"running", "failed"} : sockets' = [sockets EXCEPT ![i] =
                    [[s EXCEPT !.buffer = rest] EXCEPT !.writer = w]]
  <2>1. s \in Socket
    BY SocketFacts DEF IInv
  <2>2. [s EXCEPT !.buffer = rest].got = s.got
    BY <2>1 DEF Socket
  <2> QED
    BY <2>2 DEF Write
<1>2. /\ sockets \in Seq(Socket) /\ s \in Socket /\ Len(s.buffer) <= sendSize
      /\ s.buffer \in Seq(Id) /\ s.got \in Seq(Id) /\ sendSize \in Nat
  BY SocketFacts, HubAssumption DEF IInv, TypeOK
<1>3. rest \in Seq(Id) /\ Len(rest) <= sendSize /\ more \in Seq(Id) /\ more \o rest = s.got \o s.buffer
  <2>1. Head(s.buffer) \in Id /\ rest \in Seq(Id) /\ Len(rest) = Len(s.buffer) - 1
    BY <1>1, <1>2
  <2>2. Len(rest) <= sendSize
    <3>1. Len(s.buffer) \in Nat
      BY <1>2
    <3> QED
      BY <1>2, <2>1, <3>1
  <2>3. more \in Seq(Id)
    BY <1>2, <2>1
  <2>4. more \o rest = s.got \o s.buffer
    BY <1>1, <1>2, SentStays, Zenon
  <2> QED
    BY <2>1, <2>2, <2>3, <2>4
<1>4. /\ UNCHANGED <<feeds, broadcast, broadcastAll, pages, handed, dials, restarts, session>>
      /\ clients' = clients /\ pages' = pages /\ clients \subseteq DOMAIN sockets
  BY <1>1 DEF hub, IInv, TypeOK
<1>5. SocketIsSound(i)
  BY DEF IInv
<1> HIDE DEF rest, more
<1>6. CASE s.peer = "open"
  <2> DEFINE t == [[s EXCEPT !.buffer = rest] EXCEPT !.got = more]
  <2>1. sockets' = [sockets EXCEPT ![i] = t] /\ t \in Socket
    BY <1>1, <1>2, <1>3, <1>6 DEF Socket
  <2>2. /\ t.page = s.page /\ t.peer = s.peer /\ t.writer = s.writer /\ t.buffer = rest
        /\ t.got = more /\ t.due = s.due /\ t.dropped = s.dropped
    BY <1>2 DEF Socket
  <2> HIDE DEF t
  <2>3. sockets'[i] = t
    BY <1>2, <2>1
  <2>4. SocketIsSound(i)'
    BY <1>3, <1>4, <1>5, <1>6, <2>2, <2>3 DEF SocketIsSound
  <2> QED
    BY <1>3, <1>4, <2>1, <2>2, <2>4, OneSocketChanges
<1>7. CASE s.peer # "open"
  <2>1. PICK w \in {"running", "failed"} : sockets' = [sockets EXCEPT ![i] =
            [[s EXCEPT !.buffer = rest] EXCEPT !.writer = w]]
    BY <1>1, <1>7
  <2> DEFINE t == [[s EXCEPT !.buffer = rest] EXCEPT !.writer = w]
  <2>2. sockets' = [sockets EXCEPT ![i] = t] /\ t \in Socket
    BY <1>2, <1>3, <2>1 DEF Socket
  <2>3. /\ t.page = s.page /\ t.peer = s.peer /\ t.buffer = rest
        /\ t.got = s.got /\ t.due = s.due /\ t.dropped = s.dropped
    BY <1>2 DEF Socket
  <2> HIDE DEF t
  <2>4. sockets'[i] = t
    BY <1>2, <2>2
  <2>5. s.peer # "opening"
    BY <1>1, <1>5 DEF SocketIsSound
  <2>6. SocketIsSound(i)'
    BY <1>4, <1>5, <1>7, <2>3, <2>4, <2>5 DEF SocketIsSound
  <2> QED
    BY <1>3, <1>4, <2>2, <2>3, <2>6, OneSocketChanges
<1> QED
  BY <1>6, <1>7

LEMMA ClosingFacts ==
    ASSUME NEW s \in Socket
    PROVE  LET t == Closing(s)
           IN  /\ t \in Socket /\ t.page = s.page /\ t.buffer = s.buffer
               /\ t.writer = s.writer
               /\ t.peer = IF Live(s) THEN "closing" ELSE s.peer
               /\ t.peer = "closed" <=> s.peer = "closed"
               /\ t.peer \in {"closing", "closed"}
               /\ s.dropped \subseteq DOMAIN s.due => t.dropped \subseteq DOMAIN t.due
<1>1. CASE Live(s)
  <2> DEFINE t == [s EXCEPT !.peer = "closing", !.got = <<>>, !.due = <<>>, !.dropped = {}]
  <2>1. Closing(s) = t
    BY <1>1 DEF Closing
  <2>2. <<>> \in Seq(Id) /\ {} \subseteq Nat
    OBVIOUS
  <2>3. t \in Socket
    BY <2>2 DEF Socket
  <2>4. /\ t.page = s.page /\ t.buffer = s.buffer /\ t.writer = s.writer
        /\ t.peer = "closing" /\ t.dropped = {}
    BY DEF Socket
  <2>5. s.peer # "closed"
    BY <1>1 DEF Live
  <2> HIDE DEF t
  <2> QED
    BY <1>1, <2>1, <2>3, <2>4, <2>5
<1>2. CASE ~ Live(s)
  <2>1. s.peer \in {"closing", "closed"}
    BY <1>2 DEF Live, Socket
  <2> QED
    BY <1>2, <2>1 DEF Closing
<1> QED
  BY <1>1, <1>2

LEMMA ClosedIsSound ==
    ASSUME NEW i, SocketIsSound(i), sockets'[i].page = sockets[i].page,
           DOMAIN pages' = DOMAIN pages,
           sockets'[i].peer \in {"closing", "closed"},
           sockets'[i].dropped \subseteq DOMAIN sockets'[i].due
    PROVE  SocketIsSound(i)'
  BY DEF SocketIsSound

LEMMA CloseKeepsIInv ==
    ASSUME IInv, NEW i \in DOMAIN sockets, Close(i)
    PROVE  IInv'
<1> DEFINE s == sockets[i]
           t == Closing(s)
<1>1. /\ UNCHANGED <<feeds, broadcast, broadcastAll, pages, handed, dials, restarts, session>>
      /\ clients' = clients /\ pages' = pages /\ clients \subseteq DOMAIN sockets
      /\ sockets' = [sockets EXCEPT ![i] = t]
  BY DEF Close, hub, IInv, TypeOK
<1>2. sockets \in Seq(Socket) /\ s \in Socket /\ Len(s.buffer) <= sendSize
  BY SocketFacts DEF IInv, TypeOK
<1>3. SocketIsSound(i) /\ s.dropped \subseteq DOMAIN s.due
  BY DEF IInv, SocketIsSound
<1>4. /\ t \in Socket /\ t.page = s.page /\ t.buffer = s.buffer
      /\ t.peer = "closed" <=> s.peer = "closed"
      /\ t.peer \in {"closing", "closed"} /\ t.dropped \subseteq DOMAIN t.due
  BY <1>2, <1>3, ClosingFacts
<1> HIDE DEF t
<1>5. sockets'[i] = t
  BY <1>1, <1>2
<1>6. SocketIsSound(i)'
  BY <1>1, <1>3, <1>4, <1>5, ClosedIsSound
<1> QED
  BY <1>1, <1>2, <1>4, <1>6, OneSocketChanges

LEMMA RestartKeepsIInv ==
    ASSUME IInv, Restart
    PROVE  IInv'
<1> USE DEF IInv
<1> DEFINE after(i) == [Closing(sockets[i]) EXCEPT !.writer = "done", !.buffer = <<>>]
<1>1. /\ restarts > 0 /\ restarts' = restarts - 1
      /\ position' = [f \in Feeds |-> committed[f] + 1] /\ step' = [f \in Feeds |-> 0]
      /\ broadcast' = <<>> /\ broadcastAll' = <<>> /\ clients' = {}
      /\ sockets' = [i \in DOMAIN sockets |-> after(i)]
      /\ committed' = committed /\ pages' = pages /\ handed' = handed /\ dials' = dials
      /\ session' = session
  BY DEF Restart
<1>2. /\ Feeds' = Feeds /\ position' \in [Feeds -> Nat] /\ step' \in [Feeds -> Nat]
      /\ \A f \in Feeds : position'[f] = committed[f] + 1 /\ step'[f] = 0
  <2>1. \A f \in Feeds : committed[f] + 1 \in Nat
    BY FeedFacts
  <2>2. Feeds' = Feeds
    BY <1>1 DEF Feeds
  <2> QED
    BY <1>1, <2>1, <2>2
<1>3. ASSUME NEW i \in DOMAIN sockets
      PROVE  /\ sockets'[i] \in Socket /\ Len(sockets'[i].buffer) <= sendSize
             /\ sockets'[i].page = sockets[i].page
             /\ sockets'[i].peer = "closed" <=> sockets[i].peer = "closed"
             /\ SocketIsSound(i)'
  <2> DEFINE s == sockets[i]
             t == Closing(s)
             u == [t EXCEPT !.writer = "done", !.buffer = <<>>]
  <2>1. s \in Socket /\ s.dropped \subseteq DOMAIN s.due /\ SocketIsSound(i)
    BY SocketFacts DEF SocketIsSound
  <2>2. /\ t \in Socket /\ t.page = s.page /\ t.peer \in {"closing", "closed"}
        /\ t.peer = "closed" <=> s.peer = "closed"
        /\ t.dropped \subseteq DOMAIN t.due
    BY <2>1, ClosingFacts
  <2>3. sockets'[i] = u
    BY <1>1
  <2> HIDE DEF t, s
  <2>4. u \in Socket
    <3>1. <<>> \in Seq(Id)
      OBVIOUS
    <3> QED
      BY <2>2, <3>1 DEF Socket
  <2>5. u.page = t.page /\ u.peer = t.peer /\ u.due = t.due /\ u.dropped = t.dropped
        /\ u.buffer = <<>>
    BY <2>2 DEF Socket
  <2> HIDE DEF u
  <2>6. Len(u.buffer) <= sendSize
    BY <2>5, HubAssumption
  <2>7. DOMAIN pages' = DOMAIN pages
    BY <1>1
  <2>8. SocketIsSound(i)'
    BY <2>1, <2>2, <2>3, <2>5, <2>7, ClosedIsSound DEF s
  <2> QED
    BY <2>2, <2>3, <2>4, <2>5, <2>6, <2>8 DEF s
<1>4. /\ DOMAIN sockets' = DOMAIN sockets
      /\ sockets' = [i \in DOMAIN sockets |-> sockets'[i]]
  BY <1>1
<1>5. sockets' \in Seq(Socket) /\ Len(sockets') = Len(sockets)
  <2>1. sockets \in Seq(Socket)
    BY DEF TypeOK
  <2> QED
    BY <1>3, <1>4, <2>1, SameSockets
<1>6. TypeOK'
  <2>1. \A f \in Feeds : /\ committed'[f] < position'[f]
                         /\ position'[f] <= Len(Messages[f]) + 1
                         /\ AtMessage(f)' => step'[f] <= Len(Addressees(f)')
    <3> TAKE f \in Feeds
    <3>1. /\ Messages[f] \in Seq(Seq(User \cup {Everyone})) /\ committed[f] \in Nat
          /\ committed[f] < position[f] /\ position[f] \in Nat
          /\ position[f] <= Len(Messages[f]) + 1
      BY FeedFacts
    <3>2. committed'[f] < position'[f]
      <4>1. committed'[f] = committed[f] /\ position'[f] = committed[f] + 1
        BY <1>1, <1>2
      <4> QED
        BY <3>1, <4>1
    <3>3. position'[f] <= Len(Messages[f]) + 1
      <4>1. Len(Messages[f]) \in Nat
        BY <3>1
      <4> QED
        BY <1>2, <3>1, <4>1
    <3>4. ASSUME AtMessage(f)'
          PROVE  step'[f] <= Len(Addressees(f)')
      <4>1. committed[f] + 1 \in DOMAIN Messages[f]
        BY <1>2, <3>1, <3>4 DEF AtMessage
      <4>2. Addressees(f)' \in Seq(User \cup {Everyone})
        BY <1>2, <3>1, <4>1 DEF Addressees
      <4> QED
        BY <1>2, <4>2
    <3> QED
      BY <3>2, <3>3, <3>4
  <2>2. \A i \in DOMAIN sockets' : Len(sockets'[i].buffer) <= sendSize
    BY <1>3, <1>4
  <2>3. \A p \in DOMAIN pages' : pages'[p].ws <= Len(sockets')
    BY <1>1, <1>5 DEF TypeOK
  <2>4. /\ broadcast' \in Seq(Message) /\ Len(broadcast') <= broadcastSize
        /\ broadcastAll' \in Seq(Message) /\ Len(broadcastAll') <= broadcastAllSize
    <3>1. <<>> \in Seq(Message) /\ Len(<<>>) = 0
      OBVIOUS
    <3>2. broadcastSize \in Nat /\ broadcastAllSize \in Nat
      BY HubAssumption
    <3>3. 0 <= broadcastSize /\ 0 <= broadcastAllSize
      BY <3>2
    <3> QED
      BY <1>1, <3>1, <3>3, Zenon
  <2>5. restarts' \in Nat /\ clients' \subseteq DOMAIN sockets'
    <3>1. restarts \in Nat
      BY DEF TypeOK
    <3>2. restarts > 0 /\ restarts' = restarts - 1
      BY <1>1
    <3>3. clients' = {}
      BY <1>1
    <3> QED
      BY <3>1, <3>2, <3>3
  <2> QED
    BY <1>1, <1>2, <1>5, <2>1, <2>2, <2>3, <2>4, <2>5, SameSession DEF TypeOK
<1>7. ASSUME NEW f \in Feeds
      PROVE  WasHanded(f)'
  <2> SUFFICES ASSUME NEW at \in DOMAIN Messages[f], NEW to \in DOMAIN Messages[f][at],
                      at < committed[f] + 1 \/ (at = committed[f] + 1 /\ to <= 0)
               PROVE  [feed |-> f, at |-> at, to |-> to] \in handed
    BY <1>1, <1>2 DEF WasHanded
  <2>1. /\ Messages[f] \in Seq(Seq(User \cup {Everyone})) /\ committed[f] \in Nat
        /\ committed[f] < position[f] /\ position[f] \in Nat
    BY FeedFacts
  <2>2. Messages[f][at] \in Seq(User \cup {Everyone}) /\ at \in Nat
    BY <2>1
  <2>3. to \in Nat /\ to # 0
    BY <2>2
  <2>4. at < position[f]
    BY <2>1, <2>2, <2>3
  <2> QED
    BY <2>4 DEF WasHanded
<1>8. ASSUME NEW p \in DOMAIN pages
      PROVE  PageIsSound(p)'
  <2>1. pages'[p] = pages[p] /\ PageIsSound(p)
    BY <1>1
  <2> QED
    BY <1>1, <1>3, <1>4, <2>1, SameSession, PageStays
<1> QED
  BY <1>1, <1>2, <1>3, <1>4, <1>6, <1>7, <1>8

-----------------------------------------------------------------------------
(* The page.                                                                *)

\* What is left to show when a page and its connections change.
LEMMA PageChanges ==
    ASSUME IInv, UNCHANGED <<feeds, hub, handed, dials, restarts, token, logins>>,
           NEW own \in DOMAIN pages, NEW r \in PageRecord, r.ws = pages[own].ws,
           pages' = [pages EXCEPT ![own] = r],
           signedOut \subseteq signedOut', signedOut' \subseteq signedOut \cup {own},
           DOMAIN sockets' = DOMAIN sockets,
           sockets' = [i \in DOMAIN sockets |-> sockets'[i]],
           \A i \in DOMAIN sockets :
                /\ sockets'[i] \in Socket /\ sockets'[i].page = sockets[i].page
                /\ sockets'[i].buffer = sockets[i].buffer
                /\ sockets[i].page # own => sockets'[i] = sockets[i]
                /\ sockets[i].page = own => SocketIsSound(i)',
           PageIsSound(own)'
    PROVE  IInv'
<1> USE DEF IInv
<1>1. /\ position' = position /\ committed' = committed /\ step' = step
      /\ broadcast' = broadcast /\ broadcastAll' = broadcastAll /\ clients' = clients
      /\ handed' = handed /\ dials' = dials /\ restarts' = restarts /\ Feeds' = Feeds
      /\ token' = token /\ logins' = logins
  BY DEF feeds, hub, Feeds
<1>2. /\ sockets \in Seq(Socket) /\ pages \in [DOMAIN pages -> PageRecord]
      /\ own \in Page
  BY DEF TypeOK
<1>3. sockets' \in Seq(Socket) /\ Len(sockets') = Len(sockets)
  BY <1>2, SameSockets
<1>4. /\ DOMAIN pages' = DOMAIN pages /\ pages'[own] = r
      /\ \A p \in DOMAIN pages \ {own} : pages'[p] = pages[p]
      /\ pages' \in [DOMAIN pages' -> PageRecord]
  BY <1>2
<1>5. ASSUME NEW k \in DOMAIN sockets
      PROVE  SocketIsSound(k)' /\ Len(sockets'[k].buffer) <= sendSize
  <2>1. CASE sockets[k].page = own
    BY <2>1, SocketFacts
  <2>2. CASE sockets[k].page # own
    BY <1>1, <1>4, <2>2, SocketFacts DEF SocketIsSound
  <2> QED
    BY <2>1, <2>2
<1>6. ASSUME NEW p \in DOMAIN pages
      PROVE  PageIsSound(p)' /\ pages'[p].ws <= Len(sockets')
  <2>1. pages[p].ws <= Len(sockets)
    BY DEF TypeOK
  <2>2. CASE p = own
    BY <1>3, <1>4, <2>1, <2>2
  <2>3. CASE p # own
    <3>1. pages'[p] = pages[p] /\ PageIsSound(p)
      BY <1>4, <2>3
    <3>2. ASSUME NEW k \in DOMAIN sockets
          PROVE  /\ sockets'[k].page = sockets[k].page
                 /\ sockets[k].page = p =>
                        (sockets'[k].peer = "closed" <=> sockets[k].peer = "closed")
      BY <2>3
    <3>3. LoggedOut(p)' <=> LoggedOut(p)
      BY <1>1 DEF LoggedOut
    <3> QED
      BY <1>3, <2>1, <3>1, <3>2, <3>3, PageStays
  <2> QED
    BY <2>2, <2>3
<1>7. \A f \in Feeds : WasHanded(f)'
  BY <1>1 DEF WasHanded
<1>8. \A f \in Feeds : /\ committed'[f] < position'[f]
                       /\ position'[f] <= Len(Messages[f]) + 1
                       /\ AtMessage(f)' => step'[f] <= Len(Addressees(f)')
  BY <1>1, FeedFacts DEF AtMessage, Addressees
<1>9. /\ token' \in [Browser -> User \cup {Nobody}] /\ signedOut' \subseteq Page
      /\ logins' \in Nat
  BY <1>1, <1>2 DEF TypeOK
<1>10. TypeOK'
  BY <1>1, <1>3, <1>4, <1>5, <1>6, <1>8, <1>9 DEF TypeOK
<1> QED
  BY <1>1, <1>4, <1>5, <1>6, <1>7, <1>10

LEMMA NoneOrOne == 0 <= 0 /\ 0 <= 1 /\ 1 <= 1
  OBVIOUS

\* A page whose connections have ended but for the last one.
LEMMA PageBecomesSound ==
    ASSUME NEW p, NEW w, NEW one,
           one = IF w = 0 \/ sockets'[w].peer = "closed" THEN 1 ELSE 0,
           pages'[p].ws = w, w # 0 => sockets'[w].page = p,
           \A k \in DOMAIN sockets' :
                sockets'[k].page = p /\ sockets'[k].peer # "closed" => k = w,
           pages'[p].state = "mounted" /\ LoggedOut(p)' => p \in signedOut',
           \/ pages'[p].state \in {"mounted", "leaving"} /\ pages'[p].timers = one
           \/ /\ pages'[p].state \in {"mounted", "leaving"} /\ pages'[p].timers = 0
              /\ pages'[p].state = "mounted" => p \in signedOut'
           \/ pages'[p].state = "left" /\ pages'[p].timers = 0 /\ one = 1
    PROVE  PageIsSound(p)'
<1> DEFINE timers == pages'[p].timers
           state == pages'[p].state
<1>0. one \in {0, 1}
  OBVIOUS
<1>1. state # "new"
  OBVIOUS
<1>2. state = "mounted" /\ p \notin signedOut' => timers = one
  OBVIOUS
<1>3. state \in {"mounted", "leaving"} => timers <= one
  <2> HIDE DEF timers
  <2>1. state \in {"mounted", "leaving"} => timers = one \/ timers = 0
    BY DEF timers
  <2> QED
    BY <1>0, <2>1, NoneOrOne, Zenon
<1>4. state = "left" => one = 1 /\ timers = 0
  OBVIOUS
<1>5. one = IF Ended(pages[p].ws)' THEN 1 ELSE 0
  BY DEF Ended
<1>6. one = 1 => Ended(pages[p].ws)'
  BY <1>5
<1> QED
  BY <1>1, <1>2, <1>3, <1>4, <1>5, <1>6, Zenon DEF PageIsSound

LEMMA OnCloseKeepsIInv ==
    ASSUME IInv, NEW i \in DOMAIN sockets, OnClose(i)
    PROVE  IInv'
<1>0. PICK own, page : own = sockets[i].page /\ page = pages[own]
  OBVIOUS
<1> DEFINE s == sockets[i]
           t == [s EXCEPT !.peer = "closed"]
           r == [page EXCEPT !.timers = page.timers + 1]
<1>1. sockets \in Seq(Socket) /\ s \in Socket /\ SocketIsSound(i) /\ own \in DOMAIN pages
  BY <1>0, SocketFacts DEF IInv, TypeOK, SocketIsSound
<1>2. PageIsSound(own) /\ TypeOK /\ pages \in [DOMAIN pages -> PageRecord]
  BY <1>1 DEF IInv, TypeOK
<1>3. /\ s.peer = "closing"
      /\ UNCHANGED <<feeds, hub, handed, dials, restarts, session>> /\ clients' = clients
      /\ sockets' = [sockets EXCEPT ![i] = t] /\ pages' = [pages EXCEPT ![own] = r]
  BY <1>0, <1>1, <1>2 DEF OnClose, Scheduled, hub
<1>4. /\ page \in PageRecord /\ page.ws \in Nat /\ page.timers \in Nat
      /\ page.state \in {"new", "mounted", "left", "leaving"}
  BY <1>0, <1>1, <1>2, WsFacts
<1>5. /\ t \in Socket /\ t.page = s.page /\ t.buffer = s.buffer /\ t.peer = "closed"
      /\ t.due = s.due /\ t.dropped = s.dropped
  BY <1>1 DEF Socket
<1>6. r \in PageRecord /\ r.ws = page.ws /\ r.state = page.state /\ r.timers = page.timers + 1
  <2> DEFINE n == page.timers + 1
  <2>0. page.timers \in Nat
    BY <1>4
  <2>1. n \in Nat
    BY <2>0
  <2> HIDE DEF n
  <2>2. [page EXCEPT !.timers = n] \in PageRecord
    BY <1>4, <2>1 DEF PageRecord
  <2>3. [page EXCEPT !.timers = n].timers = n
    BY <1>4 DEF PageRecord
  <2> QED
    BY <1>4, <2>2, <2>3 DEF n, PageRecord
<1> HIDE DEF t, r
<1>7. /\ sockets'[i] = t /\ \A k \in DOMAIN sockets \ {i} : sockets'[k] = sockets[k]
      /\ DOMAIN sockets' = DOMAIN sockets /\ DOMAIN pages' = DOMAIN pages
      /\ sockets' = [k \in DOMAIN sockets |-> sockets'[k]]
      /\ pages'[own] = r
  BY <1>1, <1>2, <1>3
<1>8. SocketIsSound(i)'
  <2>1. s.dropped \subseteq DOMAIN s.due
    BY <1>1 DEF SocketIsSound
  <2> QED
    BY <1>1, <1>5, <1>7, <2>1, ClosedIsSound
<1>9. /\ token' = token /\ logins' = logins /\ signedOut' = signedOut
      /\ LoggedOut(own)' <=> LoggedOut(own)
  BY <1>3 DEF session, LoggedOut
<1>10. PageIsSound(own)'
  <2>1. i = page.ws /\ i # 0 /\ ~ Ended(page.ws)
    <3>1. i = page.ws
      BY <1>0, <1>2, <1>3 DEF PageIsSound
    <3>2. i # 0
      BY <1>1
    <3> QED
      BY <1>3, <3>1, <3>2 DEF Ended
  <2>2. page.state \in {"mounted", "leaving"}
    BY <1>0, <1>2, <1>4, <2>1 DEF PageIsSound
  <2>3. page.timers = 0
    <3>1. page.timers <= 0
      BY <1>0, <1>2, <2>1, <2>2 DEF PageIsSound
    <3>2. page.timers \in Nat
      BY <1>4
    <3> QED
      BY <3>1, <3>2
  <2>4. ASSUME NEW k \in DOMAIN sockets', sockets'[k].page = own, sockets'[k].peer # "closed"
        PROVE  k = i
    BY <1>0, <1>2, <1>5, <1>7, <2>1, <2>4 DEF PageIsSound
  <2>5. pages'[own].ws = i /\ pages'[own].timers = 1 /\ pages'[own].state = page.state
    <3>1. page.timers + 1 = 1
      BY <2>3
    <3> QED
      BY <1>6, <1>7, <2>1, <3>1, Zenon
  <2>6. sockets'[i].page = own /\ sockets'[i].peer = "closed"
    BY <1>0, <1>5, <1>7
  <2>7. pages'[own].state = "mounted" /\ LoggedOut(own)' => own \in signedOut'
    BY <1>0, <1>2, <1>9, <2>5 DEF PageIsSound
  <2> QED
    BY <2>2, <2>4, <2>5, <2>6, <2>7, PageBecomesSound
<1>11. ASSUME NEW k \in DOMAIN sockets
       PROVE  /\ sockets'[k] \in Socket /\ sockets'[k].page = sockets[k].page
              /\ sockets'[k].buffer = sockets[k].buffer
              /\ sockets[k].page # own => sockets'[k] = sockets[k]
              /\ sockets[k].page = own => SocketIsSound(k)'
  <2>1. CASE k = i
    BY <1>0, <1>5, <1>7, <1>8, <2>1
  <2>2. CASE k # i
    <3>1. sockets'[k] = sockets[k] /\ SocketIsSound(k) /\ clients' = clients
      BY <1>3, <1>7, <2>2 DEF IInv
    <3>2. SocketIsSound(k)'
      BY <1>7, <3>1 DEF SocketIsSound
    <3> QED
      BY <1>2, <3>1, <3>2, SocketFacts
  <2> QED
    BY <2>1, <2>2
<1>12. UNCHANGED <<feeds, hub, handed, dials, restarts, token, logins>>
  BY <1>3, <1>9
<1> QED
  BY <1>0, <1>1, <1>3, <1>6, <1>7, <1>9, <1>10, <1>11, <1>12, PageChanges

\* A page that is taken down: its connections are closing or closed.
LEMMA GoesKeepsIInv ==
    ASSUME IInv, UNCHANGED <<feeds, hub, handed, dials, restarts, session>>,
           NEW p \in DOMAIN pages, NEW state \in {"leaving", "left"},
           pages' = [pages EXCEPT ![p] = [pages[p] EXCEPT !.timers = 0, !.state = state]],
           DOMAIN sockets' = DOMAIN sockets,
           sockets' = [i \in DOMAIN sockets |-> sockets'[i]],
           \A i \in DOMAIN sockets :
                \/ sockets'[i] = sockets[i]
                \/ /\ sockets[i].page = p
                   /\ sockets'[i] \in {Closing(sockets[i]),
                                       [Closing(sockets[i]) EXCEPT !.peer = "closed"]},
           state = "left" =>
                \A i \in DOMAIN sockets : sockets[i].page = p => sockets'[i].peer = "closed"
    PROVE  IInv'
<1>0. PICK page, w : page = pages[p] /\ w = page.ws
  OBVIOUS
<1> DEFINE r == [page EXCEPT !.timers = 0, !.state = state]
<1>1. PageIsSound(p) /\ TypeOK /\ pages \in [DOMAIN pages -> PageRecord]
  BY DEF IInv, TypeOK
<1>2. page \in PageRecord /\ (w # 0 => w \in DOMAIN sockets /\ sockets[w].page = p)
  BY <1>0, <1>1, WsFacts
<1>3. pages' = [pages EXCEPT ![p] = r]
  BY <1>0
<1>4. r \in PageRecord /\ r.ws = w /\ r.state = state /\ r.timers = 0
  BY <1>0, <1>2 DEF PageRecord
<1> HIDE DEF r
<1>5. pages'[p] = r /\ DOMAIN pages' = DOMAIN pages
  BY <1>1, <1>3
<1>6. ASSUME NEW i \in DOMAIN sockets
      PROVE  /\ sockets'[i] \in Socket /\ sockets'[i].page = sockets[i].page
             /\ sockets'[i].buffer = sockets[i].buffer
             /\ sockets[i].peer = "closed" => sockets'[i].peer = "closed"
             /\ sockets[i].page # p => sockets'[i] = sockets[i]
             /\ SocketIsSound(i)'
  <2>1. /\ SocketIsSound(i) /\ sockets[i] \in Socket /\ clients' = clients
        /\ sockets[i].dropped \subseteq DOMAIN sockets[i].due
    BY SocketFacts DEF IInv, SocketIsSound, hub
  <2>2. CASE sockets'[i] = sockets[i]
    <3>1. SocketIsSound(i)'
      BY <1>5, <2>1, <2>2 DEF SocketIsSound
    <3> QED
      BY <2>1, <2>2, <3>1
  <2>3. CASE sockets'[i] \in {Closing(sockets[i]), [Closing(sockets[i]) EXCEPT !.peer = "closed"]}
    <3> DEFINE t == Closing(sockets[i])
               u == sockets'[i]
    <3>1. /\ t \in Socket /\ t.page = sockets[i].page /\ t.buffer = sockets[i].buffer
          /\ t.peer = "closed" <=> sockets[i].peer = "closed"
          /\ t.peer \in {"closing", "closed"} /\ t.dropped \subseteq DOMAIN t.due
      BY <2>1, ClosingFacts
    <3>2. u \in {t, [t EXCEPT !.peer = "closed"]}
      BY <2>3
    <3> HIDE DEF t
    <3>3. /\ u \in Socket /\ u.page = t.page /\ u.buffer = t.buffer
          /\ u.due = t.due /\ u.dropped = t.dropped /\ u.peer \in {t.peer, "closed"}
      BY <3>1, <3>2 DEF Socket
    <3>4. SocketIsSound(i)'
      BY <1>5, <2>1, <3>1, <3>3, ClosedIsSound
    <3>5. sockets[i].page # p => sockets'[i] = sockets[i]
      OBVIOUS
    <3> QED
      BY <3>1, <3>3, <3>4, <3>5
  <2> QED
    BY <2>2, <2>3
<1>7. /\ token' = token /\ logins' = logins /\ signedOut' = signedOut
  BY DEF session
<1>8. PageIsSound(p)'
  <2>1. ASSUME NEW k \in DOMAIN sockets', sockets'[k].page = p, sockets'[k].peer # "closed"
        PROVE  k = w
    <3>1. sockets[k].page = p /\ sockets[k].peer # "closed"
      BY <1>6, <2>1
    <3> QED
      BY <1>0, <1>1, <3>1 DEF PageIsSound
  <2>2. pages'[p].ws = w /\ pages'[p].timers = 0 /\ pages'[p].state = state
    BY <1>4, <1>5
  <2>3. w # 0 => sockets'[w].page = p
    BY <1>2, <1>6
  <2>4. PICK one : one = IF w = 0 \/ sockets'[w].peer = "closed" THEN 1 ELSE 0
    OBVIOUS
  <2>5. state = "left" => one = 1
    BY <1>2, <2>4
  <2> QED
    BY <2>1, <2>2, <2>3, <2>4, <2>5, PageBecomesSound
<1>9. UNCHANGED <<feeds, hub, handed, dials, restarts, token, logins>>
  BY <1>7
<1>10. r.ws = pages[p].ws /\ signedOut \subseteq signedOut' /\ signedOut' \subseteq signedOut \cup {p}
  BY <1>0, <1>4, <1>7
<1>11. /\ IInv /\ DOMAIN sockets' = DOMAIN sockets
       /\ sockets' = [i \in DOMAIN sockets |-> sockets'[i]]
  OBVIOUS
<1> QED
  BY ONLY <1>3, <1>4, <1>6, <1>8, <1>9, <1>10, <1>11, p \in DOMAIN pages, PageChanges

LEMMA UnmountKeepsIInv ==
    ASSUME IInv, NEW p \in DOMAIN pages, Unmount(p)
    PROVE  IInv'
<1>0. PICK w : w = pages[p].ws
  OBVIOUS
<1>1. PICK state : state = IF Ended(w) THEN "left" ELSE "leaving"
  OBVIOUS
<1>2. /\ UNCHANGED <<feeds, hub, handed, dials, restarts, session>>
      /\ pages' = [pages EXCEPT ![p] = [pages[p] EXCEPT !.timers = 0, !.state = state]]
      /\ sockets' = [i \in DOMAIN sockets |->
                        IF i = w THEN Closing(sockets[i]) ELSE sockets[i]]
  BY <1>0, <1>1 DEF Unmount
<1>3. PageIsSound(p) /\ (w # 0 => w \in DOMAIN sockets /\ sockets[w].page = p)
  BY <1>0, WsFacts DEF IInv
<1>4. \A i \in DOMAIN sockets : i # 0
  BY SocketFacts DEF IInv
<1>5. \A i \in DOMAIN sockets :
        \/ sockets'[i] = sockets[i]
        \/ sockets[i].page = p /\ sockets'[i] = Closing(sockets[i])
  BY <1>2, <1>3, <1>4
<1>6. ASSUME state = "left", NEW i \in DOMAIN sockets, sockets[i].page = p
      PROVE  sockets'[i].peer = "closed"
  <2>1. sockets[i].peer = "closed"
    <3>1. Ended(w)
      BY <1>1, <1>6
    <3>2. sockets[i].peer # "closed" => i = w
      BY <1>0, <1>3, <1>6 DEF PageIsSound
    <3> QED
      BY <1>4, <3>1, <3>2 DEF Ended
  <2>2. Closing(sockets[i]) = sockets[i]
    BY <2>1 DEF Closing, Live
  <2> QED
    BY <1>5, <2>1, <2>2
<1>7. DOMAIN sockets' = DOMAIN sockets /\ sockets' = [i \in DOMAIN sockets |-> sockets'[i]]
  BY <1>2
<1>8. state \in {"leaving", "left"}
  BY <1>1
<1> QED
  BY <1>2, <1>5, <1>6, <1>7, <1>8, GoesKeepsIInv

LEMMA LeaveKeepsIInv ==
    ASSUME IInv, NEW p \in DOMAIN pages, Leave(p)
    PROVE  IInv'
<1>1. /\ UNCHANGED <<feeds, hub, handed, dials, restarts, session>>
      /\ pages' = [pages EXCEPT ![p] = [pages[p] EXCEPT !.timers = 0, !.state = "left"]]
      /\ sockets' = [i \in DOMAIN sockets |->
            IF sockets[i].page = p THEN [Closing(sockets[i]) EXCEPT !.peer = "closed"]
            ELSE sockets[i]]
  BY DEF Leave
<1>2. DOMAIN sockets' = DOMAIN sockets /\ sockets' = [i \in DOMAIN sockets |-> sockets'[i]]
  BY <1>1
<1>3. \A i \in DOMAIN sockets :
        \/ sockets'[i] = sockets[i]
        \/ /\ sockets[i].page = p
           /\ sockets'[i] = [Closing(sockets[i]) EXCEPT !.peer = "closed"]
  BY <1>1
<1>4. ASSUME NEW i \in DOMAIN sockets, sockets[i].page = p
      PROVE  sockets'[i].peer = "closed"
  <2>1. Closing(sockets[i]) \in Socket
    BY ClosingFacts, SocketFacts DEF IInv
  <2>2. sockets'[i] = [Closing(sockets[i]) EXCEPT !.peer = "closed"]
    BY <1>1, <1>4
  <2> QED
    BY <2>1, <2>2 DEF Socket
<1> QED
  BY <1>1, <1>2, <1>3, <1>4, GoesKeepsIInv

\* A page whose connections have ended makes none, for want of a token.
LEMMA StaysSilent ==
    ASSUME IInv, UNCHANGED <<feeds, hub, handed, dials, restarts, token, logins, sockets>>,
           NEW p \in DOMAIN pages, NEW was \in PageRecord,
           was.state \in {"mounted", "leaving"}, was.timers = 0, was.ws = pages[p].ws,
           pages' = [pages EXCEPT ![p] = was],
           signedOut \subseteq signedOut', signedOut' \subseteq signedOut \cup {p},
           was.state = "mounted" => p \in signedOut'
    PROVE  IInv'
<1>0. PICK w : w = pages[p].ws
  OBVIOUS
<1>1. PageIsSound(p) /\ TypeOK /\ pages \in [DOMAIN pages -> PageRecord]
  BY DEF IInv, TypeOK
<1>2. w # 0 => w \in DOMAIN sockets /\ sockets[w].page = p
  BY <1>0, <1>1, WsFacts
<1>3. pages'[p] = was /\ DOMAIN pages' = DOMAIN pages /\ clients' = clients
  BY <1>1 DEF hub
<1>4. PageIsSound(p)'
  <2>1. ASSUME NEW k \in DOMAIN sockets', sockets'[k].page = p, sockets'[k].peer # "closed"
        PROVE  k = w
    BY <1>0, <1>1, <2>1 DEF PageIsSound
  <2>2. PICK one : one = IF w = 0 \/ sockets'[w].peer = "closed" THEN 1 ELSE 0
    OBVIOUS
  <2>3. pages'[p].ws = w /\ pages'[p].timers = 0 /\ pages'[p].state = was.state
    BY <1>0, <1>3
  <2>4. w # 0 => sockets'[w].page = p
    BY <1>2
  <2> QED
    BY <2>1, <2>2, <2>3, <2>4, PageBecomesSound
<1>5. ASSUME NEW i \in DOMAIN sockets
      PROVE  /\ sockets'[i] \in Socket /\ sockets'[i].page = sockets[i].page
             /\ sockets'[i].buffer = sockets[i].buffer /\ sockets'[i] = sockets[i]
             /\ SocketIsSound(i)'
  <2>1. SocketIsSound(i)'
    BY <1>3 DEF IInv, SocketIsSound
  <2> QED
    BY <1>1, <2>1, SocketFacts
<1>6. DOMAIN sockets' = DOMAIN sockets /\ sockets' = [i \in DOMAIN sockets |-> sockets'[i]]
  BY <1>1 DEF TypeOK
<1> QED
  BY <1>4, <1>5, <1>6, PageChanges

\* A page whose connections have ended makes one more.
LEMMA ConnectedKeepsIInv ==
    ASSUME IInv, UNCHANGED <<feeds, hub, handed, restarts, session>>,
           NEW p \in DOMAIN pages, ~ LoggedOut(p), NEW was \in PageRecord,
           was.state \in {"mounted", "leaving"}, was.timers = 0, was.ws = pages[p].ws,
           \A i \in DOMAIN sockets : sockets[i].page = p => sockets[i].peer = "closed",
           was.ws # 0 => sockets[was.ws].peer # "open", Connected(p, was)
    PROVE  IInv'
<1> USE DEF IInv
<1>0. PICK n, t :
        /\ n = Len(sockets) + 1
        /\ t = [page |-> p, user |-> token[BrowserOf[p]], peer |-> "opening",
                writer |-> "none", buffer |-> <<>>, got |-> <<>>, due |-> <<>>,
                dropped |-> {}]
  OBVIOUS
<1> DEFINE r == [was EXCEPT !.ws = n]
<1>1. /\ dials > 0 /\ dials' = dials - 1 /\ sockets' = Append(sockets, t)
      /\ pages' = [pages EXCEPT ![p] = r]
  BY <1>0 DEF Connected
<1>2. /\ position' = position /\ committed' = committed /\ step' = step
      /\ broadcast' = broadcast /\ broadcastAll' = broadcastAll /\ clients' = clients
      /\ handed' = handed /\ restarts' = restarts /\ Feeds' = Feeds
  BY DEF feeds, hub, Feeds
<1>3. /\ sockets \in Seq(Socket) /\ pages \in [DOMAIN pages -> PageRecord]
      /\ p \in Page /\ dials \in Nat /\ clients \subseteq DOMAIN sockets
  BY DEF TypeOK
<1>4. t \in Socket
  <2>1. <<>> \in Seq(Id)
    OBVIOUS
  <2>2. token[BrowserOf[p]] \in User
    <3>1. BrowserOf[p] \in Browser /\ token \in [Browser -> User \cup {Nobody}]
      BY <1>3, HubAssumption DEF TypeOK
    <3> QED
      BY <3>1 DEF LoggedOut
  <2> QED
    BY <1>0, <1>3, <2>1, <2>2 DEF Socket
<1>5. /\ t.page = p /\ t.peer = "opening" /\ t.writer = "none" /\ t.buffer = <<>>
      /\ t.got = <<>> /\ t.due = <<>> /\ t.dropped = {}
  BY <1>0
<1>6. /\ n \in Nat /\ n # 0 /\ n \notin DOMAIN sockets
      /\ sockets' \in Seq(Socket) /\ Len(sockets') = n
      /\ DOMAIN sockets' = DOMAIN sockets \cup {n} /\ sockets'[n] = t
      /\ \A k \in DOMAIN sockets : sockets'[k] = sockets[k]
  <2>1. DOMAIN sockets = 1..Len(sockets) /\ Len(sockets) \in Nat
    BY <1>3
  <2>2. /\ sockets' \in Seq(Socket) /\ Len(sockets') = n /\ DOMAIN sockets' = 1..n
        /\ sockets'[n] = t /\ \A k \in 1..Len(sockets) : sockets'[k] = sockets[k]
    BY <1>0, <1>1, <1>3, <1>4, <2>1
  <2>3. 1..n = 1..Len(sockets) \cup {n} /\ n \in Nat /\ n # 0 /\ n \notin 1..Len(sockets)
    BY <1>0, <2>1
  <2> QED
    BY <2>1, <2>2, <2>3
<1>7. r \in PageRecord /\ r.ws = n /\ r.state = was.state /\ r.timers = 0
  BY <1>6 DEF PageRecord
<1> HIDE DEF r
<1>8. /\ DOMAIN pages' = DOMAIN pages /\ pages'[p] = r
      /\ \A q \in DOMAIN pages \ {p} : pages'[q] = pages[q]
      /\ pages' \in [DOMAIN pages' -> PageRecord]
  BY <1>1, <1>3, <1>7
<1>9. ASSUME NEW k \in DOMAIN sockets'
      PROVE  SocketIsSound(k)' /\ Len(sockets'[k].buffer) <= sendSize
  <2>1. CASE k = n
    <3>1. Len(<<>>) <= sendSize
      BY HubAssumption
    <3>2. SocketIsSound(k)'
      BY <1>5, <1>6, <1>8, <2>1 DEF SocketIsSound
    <3> QED
      BY <1>5, <1>6, <2>1, <3>1, <3>2
  <2>2. CASE k # n
    <3>1. /\ k \in DOMAIN sockets /\ sockets'[k] = sockets[k] /\ SocketIsSound(k)
          /\ clients' = clients
      BY <1>2, <1>6, <2>2
    <3>2. SocketIsSound(k)'
      BY <1>8, <3>1 DEF SocketIsSound
    <3> QED
      BY <3>1, <3>2, SocketFacts
  <2> QED
    BY <2>1, <2>2
<1>10. ASSUME NEW q \in DOMAIN pages
       PROVE  PageIsSound(q)' /\ pages'[q].ws <= Len(sockets')
  <2>1. CASE q = p
    <3>1. ASSUME NEW k \in DOMAIN sockets', sockets'[k].page = p, sockets'[k].peer # "closed"
          PROVE  k = n
      BY <1>6, <3>1
    <3>2. sockets'[n].page = p /\ sockets'[n].peer # "closed"
      BY <1>5, <1>6
    <3>3. pages'[p].ws = n /\ pages'[p].timers = 0 /\ pages'[p].state = was.state
      BY <1>7, <1>8
    <3>4. PageIsSound(p)'
      <4>1. ~ LoggedOut(p)'
        BY SameSession
      <4>2. PICK one : one = IF n = 0 \/ sockets'[n].peer = "closed" THEN 1 ELSE 0
        OBVIOUS
      <4>3. pages'[p].timers = one
        BY <1>6, <3>2, <3>3, <4>2
      <4> QED
        BY <3>1, <3>2, <3>3, <4>1, <4>2, <4>3, PageBecomesSound
    <3>5. n <= n
      BY <1>6
    <3> QED
      BY <1>6, <2>1, <3>3, <3>4, <3>5
  <2>2. CASE q # p
    <3> DEFINE page == pages[q]
    <3>1. pages'[q] = page /\ PageIsSound(q)
      BY <1>8, <2>2
    <3>2. /\ page.ws # 0 =>
                page.ws \in DOMAIN sockets /\ sockets'[page.ws] = sockets[page.ws]
          /\ page.ws \in Nat
      BY <1>6, <3>1, WsFacts
    <3>3. \A k \in DOMAIN sockets' :
            sockets'[k].page = q /\ sockets'[k].peer # "closed" => k = page.ws
      BY <1>5, <1>6, <2>2, <3>1 DEF PageIsSound
    <3>4. PageIsSound(q)'
      <4>1. Ended(pages[q].ws)' <=> Ended(pages[q].ws)
        BY <3>1, <3>2 DEF Ended
      <4>2. signedOut' = signedOut /\ (LoggedOut(q)' <=> LoggedOut(q))
        BY SameSession
      <4> QED
        BY <3>1, <3>2, <3>3, <4>1, <4>2 DEF PageIsSound
    <3>5. pages[q].ws <= Len(sockets)
      BY DEF TypeOK
    <3>6. page.ws <= n
      <4>1. Len(sockets) \in Nat
        BY <1>3
      <4> QED
        BY <1>0, <3>2, <3>5, <4>1
    <3> QED
      BY <1>6, <3>1, <3>4, <3>6
  <2> QED
    BY <2>1, <2>2
<1>11. \A f \in Feeds : WasHanded(f)'
  BY <1>2 DEF WasHanded
<1>12. \A f \in Feeds : /\ committed'[f] < position'[f]
                        /\ position'[f] <= Len(Messages[f]) + 1
                        /\ AtMessage(f)' => step'[f] <= Len(Addressees(f)')
  BY <1>2, FeedFacts DEF AtMessage, Addressees
<1>13. TypeOK'
  <2>1. dials' \in Nat
    BY <1>1, <1>3
  <2>2. clients' \subseteq DOMAIN sockets'
    BY <1>2, <1>3, <1>6
  <2> QED
    BY <1>2, <1>6, <1>8, <1>9, <1>10, <1>12, <2>1, <2>2, SameSession DEF TypeOK
<1> QED
  BY <1>2, <1>8, <1>9, <1>10, <1>11, <1>13

LEMMA MountKeepsIInv ==
    ASSUME IInv, NEW p \in DOMAIN pages, Mount(p)
    PROVE  IInv'
<1>0. PICK page : page = pages[p]
  OBVIOUS
<1> DEFINE was == [page EXCEPT !.state = "mounted"]
<1>1. /\ page.state = "new" /\ Connected(p, was)
      /\ signedOut' = IF LoggedOut(p) THEN signedOut \cup {p} ELSE signedOut
      /\ UNCHANGED <<feeds, hub, handed, restarts, token, logins>>
  BY <1>0 DEF Mount
<1>2. page \in PageRecord /\ PageIsSound(p) /\ TypeOK
  BY <1>0, WsFacts DEF IInv
<1>3. page.ws = 0 /\ page.timers = 0
  BY <1>0, <1>1, <1>2 DEF PageIsSound
<1>4. was \in PageRecord /\ was.state = "mounted" /\ was.ws = 0 /\ was.timers = 0
  BY <1>2, <1>3 DEF PageRecord
<1>5. ASSUME NEW i \in DOMAIN sockets, sockets[i].page = p
      PROVE  sockets[i].peer = "closed"
  <2>1. i # 0
    BY <1>2, SocketFacts
  <2> QED
    BY <1>0, <1>2, <1>3, <1>5, <2>1 DEF PageIsSound
<1> HIDE DEF was
<1>6. CASE LoggedOut(p)
  <2>1. pages' = [pages EXCEPT ![p] = was] /\ UNCHANGED <<sockets, dials>>
    BY <1>1, <1>6 DEF Connected
  <2>2. signedOut' = signedOut \cup {p} /\ was.ws = pages[p].ws
    BY <1>0, <1>1, <1>3, <1>4, <1>6
  <2> QED
    BY <1>1, <1>4, <2>1, <2>2, StaysSilent
<1>7. CASE ~ LoggedOut(p)
  <2>1. UNCHANGED session /\ was.ws = pages[p].ws
    BY <1>0, <1>1, <1>3, <1>4, <1>7 DEF session
  <2> QED
    BY <1>1, <1>4, <1>5, <1>7, <2>1, ConnectedKeepsIInv
<1> QED
  BY <1>6, <1>7

LEMMA TimerFiresKeepsIInv ==
    ASSUME IInv, NEW p \in DOMAIN pages, TimerFires(p)
    PROVE  IInv'
<1>0. PICK page : page = pages[p]
  OBVIOUS
<1> DEFINE was == [page EXCEPT !.timers = page.timers - 1]
<1>1. /\ page.timers > 0 /\ Connected(p, was)
      /\ UNCHANGED <<feeds, hub, handed, restarts, session>>
  BY <1>0 DEF TimerFires
<1>2. /\ PageIsSound(p) /\ TypeOK
      /\ page \in PageRecord /\ page.ws \in Nat /\ page.timers \in Nat
      /\ page.state \in {"new", "mounted", "left", "leaving"}
  BY <1>0, WsFacts DEF IInv
<1>3. page.timers # 0 /\ ~ (page.timers <= 0)
  <2>1. page.timers \in Nat /\ page.timers > 0
    BY <1>1, <1>2
  <2> QED
    BY <2>1
<1>4. page.state \in {"mounted", "leaving"}
  BY <1>0, <1>2, <1>3 DEF PageIsSound
<1>5. Ended(page.ws) /\ page.timers <= 1
  <2>1. page.timers <= IF Ended(page.ws) THEN 1 ELSE 0
    BY <1>0, <1>2, <1>4 DEF PageIsSound
  <2> QED
    BY <1>3, <2>1, Zenon
<1>6. page.timers = 1
  <2>1. page.timers \in Nat /\ page.timers <= 1 /\ page.timers # 0
    BY <1>2, <1>3, <1>5
  <2> QED
    BY <2>1
<1>7. was \in PageRecord /\ was.state = page.state /\ was.ws = page.ws /\ was.timers = 0
  BY <1>2, <1>6 DEF PageRecord
<1>8. ASSUME NEW i \in DOMAIN sockets, sockets[i].page = p
      PROVE  sockets[i].peer = "closed"
  <2>1. i # 0 /\ (sockets[i].peer # "closed" => i = page.ws)
    BY <1>0, <1>2, <1>8, SocketFacts DEF PageIsSound
  <2> QED
    BY <1>5, <2>1 DEF Ended
<1>9. was.ws # 0 => sockets[was.ws].peer # "open"
  BY <1>5, <1>7 DEF Ended
<1> HIDE DEF was
<1>10. was.ws = pages[p].ws
  BY <1>0, <1>7
<1>11. CASE LoggedOut(p)
  <2>1. pages' = [pages EXCEPT ![p] = was] /\ UNCHANGED <<sockets, dials>>
    BY <1>1, <1>11 DEF Connected
  <2>2. was.state = "mounted" => p \in signedOut
    BY <1>0, <1>2, <1>7, <1>11 DEF PageIsSound
  <2>3. signedOut' = signedOut /\ token' = token /\ logins' = logins
    BY <1>1 DEF session
  <2> QED
    BY <1>1, <1>4, <1>7, <1>10, <2>1, <2>2, <2>3, StaysSilent
<1>12. CASE ~ LoggedOut(p)
  BY <1>1, <1>4, <1>7, <1>8, <1>9, <1>10, <1>12, ConnectedKeepsIInv
<1> QED
  BY <1>11, <1>12

-----------------------------------------------------------------------------
(* The users.                                                               *)

\* Nothing but who is logged in changes.
LEMMA SessionChanges ==
    ASSUME IInv, UNCHANGED <<feeds, hub, browser, handed, dials, restarts>>,
           token' \in [Browser -> User \cup {Nobody}], logins' \in Nat,
           signedOut \subseteq signedOut', signedOut' \subseteq Page,
           \A p \in DOMAIN pages :
                pages[p].state = "mounted" /\ LoggedOut(p)' => LoggedOut(p) \/ p \in signedOut'
    PROVE  IInv'
<1> USE DEF IInv
<1>1. /\ position' = position /\ committed' = committed /\ step' = step
      /\ broadcast' = broadcast /\ broadcastAll' = broadcastAll /\ clients' = clients
      /\ sockets' = sockets /\ pages' = pages /\ handed' = handed
      /\ dials' = dials /\ restarts' = restarts /\ Feeds' = Feeds
  BY DEF feeds, hub, browser, Feeds
<1>2. TypeOK'
  BY <1>1 DEF TypeOK, AtMessage, Addressees
<1>3. \A f \in Feeds : WasHanded(f)'
  BY <1>1 DEF WasHanded
<1>4. \A i \in DOMAIN sockets : SocketIsSound(i)'
  BY <1>1 DEF SocketIsSound
<1>5. ASSUME NEW p \in DOMAIN pages
      PROVE  PageIsSound(p)'
  BY <1>1, PageStays
<1> QED
  BY <1>1, <1>2, <1>3, <1>4, <1>5

LEMMA LoginKeepsIInv ==
    ASSUME IInv, NEW b \in Browser, NEW user \in User, Login(b, user)
    PROVE  IInv'
<1>1. /\ UNCHANGED <<feeds, hub, browser, handed, dials, restarts>>
      /\ signedOut' = signedOut /\ logins > 0 /\ logins' = logins - 1
      /\ token' = [token EXCEPT ![b] = user]
  BY DEF Login
<1>2. /\ token \in [Browser -> User \cup {Nobody}] /\ signedOut \subseteq Page
      /\ logins \in Nat /\ DOMAIN pages \subseteq Page
  BY DEF IInv, TypeOK
<1>3. logins' \in Nat
  BY <1>1, <1>2
<1>4. token' \in [Browser -> User \cup {Nobody}]
  BY <1>1, <1>2
<1>5. ASSUME NEW p \in DOMAIN pages, LoggedOut(p)'
      PROVE  LoggedOut(p)
  <2>1. BrowserOf[p] \in Browser /\ user # Nobody
    BY <1>2, HubAssumption
  <2> QED
    BY <1>1, <1>2, <1>5, <2>1 DEF LoggedOut
<1> QED
  BY <1>1, <1>2, <1>3, <1>4, <1>5, SessionChanges

LEMMA LogoutKeepsIInv ==
    ASSUME IInv, NEW b \in Browser, Logout(b)
    PROVE  IInv'
<1>1. /\ UNCHANGED <<feeds, hub, browser, handed, dials, restarts>> /\ logins' = logins
      /\ signedOut' = signedOut \cup MountedIn(b)
      /\ token' = [token EXCEPT ![b] = Nobody]
  BY DEF Logout
<1>2. /\ token \in [Browser -> User \cup {Nobody}] /\ signedOut \subseteq Page
      /\ logins \in Nat /\ DOMAIN pages \subseteq Page
  BY DEF IInv, TypeOK
<1>3. token' \in [Browser -> User \cup {Nobody}] /\ signedOut' \subseteq Page
  BY <1>1, <1>2 DEF MountedIn
<1>4. ASSUME NEW p \in DOMAIN pages, pages[p].state = "mounted", LoggedOut(p)'
      PROVE  LoggedOut(p) \/ p \in signedOut'
  <2>1. CASE BrowserOf[p] = b
    BY <1>1, <1>4, <2>1 DEF MountedIn
  <2>2. CASE BrowserOf[p] # b
    <3>1. BrowserOf[p] \in Browser
      BY <1>2, HubAssumption
    <3> QED
      BY <1>1, <1>2, <1>4, <2>2, <3>1 DEF LoggedOut
  <2> QED
    BY <2>1, <2>2
<1> QED
  BY <1>1, <1>2, <1>3, <1>4, SessionChanges

-----------------------------------------------------------------------------
(* All steps.                                                               *)

LEMMA StutterKeepsIInv ==
    ASSUME IInv, UNCHANGED vars
    PROVE  IInv'
<1>1. UNCHANGED <<feeds, hub, browser, handed, dials, restarts, session>>
  BY DEF vars
<1>2. TypeOK
  BY DEF IInv
<1>3. /\ token' \in [Browser -> User \cup {Nobody}] /\ signedOut' \subseteq Page
      /\ logins' \in Nat /\ signedOut' = signedOut
      /\ \A p : LoggedOut(p)' <=> LoggedOut(p)
  BY <1>1, <1>2, SameSession
<1> QED
  BY <1>1, <1>3, SessionChanges

LEMMA InitIsSound == Init => IInv
<1> SUFFICES ASSUME Init
             PROVE  IInv
  OBVIOUS
<1>1. PICK c \in Cases :
        /\ position = [f \in c.feeds |-> 1]
        /\ pages = [p \in c.pages |-> [state |-> "new", timers |-> 0, ws |-> 0]]
        /\ token = c.token
        /\ dials = c.sockets /\ restarts = c.restarts /\ logins = c.logins
  BY DEF Init
<1>2. /\ committed = [f \in Feeds |-> 0] /\ step = [f \in Feeds |-> 0]
      /\ broadcast = <<>> /\ broadcastAll = <<>> /\ clients = {}
      /\ sockets = <<>> /\ handed = {} /\ signedOut = {}
  BY DEF Init
<1>3. /\ c.feeds \subseteq Feed /\ c.pages \subseteq Page
      /\ c.token \in [Browser -> User \cup {Nobody}]
      /\ c.sockets \in Nat /\ c.restarts \in Nat /\ c.logins \in Nat
  <2>1. c \in [pages : SUBSET Page, feeds : SUBSET Feed,
               token : [Browser -> User \cup {Nobody}],
               sockets : Nat, restarts : Nat, logins : Nat]
    BY HubAssumption
  <2> QED
    BY <2>1
<1>4. /\ Feeds = c.feeds /\ Feeds \subseteq Feed
      /\ position \in [Feeds -> Nat] /\ committed \in [Feeds -> Nat] /\ step \in [Feeds -> Nat]
      /\ \A f \in Feeds : position[f] = 1 /\ committed[f] = 0 /\ step[f] = 0
  <2>1. Feeds = c.feeds
    BY <1>1 DEF Feeds
  <2> QED
    BY <1>1, <1>2, <1>3, <2>1
<1>5. ASSUME NEW f \in Feeds
      PROVE  /\ Messages[f] \in Seq(Seq(User \cup {Everyone}))
             /\ committed[f] < position[f] /\ position[f] <= Len(Messages[f]) + 1
             /\ AtMessage(f) => step[f] <= Len(Addressees(f))
  <2>1. Messages[f] \in Seq(Seq(User \cup {Everyone}))
    BY <1>4, HubAssumption
  <2>2. committed[f] < position[f]
    BY <1>4
  <2>3. position[f] <= Len(Messages[f]) + 1
    <3>1. Len(Messages[f]) \in Nat
      BY <2>1
    <3> QED
      BY <1>4, <3>1
  <2>4. ASSUME AtMessage(f)
        PROVE  step[f] <= Len(Addressees(f))
    <3>1. 1 \in DOMAIN Messages[f]
      BY <1>4, <2>1, <2>4 DEF AtMessage
    <3>2. Addressees(f) \in Seq(User \cup {Everyone})
      BY <1>4, <2>1, <3>1 DEF Addressees
    <3> QED
      BY <1>4, <3>2
  <2> QED
    BY <2>1, <2>2, <2>3, <2>4
<1>6. /\ <<>> \in Seq(Message) /\ <<>> \in Seq(Socket) /\ Len(<<>>) = 0 /\ DOMAIN <<>> = {}
      /\ 0 <= broadcastSize /\ 0 <= broadcastAllSize
  <2>1. broadcastSize \in Nat /\ broadcastAllSize \in Nat
    BY HubAssumption
  <2>2. 0 <= broadcastSize /\ 0 <= broadcastAllSize
    BY <2>1
  <2> QED
    BY <2>2
<1>7. /\ DOMAIN pages = c.pages /\ pages \in [DOMAIN pages -> PageRecord]
      /\ \A p \in DOMAIN pages : pages[p] = [state |-> "new", timers |-> 0, ws |-> 0]
  BY <1>1 DEF PageRecord
<1>8. TypeOK
  BY <1>1, <1>2, <1>3, <1>4, <1>5, <1>6, <1>7 DEF TypeOK
<1>9. ASSUME NEW f \in Feeds
      PROVE  WasHanded(f)
  <2> SUFFICES ASSUME NEW at \in DOMAIN Messages[f], NEW to \in DOMAIN Messages[f][at],
                      at < 1 \/ (at = 1 /\ to <= 0)
               PROVE  FALSE
    BY <1>4 DEF WasHanded
  <2>1. Messages[f][at] \in Seq(User \cup {Everyone}) /\ at \in Nat /\ at # 0
    BY <1>5
  <2>2. to \in Nat /\ to # 0
    BY <2>1
  <2> QED
    BY <2>1, <2>2
<1>10. \A i \in DOMAIN sockets : SocketIsSound(i)
  BY <1>2, <1>6
<1>11. \A p \in DOMAIN pages : PageIsSound(p)
  <2> TAKE p \in DOMAIN pages
  <2>1. /\ pages[p].state = "new" /\ pages[p].ws = 0 /\ pages[p].timers = 0
        /\ DOMAIN sockets = {}
    BY <1>2, <1>6, <1>7
  <2> QED
    BY <2>1 DEF PageIsSound
<1> QED
  BY <1>8, <1>9, <1>10, <1>11 DEF IInv

LEMMA NextKeepsIInv == IInv /\ [Next]_vars => IInv'
<1> SUFFICES ASSUME IInv, [Next]_vars
             PROVE  IInv'
  OBVIOUS
<1>1. ASSUME NEW f \in Feeds, Tell(f)
      PROVE  IInv'
  BY <1>1, TellKeepsIInv
<1>2. ASSUME NEW f \in Feeds, CommitMessages(f)
      PROVE  IInv'
  BY <1>2, CommitMessagesKeepsIInv
<1>3. CASE TakeBroadcast
  BY <1>3, TakeBroadcastKeepsIInv
<1>4. CASE TakeBroadcastAll
  BY <1>4, TakeBroadcastAllKeepsIInv
<1>5. CASE Restart
  BY <1>5, RestartKeepsIInv
<1>6. ASSUME NEW i \in DOMAIN sockets,
             Register(i) \/ Unregister(i) \/ Write(i) \/ Close(i) \/ OnClose(i)
      PROVE  IInv'
  BY <1>6, RegisterKeepsIInv, UnregisterKeepsIInv, WriteKeepsIInv, CloseKeepsIInv,
     OnCloseKeepsIInv
<1>7. ASSUME NEW p \in DOMAIN pages, Mount(p) \/ TimerFires(p) \/ Unmount(p) \/ Leave(p)
      PROVE  IInv'
  BY <1>7, MountKeepsIInv, TimerFiresKeepsIInv, UnmountKeepsIInv, LeaveKeepsIInv
<1>8. ASSUME NEW b \in Browser, Logout(b) \/ \E user \in User : Login(b, user)
      PROVE  IInv'
  BY <1>8, LogoutKeepsIInv, LoginKeepsIInv
<1>9. CASE UNCHANGED vars
  BY <1>9, StutterKeepsIInv
<1> QED
  BY <1>1, <1>2, <1>3, <1>4, <1>5, <1>6, <1>7, <1>8, <1>9 DEF Next

LEMMA Invariance == Spec => []IInv
  BY InitIsSound, NextKeepsIInv, PTL DEF Spec

-----------------------------------------------------------------------------
(* The theorems.                                                            *)

\* The channels and the buffers never hold more than their capacity, a feed is
\* never past a message it has not told everybody of, and every registered
\* client is a connection (hub.go:27-35, typed_consumer.go:112-142).
THEOREM TypeCorrect == Spec => []TypeOK
<1>1. IInv => TypeOK
  BY DEF IInv
<1> QED
  BY <1>1, Invariance, PTL

\* A page that stays connected is sent all the hub has taken for the user it
\* connected for, in that order and once, but for what did not fit its buffer,
\* however that user's other tabs come and go (hub.go:57-88).
THEOREM ConnectedPagesAreServed == Spec => []ConnectedPagesMissNothing
<1>1. IInv => ConnectedPagesMissNothing
  BY DEF IInv, SocketIsSound, ConnectedPagesMissNothing
<1> QED
  BY <1>1, Invariance, PTL

\* What a consumer has committed it has put on the hub's channels, for every
\* addressee, however often the service restarts (typed_consumer.go:112-142).
THEOREM CommittedHanded == Spec => []CommittedWasHanded
<1>1. ASSUME IInv
      PROVE  CommittedWasHanded
  <2> SUFFICES ASSUME NEW f \in Feeds, NEW at \in 1..committed[f],
                      NEW to \in DOMAIN Messages[f][at]
               PROVE  [feed |-> f, at |-> at, to |-> to] \in handed
    BY DEF CommittedWasHanded
  <2>1. /\ Messages[f] \in Seq(Seq(User \cup {Everyone})) /\ committed[f] \in Nat
        /\ position[f] \in Nat /\ committed[f] < position[f]
        /\ position[f] <= Len(Messages[f]) + 1
    BY <1>1, FeedFacts DEF IInv
  <2>2. at \in DOMAIN Messages[f] /\ at < position[f]
    BY <2>1
  <2> QED
    BY <1>1, <2>2 DEF IInv, WasHanded
<1> QED
  BY <1>1, Invariance, PTL

\* However connections fail, tabs close and users log in and out, a page never has
\* two of what would make two sockets of it: connections that have not ended, and
\* timers.  A mounted page has one of them if its user has been logged in since it
\* was mounted; a page that is gone has none (useWebSocket.ts:31-35, 58-80).
THEOREM OneSocketAtATime == Spec => []OneSocketOrTimer
<1>1. ASSUME IInv, NEW p \in DOMAIN pages
      PROVE  LET n == pages[p].timers + Cardinality({i \in DOMAIN sockets :
                        sockets[i].page = p /\ sockets[i].peer # "closed"})
             IN  /\ n <= 1
                 /\ pages[p].state = "mounted" /\ p \notin signedOut => n = 1
                 /\ pages[p].state \in {"new", "left"} => n = 0
  <2>0. PICK page, left, ended :
            /\ page = pages[p]
            /\ left = {i \in DOMAIN sockets :
                          sockets[i].page = p /\ sockets[i].peer # "closed"}
            /\ ended \in BOOLEAN /\ (ended <=> Ended(page.ws))
    <3>1. Ended(pages[p].ws) \in BOOLEAN
      BY DEF Ended
    <3> QED
      BY <3>1
  <2> DEFINE n == page.timers + Cardinality(left)
             one == IF ended THEN 1 ELSE 0
  <2>1. /\ PageIsSound(p) /\ page.timers \in Nat
        /\ page.state \in {"new", "mounted", "left", "leaving"}
        /\ page.ws # 0 => page.ws \in DOMAIN sockets /\ sockets[page.ws].page = p
    BY <1>1, <2>0, WsFacts DEF IInv
  <2>2. Cardinality(left) = IF ended THEN 0 ELSE 1
    <3>0. \A i \in DOMAIN sockets : i # 0
      BY <1>1, SocketFacts DEF IInv
    <3>1. CASE ended
      <4>1. left = {}
        BY <2>0, <2>1, <3>0, <3>1 DEF PageIsSound, Ended
      <4> QED
        BY <3>1, <4>1, FS_EmptySet, Zenon
    <3>2. CASE ~ ended
      <4>1. left = {page.ws}
        BY <2>0, <2>1, <3>2 DEF PageIsSound, Ended
      <4> QED
        BY <3>2, <4>1, FS_Singleton, Zenon
    <3> QED
      BY <3>1, <3>2
  <2>3. /\ page.state = "new" => ended /\ page.timers = 0
        /\ page.state \in {"mounted", "leaving"} => page.timers <= one
        /\ page.state = "mounted" /\ p \notin signedOut => page.timers = one
        /\ page.state = "left" => ended /\ page.timers = 0
    BY <2>0, <2>1 DEF PageIsSound, Ended
  <2>4. page.state \in {"new", "left"} => n = 0
    BY <2>2, <2>3
  <2>5. page.state = "mounted" /\ p \notin signedOut => n = 1
    BY <2>2, <2>3
  <2>6. n <= 1
    <3>1. page.timers <= one
      BY <2>1, <2>3
    <3> QED
      BY <2>1, <2>2, <3>1
  <2> HIDE DEF n
  <2> QED
    BY <2>0, <2>4, <2>5, <2>6 DEF n
<1>2. IInv => OneSocketOrTimer
  BY <1>1 DEF OneSocketOrTimer
<1> QED
  BY <1>2, Invariance, PTL
=============================================================================
