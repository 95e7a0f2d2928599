-------------------------- MODULE NotificationHub --------------------------
(***************************************************************************)
(* The notification service and the pages connected to it.  The consumers   *)
(* put what a user is to be told on the hub's bounded channels, the hub's   *)
(* one goroutine hands it to the buffers of the registered clients, and a   *)
(* writer per client sends it to the page; the page's hook reconnects.      *)
(*                                                                         *)
(* One message of a feed is the sequence of those to be told: the maker and *)
(* the taker, one user, everyone, or nobody when the payload names no user. *)
(* register and unregister have no buffer, so passing a client over them is *)
(* the hub's step.                                                          *)
(*                                                                         *)
(* The provider is mounted above the login page (App.tsx), so a page may be *)
(* there before its user has logged in and after; it looks at the token in  *)
(* the browser's localStorage when it connects and at no other time.  The   *)
(* frontend is the production build, in which StrictMode does nothing.      *)
(***************************************************************************)
EXTENDS Integers, Sequences, FiniteSets

CONSTANTS
    User,
    Everyone,          \* the addressee of a depth update
    Feed,              \* the consumers, one per topic and kind
    Messages,          \* what each of them will consume
    Nobody,            \* for the token: nobody is logged in
    Browser,
    Page,              \* loads of the frontend in some tab
    BrowserOf,         \* the browser of each
    broadcastSize,     \* the capacity of Hub.broadcast,
    broadcastAllSize,  \* of Hub.broadcastAll
    sendSize,          \* and of Client.Send
    Cases              \* bound: pages and feeds that run together, who is logged
                       \* in at first, and in all the connections that are made,
                       \* restarts of the service and logins

ASSUME HubAssumption ==
    /\ Messages \in [Feed -> Seq(Seq(User \cup {Everyone}))]
    /\ Nobody \notin User
    /\ BrowserOf \in [Page -> Browser]
    /\ {broadcastSize, broadcastAllSize, sendSize} \subseteq Nat \ {0}
    /\ Cases \subseteq [pages : SUBSET Page, feeds : SUBSET Feed,
                        token : [Browser -> User \cup {Nobody}],
                        sockets : Nat, restarts : Nat, logins : Nat]

VARIABLES
    position,      \* the message each feed is at, and committed so far
    committed,
    step,          \* how many of those it addresses have been told
    broadcast,     \* the hub's channels
    broadcastAll,
    clients,       \* the hub's registry: a set of sockets
    sockets,       \* the connections, in the order they were made
    pages,         \* per page: its state, its timers, its last socket
    token,         \* whose token the localStorage of each browser holds
    handed,        \* history: [feed, at, to] put on a channel
    signedOut,     \* history: pages mounted while nobody was logged in
    dials,         \* the connections that may still be made
    restarts,      \* the restarts that may still happen
    logins         \* and the logins

feeds == <<position, committed, step>>
hub == <<broadcast, broadcastAll, clients>>
browser == <<sockets, pages>>
session == <<token, signedOut, logins>>
vars == <<feeds, hub, browser, session, handed, dials, restarts>>

Feeds == DOMAIN position

Init ==
    /\ \E c \in Cases :
        /\ position = [f \in c.feeds |-> 1]
        /\ pages = [p \in c.pages |-> [state |-> "new", timers |-> 0, ws |-> 0]]
        /\ token = c.token
        /\ dials = c.sockets /\ restarts = c.restarts /\ logins = c.logins
    /\ committed = [f \in Feeds |-> 0]
    /\ step = [f \in Feeds |-> 0]
    /\ broadcast = <<>> /\ broadcastAll = <<>> /\ clients = {}
    /\ sockets = <<>>
    /\ handed = {} /\ signedOut = {}
-----------------------------------------------------------------------------
(* The consumers *)

AtMessage(f) == position[f] <= Len(Messages[f])
Addressees(f) == Messages[f][position[f]]
Now(f) == [feed |-> f, at |-> position[f], to |-> step[f] + 1]

\* Seeded fault for Fits: one more than the capacity.
FitsOneMore(channel, size) == Len(channel) <= size

Fits(channel, size) == Len(channel) < size

\* It blocks while the channel is full.
Broadcast(m) ==
    /\ Fits(broadcast, broadcastSize)
    /\ broadcast' = Append(broadcast, m)
    /\ UNCHANGED broadcastAll

\* It drops.
BroadcastAll(m) ==
    /\ broadcastAll' = IF Fits(broadcastAll, broadcastAllSize)
                       THEN Append(broadcastAll, m) ELSE broadcastAll
    /\ UNCHANGED broadcast

Tell(f) ==
    /\ AtMessage(f) /\ step[f] < Len(Addressees(f))
    /\ LET user == Addressees(f)[step[f] + 1]
           m == [id |-> Now(f), user |-> user]
       IN  IF user = Everyone THEN BroadcastAll(m) ELSE Broadcast(m)
    /\ step' = [step EXCEPT ![f] = @ + 1]
    /\ handed' = handed \cup {Now(f)}
    /\ UNCHANGED <<position, committed, clients, browser, dials, restarts, session>>

\* Seeded fault for AllTold: the taker is told after the commit.
FirstTold(f) == step[f] >= Len(Addressees(f)) \/ step[f] = 1

AllTold(f) == step[f] = Len(Addressees(f))

\* The offset, or, when that fails, only the next message.
CommitMessages(f) ==
    /\ AtMessage(f) /\ AllTold(f)
    /\ committed' \in {committed, [committed EXCEPT ![f] = position[f]]}
    /\ position' = [position EXCEPT ![f] = @ + 1]
    /\ step' = [step EXCEPT ![f] = 0]
    /\ UNCHANGED <<hub, browser, handed, dials, restarts, session>>
-----------------------------------------------------------------------------
(* The hub *)

\* Seeded fault for Room: the send waits for the slowest client.
RoomForAll(to) ==
    \A i \in clients \cap to : Fits(sockets[i].buffer, sendSize)

\* The hub's loop can go on with a message: always, as its sends have a default.
Room(to) == TRUE

\* A socket with one more message: in its buffer, if it is registered and has
\* room.  due is what a page that is connected might expect, kept what was
\* not dropped of it.
Offered(i, m) ==
    LET s == sockets[i]
        fits == i \in clients /\ Fits(s.buffer, sendSize)
    IN  IF s.writer # "running" THEN s
        ELSE IF s.peer # "open"
        THEN [s EXCEPT !.buffer = IF fits THEN Append(@, m.id) ELSE @]
        ELSE [s EXCEPT !.due = Append(@, m.id),
                       !.buffer = IF fits THEN Append(@, m.id) ELSE @,
                       !.dropped = IF i \in clients /\ ~ fits THEN @ \cup {Len(s.due) + 1}
                                   ELSE @]

Deliver(m, to) ==
    /\ Room(to)
    /\ sockets' = [i \in DOMAIN sockets |-> IF i \in to THEN Offered(i, m) ELSE sockets[i]]
    /\ UNCHANGED <<feeds, clients, pages, handed, dials, restarts, session>>

TakeBroadcast ==
    /\ broadcast # <<>>
    /\ Deliver(Head(broadcast),
               {i \in DOMAIN sockets : sockets[i].user = Head(broadcast).user})
    /\ broadcast' = Tail(broadcast)
    /\ UNCHANGED broadcastAll

TakeBroadcastAll ==
    /\ broadcastAll # <<>>
    /\ Deliver(Head(broadcastAll), DOMAIN sockets)
    /\ broadcastAll' = Tail(broadcastAll)
    /\ UNCHANGED broadcast

Live(s) == s.peer \in {"opening", "open"}

\* The connection ends for the page; what it got no longer matters.
Closing(s) ==
    IF Live(s) THEN [s EXCEPT !.peer = "closing", !.got = <<>>, !.due = <<>>, !.dropped = {}]
    ELSE s

\* WSHandler upgrades, registers the client, and starts its writer, be the page
\* gone by then or not.  A page is open here once it is registered: what the hub
\* takes after the upgrade and before that is not sent to it.
Register(i) ==
    /\ sockets[i].writer = "none"
    /\ clients' = clients \cup {i}
    /\ sockets' = [sockets EXCEPT ![i].peer = IF @ = "opening" THEN "open" ELSE @,
                                  ![i].writer = "running"]
    /\ UNCHANGED <<feeds, broadcast, broadcastAll, pages, handed, dials, restarts, session>>

\* Seeded fault for Removed: the user's whole set goes.
RemovedUser(i) ==
    {k \in clients : sockets[k].user # sockets[i].user}

Removed(i) == clients \ {i}

\* The writer that has failed leaves the registry and closes the connection.
Unregister(i) ==
    /\ sockets[i].writer = "failed"
    /\ clients' = Removed(i)
    /\ sockets' = [sockets EXCEPT ![i].writer = "done"]
    /\ UNCHANGED <<feeds, broadcast, broadcastAll, pages, handed, dials, restarts, session>>

\* The writer sends to the page.  A write to a page that has gone succeeds or
\* fails; nothing but a failed write ends a writer, not even the read loop.
Write(i) ==
    LET s == sockets[i]
        sent == [s EXCEPT !.buffer = Tail(@)]
    IN  /\ s.writer = "running" /\ s.buffer # <<>>
        /\ \/ s.peer = "open"
              /\ sockets' = [sockets EXCEPT ![i] = [sent EXCEPT !.got = Append(@, Head(s.buffer))]]
           \/ s.peer # "open"
              /\ \E w \in {"running", "failed"} :
                    sockets' = [sockets EXCEPT ![i] = [sent EXCEPT !.writer = w]]
        /\ UNCHANGED <<feeds, hub, pages, handed, dials, restarts, session>>

\* The process ends, and the next one starts with an empty hub at the committed
\* offsets.  A SIGTERM before that stops the consumers and nothing else
\* (main.go:29-63): here, the steps that they do not take.
Restart ==
    /\ restarts > 0
    /\ restarts' = restarts - 1
    /\ position' = [f \in Feeds |-> committed[f] + 1]
    /\ step' = [f \in Feeds |-> 0]
    /\ broadcast' = <<>> /\ broadcastAll' = <<>> /\ clients' = {}
    /\ sockets' = [i \in DOMAIN sockets |->
            [Closing(sockets[i]) EXCEPT !.writer = "done", !.buffer = <<>>]]
    /\ UNCHANGED <<committed, pages, handed, dials, session>>
-----------------------------------------------------------------------------
(* The page *)

LoggedOut(p) == token[BrowserOf[p]] = Nobody

\* connect: not without a token, nor when the last socket is open.
Connected(p, was) ==
    IF LoggedOut(p) \/ (was.ws # 0 /\ sockets[was.ws].peer = "open")
    THEN pages' = [pages EXCEPT ![p] = was] /\ UNCHANGED <<sockets, dials>>
    ELSE /\ dials > 0 /\ dials' = dials - 1
         /\ sockets' = Append(sockets,
                [page |-> p, user |-> token[BrowserOf[p]], peer |-> "opening",
                 writer |-> "none", buffer |-> <<>>, got |-> <<>>, due |-> <<>>,
                 dropped |-> {}])
         /\ pages' = [pages EXCEPT ![p] = [was EXCEPT !.ws = Len(sockets) + 1]]

Mount(p) ==
    /\ pages[p].state = "new"
    /\ Connected(p, [pages[p] EXCEPT !.state = "mounted"])
    /\ signedOut' = IF LoggedOut(p) THEN signedOut \cup {p} ELSE signedOut
    /\ UNCHANGED <<feeds, hub, handed, restarts, token, logins>>

\* The network or the server closes the connection, or it cannot be opened.
Close(i) ==
    /\ Live(sockets[i])
    /\ sockets' = [sockets EXCEPT ![i] = Closing(@)]
    /\ UNCHANGED <<feeds, hub, pages, handed, dials, restarts, session>>

\* Seeded fault for Scheduled: onerror schedules a reconnect as well.
ScheduledTwice(n) == n + 2

\* The timers after one more scheduleReconnect.
Scheduled(n) == n + 1

OnClose(i) ==
    /\ sockets[i].peer = "closing"
    /\ sockets' = [sockets EXCEPT ![i].peer = "closed"]
    /\ pages' = [pages EXCEPT ![sockets[i].page].timers = Scheduled(@)]
    /\ UNCHANGED <<feeds, hub, handed, dials, restarts, session>>

\* Without a token the timer is not set again.
TimerFires(p) ==
    /\ pages[p].timers > 0
    /\ Connected(p, [pages[p] EXCEPT !.timers = @ - 1])
    /\ UNCHANGED <<feeds, hub, handed, restarts, session>>

Ended(i) == i = 0 \/ sockets[i].peer = "closed"

\* The cleanup, after an error while rendering: it clears the last timer and
\* closes the last socket, if there is one, whose onclose comes after that.
Unmount(p) ==
    /\ pages[p].state = "mounted"
    /\ pages' = [pages EXCEPT ![p] =
            [@ EXCEPT !.timers = 0, !.state = IF Ended(pages[p].ws) THEN "left" ELSE "leaving"]]
    /\ sockets' = [i \in DOMAIN sockets |->
            IF i = pages[p].ws THEN Closing(sockets[i]) ELSE sockets[i]]
    /\ UNCHANGED <<feeds, hub, handed, dials, restarts, session>>

\* The tab is closed or loads another page, as apiFetch makes it after a 401:
\* its timers and sockets end with it, and no onclose comes.
Leave(p) ==
    /\ pages[p].state \in {"mounted", "leaving"}
    /\ pages' = [pages EXCEPT ![p] = [@ EXCEPT !.timers = 0, !.state = "left"]]
    /\ sockets' = [i \in DOMAIN sockets |->
            IF sockets[i].page = p THEN [Closing(sockets[i]) EXCEPT !.peer = "closed"]
            ELSE sockets[i]]
    /\ UNCHANGED <<feeds, hub, handed, dials, restarts, session>>

MountedIn(b) == {p \in DOMAIN pages : BrowserOf[p] = b /\ pages[p].state = "mounted"}

\* login and register store the token; no page connects for it.
Login(b, user) ==
    /\ MountedIn(b) # {}
    /\ logins > 0 /\ logins' = logins - 1
    /\ token' = [token EXCEPT ![b] = user]
    /\ UNCHANGED <<feeds, hub, browser, handed, dials, restarts, signedOut>>

\* logout, or a 401: no page closes its socket for it.
Logout(b) ==
    /\ MountedIn(b) # {} /\ token[b] # Nobody
    /\ token' = [token EXCEPT ![b] = Nobody]
    /\ signedOut' = signedOut \cup MountedIn(b)
    /\ UNCHANGED <<feeds, hub, browser, handed, dials, restarts, logins>>
-----------------------------------------------------------------------------

Next ==
    \/ \E f \in Feeds : Tell(f) \/ CommitMessages(f)
    \/ TakeBroadcast \/ TakeBroadcastAll \/ Restart
    \/ \E i \in DOMAIN sockets :
        Register(i) \/ Unregister(i) \/ Write(i) \/ Close(i) \/ OnClose(i)
    \/ \E p \in DOMAIN pages : Mount(p) \/ TimerFires(p) \/ Unmount(p) \/ Leave(p)
    \/ \E b \in Browser : Logout(b) \/ \E user \in User : Login(b, user)

Spec == Init /\ [][Next]_vars

\* The consumers and the hub go on.  A writer need not: its page may be slow
\* to read for ever.
FairSpec ==
    /\ Spec
    /\ \A f \in Feed : /\ WF_vars(f \in Feeds /\ Tell(f))
                       /\ WF_vars(f \in Feeds /\ CommitMessages(f))
    /\ WF_vars(TakeBroadcast) /\ WF_vars(TakeBroadcastAll)
-----------------------------------------------------------------------------
Id == [feed : Feed, at : Nat, to : Nat]
Message == [id : Id, user : User \cup {Everyone}]
Socket ==
    [page : Page, user : User, peer : {"opening", "open", "closing", "closed"},
     writer : {"none", "running", "failed", "done"},
     buffer : Seq(Id), got : Seq(Id), due : Seq(Id), dropped : SUBSET Nat]
PageRecord ==
    [state : {"new", "mounted", "left", "leaving"}, timers : Nat, ws : Nat]

TypeOK ==
    /\ Feeds \subseteq Feed
    /\ position \in [Feeds -> Nat] /\ committed \in [Feeds -> Nat] /\ step \in [Feeds -> Nat]
    /\ \A f \in Feeds : /\ committed[f] < position[f]
                        /\ position[f] <= Len(Messages[f]) + 1
                        /\ AtMessage(f) => step[f] <= Len(Addressees(f))
    /\ broadcast \in Seq(Message) /\ Len(broadcast) <= broadcastSize
    /\ broadcastAll \in Seq(Message) /\ Len(broadcastAll) <= broadcastAllSize
    /\ sockets \in Seq(Socket) /\ clients \subseteq DOMAIN sockets
    /\ \A i \in DOMAIN sockets : Len(sockets[i].buffer) <= sendSize
    /\ DOMAIN pages \subseteq Page /\ pages \in [DOMAIN pages -> PageRecord]
    /\ \A p \in DOMAIN pages : pages[p].ws <= Len(sockets)
    /\ token \in [Browser -> User \cup {Nobody}]
    /\ handed \subseteq Id /\ signedOut \subseteq Page
    /\ dials \in Nat /\ restarts \in Nat /\ logins \in Nat

\* A page that stays connected is sent all that the hub has taken for the user
\* it connected for, once and in that order, less what did not fit its buffer; a
\* client that leaves, a second tab of the same user, does not touch it
\* (hub.go:57-88).
InOrder(sent, due, dropped) ==
    \E nth \in [DOMAIN sent -> DOMAIN due \ dropped] :
        /\ \A j, k \in DOMAIN sent : j < k => nth[j] < nth[k]
        /\ \A n \in DOMAIN due \ dropped : \E k \in DOMAIN sent : nth[k] = n
        /\ \A k \in DOMAIN sent : sent[k] = due[nth[k]]

ConnectedPagesMissNothing ==
    \A i \in DOMAIN sockets : sockets[i].peer = "open" =>
        InOrder(sockets[i].got \o sockets[i].buffer, sockets[i].due, sockets[i].dropped)

\* Both parties of a trade have been told, at least as far as the hub's queue,
\* when it is committed: a crash in between repeats a message and never halves
\* it (typed_consumer.go:112-142; not the auto-commit of kafka-topics.md:42).
CommittedWasHanded ==
    \A f \in Feeds : \A at \in 1..committed[f] :
        \A to \in DOMAIN Messages[f][at] : [feed |-> f, at |-> at, to |-> to] \in handed

\* A page never has two of what would make two sockets of it: a socket that has
\* not ended, and timers to reconnect, however connections fail, tabs close and
\* users log in and out.  It always has one while it is mounted, if its user has
\* been logged in since then, and else may stay without for good, whoever logs in
\* (useWebSocket.ts:31-35, 58-80).  Once unmounted it has none, except when the
\* cleanup closed a socket, whose onclose sets a timer nobody clears.
OneSocketOrTimer ==
    \A p \in DOMAIN pages :
        LET n == pages[p].timers + Cardinality({i \in DOMAIN sockets :
                    sockets[i].page = p /\ sockets[i].peer # "closed"})
        IN  /\ n <= 1
            /\ pages[p].state = "mounted" /\ p \notin signedOut => n = 1
            /\ pages[p].state \in {"new", "left"} => n = 0

\* A page that never reads delays nobody: every consumer gets through its topic
\* and the hub through its channels (hub.go:74-79).
EveryFeedMovesOn ==
    <>[](broadcast = <<>> /\ broadcastAll = <<>> /\ \A f \in Feeds : ~ AtMessage(f))
=============================================================================
