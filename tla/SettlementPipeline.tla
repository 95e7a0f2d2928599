------------------------- MODULE SettlementPipeline -------------------------
(***************************************************************************)
(* What becomes of a matched trade: settlement consumes orders.matched and  *)
(* publishes trades.settled and balances.updated, the indexer inserts the   *)
(* trade and marks it settled, and the event log stores the events of a     *)
(* topic.  Each topic is one partition, each reader a loop of its own with  *)
(* its group's offset on it; the loops of one process stop together.        *)
(*                                                                         *)
(* Handlers may fail as often as they like: the number of attempts bounds   *)
(* them.  The trades are those the matching engine has published.           *)
(***************************************************************************)
EXTENDS Integers, Sequences, SequencesExt

CONSTANTS
    Matched,     \* the trades in orders.matched, in order
    LogTopic,    \* the topic the event log is configured for
    maxRetries,  \* how often a handler is tried again
    Cases        \* bound: readers that run beside each other, and how many
                 \* publishes and commits fail or processes restart meanwhile

Trade == ToSet(Matched)
Topic == {"matched", "settled", "balances"}

\* The indexer has one reader per topic; the event log may have more than the one.
Reader == {"settlement", "orders", "trades", "balances", "eventlog"}
Source(r) == CASE r \in {"settlement", "orders"} -> "matched"
               [] r = "trades"                   -> "settled"
               [] r = "balances"                 -> "balances"
               [] r = "eventlog"                 -> LogTopic
ProcessOf(r) ==
    IF r \in {"orders", "trades", "balances"} THEN "indexer" ELSE r

ASSUME PipelineAssumption ==
    /\ Matched \in Seq(Trade)
    /\ LogTopic \in Topic
    /\ maxRetries \in Nat
    /\ Cases \subseteq [readers : SUBSET Reader, faults : Nat]
    /\ \A c \in Cases : "settlement" \in c.readers

VARIABLES
    log,        \* the messages of each topic, by trade
    position,   \* how many messages each reader that runs has fetched
    asked,      \* the offset it last passed to CommitMessages
    committed,  \* the offset its group has at the broker
    stage,      \* where it is with the message at its position
    attempt,    \* how often handling that has failed
    rows,       \* the table trades: "none", "unsettled" or "settled" per trade
    events,     \* how often each message of LogTopic is in Mongo
    excused,    \* history: messages given up, as [reader, offset]
    early,      \* history: trades marked settled, at last, without a row
    unsure,     \* history: a save was made and answered with an error
    restarted,  \* history: the event log was restarted
    faults      \* the faults that may still happen

Running == DOMAIN position

offsets == <<position, asked, committed>>
loops == <<stage, attempt>>
stores == <<rows, events, early, unsure>>
vars == <<log, offsets, loops, stores, excused, restarted, faults>>

Init ==
    /\ log = [t \in Topic |-> IF t = "matched" THEN Matched ELSE <<>>]
    /\ \E c \in Cases : position = [r \in c.readers |-> 0] /\ faults = c.faults
    /\ asked = position /\ committed = position /\ attempt = position
    /\ stage = [r \in Running |-> "fetch"]
    /\ rows = [t \in Trade |-> "none"]
    /\ events = <<>>
    /\ excused = {} /\ early = {} /\ unsure = FALSE /\ restarted = FALSE

Fault == faults > 0 /\ faults' = faults - 1
Message(r) == log[Source(r)][position[r]]
This(r) == [reader |-> r, offset |-> position[r]]
GoesTo(r, s) == stage' = [stage EXCEPT ![r] = s]
CaughtUp(r) == position[r] = Len(log[Source(r)])
-----------------------------------------------------------------------------
(* Every reader *)

\* Seeded fault for FetchMessage: it commits what it hands out.
ReadMessage(r) ==
    /\ stage[r] = "fetch" /\ ~ CaughtUp(r)
    /\ position' = [position EXCEPT ![r] = @ + 1]
    /\ asked' = [asked EXCEPT ![r] = position[r] + 1]
    /\ committed' = [committed EXCEPT ![r] = position[r] + 1]
    /\ GoesTo(r, "handle")
    /\ UNCHANGED <<log, attempt, stores, excused, restarted, faults>>

\* Seeded fault for FetchMessage: it goes on from the committed offset.
FetchCommitted(r) ==
    /\ stage[r] = "fetch" /\ ~ CaughtUp(r)
    /\ position' = [position EXCEPT ![r] = committed[r] + 1]
    /\ GoesTo(r, "handle")
    /\ UNCHANGED <<log, asked, committed, attempt, stores, excused, restarted, faults>>

FetchMessage(r) ==
    /\ stage[r] = "fetch" /\ ~ CaughtUp(r)
    /\ position' = [position EXCEPT ![r] = @ + 1]
    /\ GoesTo(r, "handle")
    /\ UNCHANGED <<log, asked, committed, attempt, stores, excused, restarted, faults>>

\* Seeded fault for Offset: one too many.
OffsetAfterNext(r) == position[r] + 1

\* What committing the message of a reader lets its group skip.
Offset(r) == position[r]

\* The event log's readers have a CommitInterval: they only note the offset.
CommitMessages(r) ==
    /\ stage[r] = "commit"
    /\ asked' = [asked EXCEPT ![r] = Offset(r)]
    /\ IF r = "eventlog" THEN UNCHANGED committed
       ELSE committed' = [committed EXCEPT ![r] = Offset(r)]
    /\ GoesTo(r, "fetch")
    /\ UNCHANGED <<log, position, attempt, stores, excused, restarted, faults>>

\* An error of the commit is logged, and the loop goes on.
CommitFails(r) ==
    /\ stage[r] = "commit"
    /\ Fault
    /\ GoesTo(r, "fetch")
    /\ UNCHANGED <<log, offsets, attempt, stores, excused, restarted>>

FlushCommits ==
    /\ "eventlog" \in Running /\ committed["eventlog"] # asked["eventlog"]
    /\ committed' = [committed EXCEPT !["eventlog"] = asked["eventlog"]]
    /\ UNCHANGED <<log, position, asked, loops, stores, excused, restarted, faults>>

\* A process stops and starts again at the committed offsets.  When it is told
\* to stop, a handler's error and the delay after it end with the context's
\* error, and the select in CommitMessages may then commit the message all the
\* same, handled or not.  Settlement commits only what it handled.
Restart(process) ==
    LET p == {r \in Running : ProcessOf(r) = process}
        Back(offset, kept) == [r \in Running |-> IF r \in p THEN kept[r] ELSE offset[r]]
    IN  /\ Fault
        /\ p # {}
        /\ \E late \in SUBSET {r \in p : stage[r] = "commit"
                                  \/ (stage[r] = "handle" /\ r # "settlement")} :
            LET kept == [r \in p |-> IF r \in late THEN position[r] ELSE committed[r]]
            IN  /\ committed' = Back(committed, kept)
                /\ position' = Back(position, kept)
                /\ asked' = Back(asked, kept)
                /\ excused' = excused \cup
                                {This(r) : r \in {q \in late : stage[q] = "handle"}}
        /\ stage' = Back(stage, [r \in p |-> "fetch"])
        /\ attempt' = Back(attempt, [r \in p |-> 0])
        /\ restarted' = (restarted \/ process = "eventlog")
        /\ UNCHANGED <<log, stores>>
-----------------------------------------------------------------------------
(* Settlement *)

Publishes(topic, r) == log' = [log EXCEPT ![topic] = Append(@, Message(r))]

\* trades.settled, then balances.updated, then the commit.
ProcessMatched ==
    /\ \/ /\ stage["settlement"] = "handle"
          /\ Publishes("settled", "settlement")
          /\ GoesTo("settlement", "balances")
       \/ /\ stage["settlement"] = "balances"
          /\ Publishes("balances", "settlement")
          /\ GoesTo("settlement", "commit")
    /\ UNCHANGED <<offsets, attempt, stores, excused, restarted, faults>>

\* Either publish fails, whether or not the broker has the message.  The loop
\* goes on with the next one; committing that covers this one.
PublishFails ==
    /\ Fault
    /\ \E t \in {"settled", "balances"} :
        /\ stage["settlement"] = (IF t = "settled" THEN "handle" ELSE "balances")
        /\ Publishes(t, "settlement") \/ UNCHANGED log
    /\ excused' = excused \cup {This("settlement")}
    /\ GoesTo("settlement", "fetch")
    /\ UNCHANGED <<offsets, attempt, stores, restarted>>
-----------------------------------------------------------------------------
(* The handlers of the indexer and the event log *)

\* Seeded fault for fn_process_order_matched: a trade that is there is replaced.
fn_replace_trade(t) == rows' = [rows EXCEPT ![t] = "unsettled"]

\* The insert of the trade, ON CONFLICT DO NOTHING.  (The order rows are in
\* OrderLifecycle.)
fn_process_order_matched(t) ==
    rows' = [rows EXCEPT ![t] = IF @ = "none" THEN "unsettled" ELSE @]

\* It updates no row when the trade has not been inserted, which is no error.
fn_mark_trade_settled(t) ==
    /\ rows' = [rows EXCEPT ![t] = IF @ = "none" THEN @ ELSE "settled"]
    /\ early' = IF rows[t] = "none" THEN early \cup {t} ELSE early \ {t}

Saved(i) == IF i \in DOMAIN events THEN events[i] ELSE 0

\* One more document, with a fresh _id.
Save(i) == events' = [k \in DOMAIN events \cup {i} |-> IF k = i THEN Saved(i) + 1 ELSE events[k]]

OrderMatchedHandler(t) == fn_process_order_matched(t) /\ UNCHANGED <<events, early>>

TradeSettledHandler(t) == fn_mark_trade_settled(t) /\ UNCHANGED events

\* balances.updated as settlement publishes it names no user: it is skipped.
BalanceUpdatedHandler(t) == UNCHANGED <<rows, events, early>>

Handle(r) ==
    \/ r = "orders" /\ OrderMatchedHandler(Message(r))
    \/ r = "trades" /\ TradeSettledHandler(Message(r))
    \/ r = "balances" /\ BalanceUpdatedHandler(Message(r))
    \/ r = "eventlog" /\ Save(position[r]) /\ UNCHANGED <<rows, early>>

HandleSucceeds(r) ==
    /\ stage[r] = "handle" /\ r # "settlement"
    /\ Handle(r)
    /\ GoesTo(r, "commit")
    /\ attempt' = [attempt EXCEPT ![r] = 0]
    /\ UNCHANGED <<log, offsets, unsure, excused, restarted, faults>>

\* Seeded fault for GivesUp: it tries until it succeeds.
NeverGivesUp(r) == FALSE

GivesUp(r) == attempt[r] = maxRetries

\* The handler fails, perhaps after its statement was done; after the last
\* attempt the message is dropped, and then committed.
HandleFails(r) ==
    /\ stage[r] = "handle" /\ r # "settlement"
    /\ \/ UNCHANGED stores
       \/ Handle(r) /\ unsure' = (unsure \/ r = "eventlog")
    /\ attempt' = [attempt EXCEPT ![r] = (@ + 1) % (maxRetries + 1)]
    /\ IF GivesUp(r) THEN GoesTo(r, "commit") /\ excused' = excused \cup {This(r)}
       ELSE UNCHANGED <<stage, excused>>
    /\ UNCHANGED <<log, offsets, restarted, faults>>
-----------------------------------------------------------------------------

Next ==
    \/ \E r \in Running : \/ FetchMessage(r) \/ CommitMessages(r) \/ CommitFails(r)
                          \/ HandleSucceeds(r) \/ HandleFails(r)
    \/ \E process \in {"settlement", "indexer", "eventlog"} : Restart(process)
    \/ FlushCommits \/ ProcessMatched \/ PublishFails

Spec == Init /\ [][Next]_vars

\* Every loop goes on; no handler has to succeed, and no fault has to happen.
FairSpec ==
    /\ Spec
    /\ \A r \in Reader :
        /\ WF_vars(r \in Running /\ (FetchMessage(r) \/ CommitMessages(r)))
        /\ WF_vars(r \in Running /\ (HandleSucceeds(r) \/ HandleFails(r)))
    /\ WF_vars(ProcessMatched)
-----------------------------------------------------------------------------
TypeOK ==
    /\ log \in [Topic -> Seq(Trade)]
    /\ Running \subseteq Reader /\ "settlement" \in Running
    /\ position \in [Running -> Nat] /\ asked \in [Running -> Nat]
    /\ committed \in [Running -> Nat]
    /\ \A r \in Running :
        /\ committed[r] <= asked[r] /\ asked[r] <= position[r]
        /\ position[r] <= Len(log[Source(r)])
    /\ stage \in [Running -> {"fetch", "handle", "balances", "commit"}]
    /\ attempt \in [Running -> 0..maxRetries]
    /\ rows \in [Trade -> {"none", "unsettled", "settled"}]
    /\ DOMAIN events \subseteq Nat /\ events \in [DOMAIN events -> Nat \ {0}]
    /\ excused \subseteq [reader : Reader, offset : Nat]
    /\ early \subseteq Trade
    /\ unsure \in BOOLEAN /\ restarted \in BOOLEAN /\ faults \in Nat

\* What a reader is for, done for the message at offset i.
Done(r, i) ==
    LET t == log[Source(r)][i]
    IN  CASE r = "settlement" -> t \in ToSet(log["settled"]) \cap ToSet(log["balances"])
          [] r = "orders"     -> rows[t] # "none"
          [] r = "trades"     -> rows[t] = "settled" \/ t \in early
          [] r = "balances"   -> TRUE
          [] r = "eventlog"   -> Saved(i) > 0

\* A committed message has had its whole effect, in whatever order crashes,
\* retries and commits came, unless it was given up: after the last attempt,
\* by a shutdown in the middle of it, or by a failed publish that a later
\* commit passed over (settlement main.go:62-68, dispatcher.go:72,
\* consumer.go:79; kafka-topics.md:39-41 names no such exception).
CommittedIsDone ==
    \A r \in Running : \A i \in 1..committed[r] :
        Done(r, i) \/ [reader |-> r, offset |-> i] \in excused

\* Once the indexer is through its topics, a trade that settlement announced is
\* marked settled, however often either event came, unless the last mark came
\* before the insert, which nothing repeats, or was given up
\* (stored_procedures.sql:687).
UnmarkedOnlyIfOvertaken ==
    /\ "trades" \in Running /\ CaughtUp("trades") /\ stage["trades"] = "fetch"
    => \A i \in DOMAIN log["settled"] :
        \/ rows[log["settled"][i]] = "settled"
        \/ log["settled"][i] \in early
        \/ [reader |-> "trades", offset |-> i] \in excused

\* An event is stored twice only if the event log was restarted or Mongo
\* answered a save it had made with an error (consumer.go:92, mongo.go:66).
StoredOnce == \A i \in DOMAIN events : events[i] = 1 \/ restarted \/ unsure

\* No message blocks its topic, even one whose handler never succeeds: every
\* reader gets to the end and stays there (dispatcher.go:84).
EveryReaderCatchesUp == <>[](\A r \in Running : CaughtUp(r) /\ stage[r] = "fetch")
=============================================================================
