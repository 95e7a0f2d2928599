--------------------------- MODULE OrderRequests ---------------------------
(***************************************************************************)
(* A request's way to Postgres: the browser's apiFetch calls the gateway    *)
(* and calls again after a network error, the gateway's transport sends the *)
(* call to the API and sends it again after a network error, and the API    *)
(* may still be at work on a request whose sender has given it up.  The two *)
(* stored functions run beside each other, statement by statement where it  *)
(* matters; a statement's write and its commit are one step, because the    *)
(* row lock or the unique index makes the others wait in between.           *)
(*                                                                         *)
(* One user, who pays fees in one asset; matching, which may close or       *)
(* reopen orders meanwhile, is in OrderLifecycle.                           *)
(***************************************************************************)
EXTENDS Integers, FiniteSets, FiniteSetsExt

CONSTANTS
    Post,         \* orders the user submits
    Keyed,        \* those with an Idempotency-Key, each its own
    Refused,      \* those with a disabled market or an invalid side
    Resting,      \* orders of the user that rest at the start
    Delete,       \* the user's cancellations
    Target,       \* the order each of them is about
    Fee,          \* remaining * price * cancel_fee_rate, of each resting order
    Funds,        \* what the user has of the fee asset at the start
    MAX_RETRIES,  \* how often apiFetch calls again
    maxRetries,   \* how often the gateway sends again
    Cases         \* bound: operations that are asked for side by side, the
                  \* connections that may break, and the statements and
                  \* publishes that may fail meanwhile

ASSUME RequestsAssumption ==
    /\ Keyed \subseteq Post /\ Refused \subseteq Post
    /\ Post \cap Delete = {}
    /\ Target \in [Delete -> Resting]
    /\ Fee \in [Resting -> Nat] /\ IsFiniteSet(Resting)
    /\ Cases \subseteq [ops : SUBSET (Post \cup Delete), drops : Nat, failures : Nat]
    /\ {Funds, MAX_RETRIES, maxRetries} \subseteq Nat

Op == Post \cup Delete
\* The API's handling of one request it received: for which operation, the
\* browser's call and the gateway's attempt.
Job == [op : Op, call : 0..MAX_RETRIES, try : 0..maxRetries]
NoAnswer == [code |-> "none"]

\* A new order is named by the request that inserts it: its id is its own.
ASSUME IdsAssumption == Resting \cap Job = {}

VARIABLES
    client,     \* per operation: the page's state, its call, what it was told
    jobs,       \* the requests the API is at work on: how far, what each read
    rows,       \* the orders inserted, by the job whose insert it was
    orders,     \* the resting orders: open, fee charged, who cancelled it
    balance,    \* the user's available balance
    published,  \* how often each order's event is in the topic
    lost,       \* history: orders written whose event nobody publishes any more
    unheard,    \* history: orders of which a write to Kafka arrived unanswered
    overlapped, \* history: a fee was taken after another's balance was read
    broken,     \* history: a connection broke
    drops,      \* the connections that may still break
    failures    \* the statements and publishes that may still fail

store == <<rows, orders, balance>>
history == <<lost, unheard, overlapped, broken>>
vars == <<client, jobs, store, published, history, drops, failures>>

Init ==
    /\ \E c \in Cases :
        /\ client = [op \in c.ops |-> [status |-> "idle", call |-> 0, answer |-> NoAnswer]]
        /\ drops = c.drops /\ failures = c.failures
    /\ jobs = <<>>
    /\ rows = {}
    /\ orders = [o \in Resting |-> [open |-> TRUE, charged |-> 0, by |-> {}]]
    /\ balance = Funds
    /\ published = <<>>
    /\ lost = {} /\ unheard = {}
    /\ overlapped = FALSE /\ broken = FALSE
-----------------------------------------------------------------------------
(* The browser and the gateway *)

Breaks == drops > 0 /\ drops' = drops - 1 /\ broken' = TRUE
Fails == failures > 0 /\ failures' = failures - 1

With(f, k, v) == [i \in DOMAIN f \cup {k} |-> IF i = k THEN v ELSE f[i]]

\* The API's jobs with a new one.
Arrives(js, op, call, try) ==
    With(js, [op |-> op, call |-> call, try |-> try],
         [state |-> "asked", heard |-> TRUE, available |-> 0, answer |-> NoAnswer])

Waits(op) == op \in DOMAIN client /\ client[op].status = "waiting"

\* The gateway waits for the answer to j, and the browser for that of its call.
\* Nobody sees what the API does for the others, and their context may be
\* cancelled at any time.
Attended(j) ==
    /\ jobs[j].heard
    /\ Waits(j.op) /\ client[j.op].call = j.call

Ends(j) == jobs' = [i \in DOMAIN jobs \ {j} |-> jobs[i]]

Told(op, a) == client' = [client EXCEPT ![op].status = "told", ![op].answer = a]

\* The page submits the form or cancels the order: once, its button is
\* disabled meanwhile.
Submit(op) ==
    /\ client[op].status = "idle"
    /\ client' = [client EXCEPT ![op].status = "waiting"]
    /\ jobs' = Arrives(jobs, op, 0, 0)
    /\ UNCHANGED <<store, published, history, drops, failures>>

\* Seeded fault for apiFetch: the loop ends without throwing the last error.
apiFetchEndsSilently(op) ==
    /\ Waits(op) /\ client[op].call < MAX_RETRIES
    /\ Breaks
    /\ client' = [client EXCEPT ![op].call = @ + 1]
    /\ jobs' = IF client[op].call + 1 = MAX_RETRIES THEN jobs
               ELSE Arrives(jobs, op, client[op].call + 1, 0)
    /\ UNCHANGED <<store, published, lost, unheard, overlapped, failures>>

\* The connection of browser and gateway breaks: the browser calls again,
\* whatever the method.  A call that never arrived is one whose job is
\* abandoned at once.
apiFetch(op) ==
    /\ Waits(op)
    /\ Breaks
    /\ IF client[op].call < MAX_RETRIES
       THEN /\ client' = [client EXCEPT ![op].call = @ + 1]
            /\ jobs' = Arrives(jobs, op, client[op].call + 1, 0)
       ELSE Told(op, [code |-> "network error"]) /\ UNCHANGED jobs
    /\ UNCHANGED <<store, published, lost, unheard, overlapped, failures>>

\* Seeded fault for AttemptsLeft: one too many.
OneAttemptTooMany(j) == j.try <= maxRetries

AttemptsLeft(j) == j.try < maxRetries

\* The connection of gateway and API breaks.  A network error is retried,
\* whatever the method; any other error, and the last, is answered with 502.
\* A gateway whose browser has gone may not have noticed.
RoundTrip(j) ==
    /\ jobs[j].heard
    /\ Breaks
    /\ LET Deaf == [jobs EXCEPT ![j].heard = FALSE]
       IN  \/ /\ AttemptsLeft(j)
              /\ jobs' = Arrives(Deaf, j.op, j.call, j.try + 1)
              /\ UNCHANGED client
           \/ /\ jobs' = Deaf
              /\ IF Attended(j) THEN Told(j.op, [code |-> "bad gateway"])
                 ELSE UNCHANGED client
    /\ UNCHANGED <<store, published, lost, unheard, overlapped, failures>>

\* The answer, a 5xx included, goes back as it is.
Respond(j) ==
    /\ jobs[j].state = "answered"
    /\ Ends(j)
    /\ IF Attended(j) THEN Told(j.op, jobs[j].answer) ELSE UNCHANGED client
    /\ UNCHANGED <<store, published, history, drops, failures>>
-----------------------------------------------------------------------------
(* The API and the stored functions *)

At(j, state) == j \in DOMAIN jobs /\ jobs[j].state = state

\* j goes on from a state, with what it is going to answer.
Goes(j, state, a) == jobs' = [jobs EXCEPT ![j].state = state, ![j].answer = a]
Answers(j, code) == Goes(j, "answered", [code |-> code])
Has(o) == [code |-> "ok", order |-> o]

\* Seeded fault for Existing: the key is never found.
ExistingNone(j) == {i \in rows : FALSE}

\* The row with j's idempotency key, in a set of at most one.
Existing(j) == {i \in rows : i.op = j.op /\ j.op \in Keyed}

\* Seeded fault for Duplicate: it is taken for a new order.
DuplicateIsNew(j) == \E i \in Existing(j) : Goes(j, "written", Has(i))

\* Seeded fault for Duplicate: the id generated for it is the answer.
DuplicateOwnId(j) == Goes(j, "answered", Has(j))

\* is_duplicate: the order that is there, without another event.
Duplicate(j) == \E i \in Existing(j) : Goes(j, "answered", Has(i))

\* A new row is to be announced.
Inserted(j) == Goes(j, "written", Has(j))

\* CreateLimitOrder up to the insert: the market, the side, the look at the key.
CheckKey(j) ==
    /\ At(j, "asked") /\ j.op \in Post
    /\ IF j.op \in Refused THEN Answers(j, "refused")
       ELSE IF Existing(j) # {} THEN Duplicate(j)
       ELSE Goes(j, "checked", NoAnswer)
    /\ UNCHANGED <<client, store, published, history, drops, failures>>

\* The insert, or the row that was there first.  An empty key is stored as
\* NULL, and the unique index takes any number of those.
Insert(j) ==
    /\ At(j, "checked") /\ j.op \in Post
    /\ IF Existing(j) # {} THEN Duplicate(j) /\ UNCHANGED rows
       ELSE rows' = rows \cup {j} /\ Inserted(j)
    /\ UNCHANGED <<client, orders, balance, published, history, drops, failures>>

\* SELECT ... FOR UPDATE waits for whoever has the row.
Locked(o) ==
    \E i \in DOMAIN jobs : i.op \in Delete /\ Target[i.op] = o /\ At(i, "checked")

\* fn_cancel_order locks the order, looks at its status and reads the balance.
ReadOrder(j) ==
    /\ At(j, "asked") /\ j.op \in Delete
    /\ ~ Locked(Target[j.op])
    /\ IF orders[Target[j.op]].open
       THEN jobs' = [jobs EXCEPT ![j].state = "checked", ![j].available = balance]
       ELSE Answers(j, "conflict")
    /\ UNCHANGED <<client, store, published, history, drops, failures>>

\* Seeded fault for FeeOf: the fee has no cap.
FeeUncapped(j) == Fee[Target[j.op]]

\* The fee, capped at the balance as it was read.
FeeOf(j) == Min({Fee[Target[j.op]], jobs[j].available})

\* It comes off whatever the balance is by then.
Deducted(j) == IF FeeOf(j) > 0 THEN balance - FeeOf(j) ELSE balance

\* The two updates, and the commit.
Cancels(j) ==
    /\ balance' = Deducted(j)
    /\ orders' = [orders EXCEPT ![Target[j.op]] =
                    [open |-> FALSE, charged |-> FeeOf(j), by |-> @.by \cup {j}]]
    /\ overlapped' = (overlapped \/
            \E i \in DOMAIN jobs \ {j} : i.op \in Delete /\ At(i, "checked"))

CancelRow(j) ==
    /\ At(j, "checked") /\ j.op \in Delete
    /\ Cancels(j)
    /\ Goes(j, "written", Has(Target[j.op]))
    /\ UNCHANGED <<client, rows, published, lost, unheard, broken, drops, failures>>

\* A statement or the commit fails, and with it the function: a 500, which is
\* not retried.
StatementFails(j) ==
    /\ At(j, "asked") \/ At(j, "checked")
    /\ Fails
    /\ Answers(j, "error")
    /\ UNCHANGED <<client, store, published, history, drops>>

\* What a request writes of.
Made(j) == IF j.op \in Post THEN j ELSE Target[j.op]

\* The function commits and its answer is lost: to CreateAtomic and Delete an
\* error like any other, which is answered 500 and announced by nobody.
CommitUnheard(j) ==
    /\ At(j, "checked")
    /\ Fails
    /\ IF j.op \in Post
       THEN Existing(j) = {} /\ rows' = rows \cup {j} /\ UNCHANGED <<orders, balance, overlapped>>
       ELSE Cancels(j) /\ UNCHANGED rows
    /\ lost' = lost \cup {Made(j)}
    /\ Answers(j, "error")
    /\ UNCHANGED <<client, published, unheard, broken, drops>>

Announced(o) == IF o \in DOMAIN published THEN published[o] ELSE 0

\* orders.created or orders.cancelled is written once more.
Writes(j) ==
    LET o == jobs[j].answer.order
    IN  published' = With(published, o, Announced(o) + 1)

\* The event is written and the broker's answer is not: writeJSON, or the
\* Kafka writer under it, will write it again, unless the retries are used up,
\* the breaker opens or the context ends first (PublishFails, Abandon).
WriteUnheard(j) ==
    /\ At(j, "written")
    /\ Fails
    /\ Writes(j)
    /\ unheard' = unheard \cup {jobs[j].answer.order}
    /\ UNCHANGED <<client, jobs, store, lost, overlapped, broken, drops>>

Publish(j) ==
    /\ At(j, "written")
    /\ Writes(j)
    /\ Goes(j, "answered", jobs[j].answer)
    /\ UNCHANGED <<client, store, history, drops, failures>>

\* An error of the producer is logged, and the answer is the same.  Whether an
\* earlier try arrived the producer does not know.
PublishFails(j) ==
    /\ At(j, "written")
    /\ Fails
    /\ lost' = lost \cup {jobs[j].answer.order}
    /\ Goes(j, "answered", jobs[j].answer)
    /\ UNCHANGED <<client, store, published, unheard, overlapped, broken, drops>>

\* Nobody waits and the context is cancelled, or the API stops: what is not
\* committed is undone, and what is not written to Kafka never will be.
Abandon(j) ==
    /\ ~ Attended(j)
    /\ Ends(j)
    /\ lost' = IF At(j, "written") THEN lost \cup {jobs[j].answer.order} ELSE lost
    /\ UNCHANGED <<client, store, published, unheard, overlapped, broken, drops, failures>>
-----------------------------------------------------------------------------

Serve(j) ==
    \/ CheckKey(j) \/ Insert(j) \/ ReadOrder(j) \/ CancelRow(j)
    \/ Publish(j) \/ Respond(j)

Next ==
    \/ \E op \in DOMAIN client : Submit(op) \/ apiFetch(op)
    \/ \E j \in DOMAIN jobs :
        \/ Serve(j) \/ RoundTrip(j) \/ Abandon(j)
        \/ StatementFails(j) \/ CommitUnheard(j) \/ WriteUnheard(j) \/ PublishFails(j)

Spec == Init /\ [][Next]_vars
-----------------------------------------------------------------------------
Answer ==
    [code : {"none", "ok", "refused", "conflict", "error", "bad gateway", "network error"}]
    \cup [code : {"ok"}, order : Job \cup Resting]

ClientRecord ==
    [status : {"idle", "waiting", "told"}, call : 0..MAX_RETRIES, answer : Answer]
JobRecord ==
    [state : {"asked", "checked", "written", "answered"},
     heard : BOOLEAN, available : Int, answer : Answer]
OrderRecord == [open : BOOLEAN, charged : Int, by : SUBSET Job]

TypeOK ==
    /\ DOMAIN client \subseteq Op /\ client \in [DOMAIN client -> ClientRecord]
    /\ DOMAIN jobs \subseteq Job /\ jobs \in [DOMAIN jobs -> JobRecord]
    /\ rows \subseteq {j \in Job : j.op \in Post \ Refused}
    /\ orders \in [Resting -> OrderRecord]
    /\ \A o \in Resting : orders[o].open <=> orders[o].by = {}
    /\ balance \in Int
    /\ DOMAIN published \subseteq rows \cup Resting
    /\ published \in [DOMAIN published -> Nat]
    /\ lost \subseteq rows \cup Resting /\ unheard \subseteq rows \cup Resting
    /\ overlapped \in BOOLEAN /\ broken \in BOOLEAN
    /\ drops \in Nat /\ failures \in Nat

\* However often the browser and the gateway send it, an order with a key is
\* inserted once, and one without a key twice only if a connection broke
\* (README.md:371-383, stored_procedures.sql:511).
OneRowPerKey ==
    \A op \in Post :
        \/ Cardinality({j \in rows : j.op = op}) <= 1
        \/ op \notin Keyed /\ broken

\* What the page is told is so: an accepted order is in the table under the
\* page's own key; a cancellation that succeeded was this one's; and one
\* refused as closed met another's, or its own after a connection broke, when
\* the request had reached the upstream after all (reverse.go:37-39).
AnswerIsTrue(op, a) ==
    a.code \in {"ok", "conflict"} =>
        LET mine(o) == {j \in orders[o].by : j.op = op}
        IN  IF op \in Post
            THEN a.code = "ok" /\ a.order \in rows /\ a.order.op = op
            ELSE IF a.code = "ok" THEN a.order = Target[op] /\ mine(a.order) # {}
            ELSE /\ ~ orders[Target[op]].open
                 /\ mine(Target[op]) # {} => broken

AnswersAreTrue == \A op \in DOMAIN client : AnswerIsTrue(op, client[op].answer)

\* No event is about an order that is not in the table as the event says, and
\* none is in the topic twice but one that was written again because the
\* broker's answer was lost, however many requests found the order written.
\* Once nobody is at work, exactly those orders are not announced whose publish
\* failed, whose client had gone or whose commit was not heard of before any
\* write of the event arrived (order_service.go:74-91, 112-120,
\* producer.go:98-131).  Nothing ever makes up for those.
AnnouncedUnlessLost ==
    /\ \A o \in DOMAIN published :
        /\ published[o] > 1 => o \in unheard
        /\ o \in rows \/ (o \in Resting /\ ~ orders[o].open)
    /\ DOMAIN jobs = {} =>
        \A o \in rows \cup {r \in Resting : ~ orders[r].open} :
            Announced(o) = 0 <=> o \in lost \ unheard

\* One cancellation per order, and fees that add up to what left the balance,
\* however the cancellations overlap; and "Fee is capped at the user's available
\* balance (never goes negative)": so it is, as are the fees themselves, until
\* two cancellations of the user overlap (stored_procedures.sql:156, 205-227).
CancelledOnce == \A o \in Resting : Cardinality(orders[o].by) <= 1

NegativeOnlyByOverlap ==
    (balance < 0 \/ \E o \in Resting : orders[o].charged < 0) => overlapped

FeesAddUp ==
    /\ CancelledOnce /\ NegativeOnlyByOverlap
    /\ balance = Funds - MapThenSumSet(LAMBDA o : Max({0, orders[o].charged}), Resting)

\* No page waits for nothing: as long as it waits, the API has a request whose
\* answer the gateway and the page will take (reverse.go:126-167, api.ts:44-74).
EveryPageIsServed ==
    \A op \in Op : Waits(op) => \E j \in DOMAIN jobs : j.op = op /\ Attended(j)
=============================================================================
