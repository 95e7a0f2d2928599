-------------------------- MODULE OrderRequestsProofs --------------------------
(***************************************************************************)
(* Proofs about OrderRequests.tla, for any operations, fees, funds and      *)
(* retries, and however many connections, statements and publishes fail.    *)
(***************************************************************************)
EXTENDS OrderRequests, DataTheorems, FiniteSetTheorems, TLAPS

-----------------------------------------------------------------------------
(* The inductive invariant.                                                 *)

\* The requests that have left a trace.
Known == DOMAIN jobs \cup rows \cup UNION {orders[o].by : o \in Resting}

\* No request comes twice: each is of a call its page has made, and the one the
\* gateway waits for is the last it has sent of that call.
KeysAreFresh ==
    /\ \A k \in Known : /\ k.op \in DOMAIN client /\ client[k.op].status # "idle"
                        /\ k.call <= client[k.op].call
                        /\ broken \/ (k.call = 0 /\ k.try = 0)
    /\ \A j \in DOMAIN jobs : \A k \in Known :
        jobs[j].heard /\ k.op = j.op /\ k.call = j.call => k.try <= j.try
    /\ \A op \in DOMAIN client :
        (client[op].status = "idle" \/ ~ broken) => client[op].call = 0

\* What a request at work has done so far, by its state.
JobIsSound(j) ==
    /\ (At(j, "asked") \/ At(j, "checked")) =>
        j \notin rows /\ \A o \in Resting : j \notin orders[o].by
    /\ At(j, "checked") =>
        IF j.op \in Post THEN j.op \notin Refused
        ELSE /\ orders[Target[j.op]].open
             /\ \A i \in DOMAIN jobs : At(i, "checked") /\ i.op \in Delete
                                      /\ Target[i.op] = Target[j.op] => i = j
    /\ At(j, "written") =>
        /\ jobs[j].answer = Has(Made(j))
        /\ Made(j) \notin lost /\ (Made(j) \in DOMAIN published => Made(j) \in unheard)
        /\ IF j.op \in Post THEN j \in rows ELSE orders[Target[j.op]].by = {j}
    /\ At(j, "answered") => AnswerIsTrue(j.op, jobs[j].answer)

JobsAreSound == \A j \in DOMAIN jobs : JobIsSound(j)

RowsAreSound ==
    /\ \A i, j \in rows : i.op = j.op /\ i.op \in Keyed => i = j
    /\ \A o \in Resting : \A i, j \in orders[o].by : i = j
    /\ \A o \in Resting : \A j \in orders[o].by : j.op \in Delete /\ Target[j.op] = o

\* Everything there is to announce.
Changed == rows \cup {o \in Resting : ~ orders[o].open}

\* An event of which every write was heard is in the topic once, and its order
\* is not lost.
EventsAreSound ==
    /\ unheard \subseteq DOMAIN published /\ DOMAIN published \cap lost \subseteq unheard
    /\ DOMAIN published \cup lost \subseteq Changed
    /\ \A o \in DOMAIN published :
        published[o] >= 1 /\ (published[o] > 1 => o \in unheard)
    /\ \A o \in Changed : \/ o \in DOMAIN published \cup lost
                          \/ \E j \in DOMAIN jobs : At(j, "written") /\ Made(j) = o

\* As long as no fee was taken behind its back, a cancellation under way has
\* read the balance as it is.
BalanceAsRead ==
    ~ overlapped =>
        /\ balance >= 0 /\ \A o \in Resting : orders[o].charged >= 0
        /\ \A j \in DOMAIN jobs :
            j.op \in Delete /\ At(j, "checked") => jobs[j].available = balance

IInv ==
    /\ TypeOK /\ KeysAreFresh /\ JobsAreSound /\ RowsAreSound /\ EventsAreSound
    /\ BalanceAsRead /\ AnswersAreTrue /\ EveryPageIsServed

-----------------------------------------------------------------------------
(* The operators of the model.                                              *)

LEMMA WithFacts ==
    ASSUME NEW f, NEW k, NEW v
    PROVE  /\ DOMAIN With(f, k, v) = DOMAIN f \cup {k}
           /\ With(f, k, v)[k] = v
           /\ \A i \in DOMAIN f \ {k} : With(f, k, v)[i] = f[i]
  BY DEF With

LEMMA MinFacts ==
    ASSUME NEW a \in Int, NEW b \in Int
    PROVE  Min({a, b}) \in {a, b} /\ Min({a, b}) <= a /\ Min({a, b}) <= b
<1>1. \E x \in {a, b} : \A y \in {a, b} : x <= y
  OBVIOUS
<1> QED
  BY <1>1 DEF Min

LEMMA OpFacts ==
    /\ \A op \in Op : op \in Delete <=> op \notin Post
    /\ \A op \in Delete : Target[op] \in Resting
    /\ \A o \in Resting : o \notin Job /\ Fee[o] \in Nat
    /\ Funds \in Nat /\ MAX_RETRIES \in Nat /\ maxRetries \in Nat
  BY RequestsAssumption, IdsAssumption DEF Op

LEMMA JobFacts ==
    /\ \A j \in Job : j.op \in Op /\ j.call \in 0..MAX_RETRIES /\ j.try \in 0..maxRetries
    /\ \A i, j \in Job : i.op = j.op /\ i.call = j.call /\ i.try = j.try => i = j
    /\ \A op \in Op, call \in 0..MAX_RETRIES, try \in 0..maxRetries :
        [op |-> op, call |-> call, try |-> try] \in Job
  BY DEF Job

LEMMA AnswerFacts ==
    /\ NoAnswer \in Answer
    /\ \A code \in {"none", "ok", "refused", "conflict", "error", "bad gateway",
                    "network error"} : [code |-> code] \in Answer
    /\ \A o \in Job \cup Resting : /\ Has(o) \in Answer /\ Has(o).code = "ok"
                                   /\ Has(o).order = o
  BY DEF Answer, NoAnswer, Has

\* What every action finds.
LEMMA StateFacts ==
    ASSUME TypeOK
    PROVE  /\ \A j \in DOMAIN jobs : /\ j \in Job /\ j.op \in Op
                                     /\ jobs[j] \in JobRecord /\ jobs[j].answer \in Answer
           /\ \A op \in DOMAIN client : op \in Op /\ client[op] \in ClientRecord
           /\ \A o \in Resting : orders[o] \in OrderRecord /\ orders[o].by \subseteq Job
  BY JobFacts DEF TypeOK, JobRecord, OrderRecord

LEMMA GoesFacts ==
    ASSUME TypeOK, NEW j \in DOMAIN jobs,
           NEW state \in {"asked", "checked", "written", "answered"}, NEW a \in Answer,
           Goes(j, state, a)
    PROVE  /\ DOMAIN jobs' = DOMAIN jobs /\ jobs' \in [DOMAIN jobs -> JobRecord]
           /\ \A i \in DOMAIN jobs \ {j} : jobs'[i] = jobs[i]
           /\ jobs'[j].state = state /\ jobs'[j].answer = a
           /\ jobs'[j].heard = jobs[j].heard /\ jobs'[j].available = jobs[j].available
<1>1. jobs \in [DOMAIN jobs -> JobRecord]
  BY DEF TypeOK
<1>2. jobs' = [jobs EXCEPT ![j].state = state, ![j].answer = a]
  BY DEF Goes
<1> QED
  BY <1>1, <1>2 DEF JobRecord

LEMMA EndsFacts ==
    ASSUME TypeOK, NEW j \in DOMAIN jobs, Ends(j)
    PROVE  /\ DOMAIN jobs' = DOMAIN jobs \ {j} /\ jobs' \in [DOMAIN jobs' -> JobRecord]
           /\ \A i \in DOMAIN jobs \ {j} : jobs'[i] = jobs[i]
  BY DEF TypeOK, Ends

LEMMA ToldFacts ==
    ASSUME TypeOK, NEW op \in DOMAIN client, NEW a \in Answer, Told(op, a)
    PROVE  /\ DOMAIN client' = DOMAIN client /\ client' \in [DOMAIN client -> ClientRecord]
           /\ \A o \in DOMAIN client \ {op} : client'[o] = client[o]
           /\ client'[op].status = "told" /\ client'[op].answer = a
           /\ client'[op].call = client[op].call
<1>1. client \in [DOMAIN client -> ClientRecord]
  BY DEF TypeOK
<1>2. client' = [client EXCEPT ![op].status = "told", ![op].answer = a]
  BY DEF Told
<1> QED
  BY <1>1, <1>2 DEF ClientRecord

LEMMA ArrivesFacts ==
    ASSUME NEW js, DOMAIN js \subseteq Job, js \in [DOMAIN js -> JobRecord],
           NEW op \in Op, NEW call \in 0..MAX_RETRIES, NEW try \in 0..maxRetries,
           jobs' = Arrives(js, op, call, try)
    PROVE  LET n == [op |-> op, call |-> call, try |-> try]
           IN  /\ n \in Job /\ n.op = op /\ n.call = call /\ n.try = try
               /\ DOMAIN jobs' = DOMAIN js \cup {n} /\ jobs' \in [DOMAIN jobs' -> JobRecord]
               /\ \A i \in DOMAIN js \ {n} : jobs'[i] = js[i]
               /\ jobs'[n].state = "asked" /\ jobs'[n].heard
<1> DEFINE n == [op |-> op, call |-> call, try |-> try]
           new == [state |-> "asked", heard |-> TRUE, available |-> 0, answer |-> NoAnswer]
<1>1. n \in Job /\ n.op = op /\ n.call = call /\ n.try = try
  BY JobFacts
<1>2. new \in JobRecord /\ new.state = "asked" /\ new.heard
  <2>1. NoAnswer \in Answer
    BY AnswerFacts
  <2> HIDE DEF NoAnswer
  <2>2. new \in JobRecord
    BY <2>1 DEF JobRecord
  <2> QED
    BY <2>2
<1>3. jobs' = With(js, n, new)
  BY DEF Arrives
<1> HIDE DEF n, new
<1>4. /\ DOMAIN jobs' = DOMAIN js \cup {n} /\ jobs'[n] = new
      /\ \A i \in DOMAIN js \ {n} : jobs'[i] = js[i]
  BY <1>3 DEF With
<1>5. jobs' \in [DOMAIN jobs' -> JobRecord]
  BY <1>2, <1>3, <1>4 DEF With
<1> QED
  BY <1>1, <1>2, <1>4, <1>5 DEF n, new

-----------------------------------------------------------------------------
(* The parts of the invariant that most steps leave alone.                  *)

LEMMA KnownFacts ==
    \A k : k \in Known <=> \/ k \in DOMAIN jobs \/ k \in rows
                          \/ \E o \in Resting : k \in orders[o].by
  BY DEF Known

\* No request is new.
LEMMA KeysStay ==
    ASSUME TypeOK, KeysAreFresh,
           Known' \subseteq Known, DOMAIN jobs' \subseteq DOMAIN jobs,
           \A j \in DOMAIN jobs' : jobs'[j].heard => jobs[j].heard,
           DOMAIN client' = DOMAIN client,
           \A op \in DOMAIN client :
                /\ client'[op].call = client[op].call
                /\ client'[op].status = "idle" <=> client[op].status = "idle",
           broken => broken'
    PROVE  KeysAreFresh'
  BY DEF KeysAreFresh

\* One is new: n, the last of its call.
LEMMA KeysGrow ==
    ASSUME TypeOK, KeysAreFresh, NEW n \in Job,
           Known' \subseteq Known \cup {n}, DOMAIN jobs' \subseteq DOMAIN jobs \cup {n},
           \A j \in DOMAIN jobs' \ {n} :
                jobs'[j].heard => /\ jobs[j].heard
                                  /\ ~ (j.op = n.op /\ j.call = n.call),
           \A k \in Known : k.op = n.op /\ k.call = n.call => k.try <= n.try,
           DOMAIN client' = DOMAIN client,
           \A op \in DOMAIN client :
                /\ client'[op].call \in Nat /\ client[op].call <= client'[op].call
                /\ client'[op].status = "idle" => client[op].status = "idle"
                /\ (client'[op].status = "idle" \/ ~ broken') => client'[op].call = 0,
           n.op \in DOMAIN client, client'[n.op].status # "idle",
           n.call <= client'[n.op].call,
           broken' \/ (n.call = 0 /\ n.try = 0), broken => broken',
           Known \subseteq Job
    PROVE  KeysAreFresh'
<1>1. \A k \in Job : k.call \in Nat /\ k.try \in Nat
  BY JobFacts, OpFacts
<1>2. \A op \in DOMAIN client : client[op].call \in Nat
  BY StateFacts, OpFacts DEF ClientRecord
<1>3. ASSUME NEW k \in Known'
      PROVE  /\ k.op \in DOMAIN client /\ client'[k.op].status # "idle"
             /\ k.call <= client'[k.op].call
             /\ broken' \/ (k.call = 0 /\ k.try = 0)
  <2>1. CASE k = n
    BY <2>1
  <2>2. CASE k # n
    <3>1. k \in Known /\ k \in Job
      BY <2>2, <1>3
    <3>2. /\ k.op \in DOMAIN client /\ client[k.op].status # "idle"
          /\ k.call <= client[k.op].call
          /\ broken \/ (k.call = 0 /\ k.try = 0)
      BY <3>1 DEF KeysAreFresh
    <3> QED
      BY <3>1, <3>2, <1>1, <1>2
  <2> QED
    BY <2>1, <2>2
<1>4. ASSUME NEW j \in DOMAIN jobs', NEW k \in Known',
             jobs'[j].heard, k.op = j.op, k.call = j.call
      PROVE  k.try <= j.try
  <2>1. CASE j = n
    BY <2>1, <1>1, <1>4
  <2>2. CASE j # n
    <3>1. j \in DOMAIN jobs /\ jobs[j].heard /\ k # n
      BY <2>2, <1>4
    <3> QED
      BY <3>1, <1>4 DEF KeysAreFresh
  <2> QED
    BY <2>1, <2>2
<1> QED
  BY <1>3, <1>4 DEF KeysAreFresh

\* What a page was told, or is going to be, stays so.
LEMMA AnswerStays ==
    ASSUME NEW op \in Op, NEW a, AnswerIsTrue(op, a), rows \subseteq rows',
           \A o \in Resting :
                /\ orders[o].by \subseteq orders'[o].by
                /\ ~ orders[o].open =>
                        ~ orders'[o].open /\ orders'[o].by = orders[o].by,
           broken => broken'
    PROVE  AnswerIsTrue(op, a)'
<1>1. CASE op \in Post
  BY <1>1 DEF AnswerIsTrue
<1>2. CASE op \notin Post
  <2>1. Target[op] \in Resting
    BY <1>2, OpFacts
  <2>2. CASE a.code = "ok"
    <3>1. a.order = Target[op] /\ \E j \in orders[Target[op]].by : j.op = op
      BY <1>2, <2>2 DEF AnswerIsTrue
    <3>2. \E j \in orders'[Target[op]].by : j.op = op
      BY <2>1, <3>1
    <3> QED
      BY <1>2, <2>2, <3>1, <3>2 DEF AnswerIsTrue
  <2>3. CASE a.code = "conflict"
    <3>1. /\ ~ orders[Target[op]].open
          /\ (\E j \in orders[Target[op]].by : j.op = op) => broken
      BY <1>2, <2>3 DEF AnswerIsTrue
    <3>2. /\ ~ orders'[Target[op]].open
          /\ (\E j \in orders'[Target[op]].by : j.op = op) => broken'
      BY <2>1, <3>1
    <3> QED
      BY <1>2, <2>3, <3>2 DEF AnswerIsTrue
  <2> QED
    BY <2>2, <2>3 DEF AnswerIsTrue
<1> QED
  BY <1>1, <1>2

\* A step of the browser or the gateway: what it sends is new, and of the
\* requests it gives up none has written what it has not announced.
LEMMA QuietStep ==
    ASSUME TypeOK, JobsAreSound, RowsAreSound, EventsAreSound, BalanceAsRead,
           TypeOK',
           UNCHANGED <<store, published, lost, unheard, overlapped>>,
           broken => broken',
           \A j \in DOMAIN jobs' :
                \/ /\ j \in DOMAIN jobs
                   /\ jobs'[j].state = jobs[j].state /\ jobs'[j].answer = jobs[j].answer
                   /\ jobs'[j].available = jobs[j].available
                \/ jobs'[j].state = "asked" /\ j \notin Known,
           \A j \in DOMAIN jobs : jobs[j].state = "written" =>
                j \in DOMAIN jobs' /\ jobs'[j].state = "written"
    PROVE  JobsAreSound' /\ RowsAreSound' /\ EventsAreSound' /\ BalanceAsRead'
<1>1. /\ rows' = rows /\ orders' = orders /\ balance' = balance
      /\ published' = published /\ lost' = lost /\ unheard' = unheard
      /\ overlapped' = overlapped
  BY DEF store
<1>2. ASSUME NEW j \in DOMAIN jobs'
      PROVE  JobIsSound(j)'
  <2>1. CASE j \in DOMAIN jobs /\ jobs'[j].state = jobs[j].state
                  /\ jobs'[j].answer = jobs[j].answer
    <3>1. JobIsSound(j)
      BY <2>1 DEF JobsAreSound
    <3>2. \A i \in DOMAIN jobs' : i.op \in Delete /\ At(i, "checked")' => At(i, "checked")
      BY DEF At
    <3>3. At(j, "answered") => AnswerIsTrue(j.op, jobs[j].answer)'
      <4> SUFFICES ASSUME At(j, "answered")
                   PROVE  AnswerIsTrue(j.op, jobs[j].answer)'
        OBVIOUS
      <4>1. AnswerIsTrue(j.op, jobs[j].answer)
        BY <3>1 DEF JobIsSound
      <4> QED
        BY <4>1, <1>1, <2>1 DEF AnswerIsTrue
    <3> QED
      BY <1>1, <2>1, <3>1, <3>2, <3>3 DEF JobIsSound, At
  <2>2. CASE jobs'[j].state = "asked" /\ j \notin Known
    BY <1>1, <2>2, KnownFacts DEF JobIsSound, At
  <2> QED
    BY <1>2, <2>1, <2>2
<1>3. RowsAreSound'
  BY <1>1 DEF RowsAreSound
<1>4. EventsAreSound'
  BY <1>1 DEF EventsAreSound, Changed, At, Made
<1>5. BalanceAsRead'
  BY <1>1 DEF BalanceAsRead, At
<1> QED
  BY <1>2, <1>3, <1>4, <1>5 DEF JobsAreSound

LEMMA PagesKeepAnswers ==
    ASSUME TypeOK, AnswersAreTrue, rows \subseteq rows',
           \A o \in Resting :
                /\ orders[o].by \subseteq orders'[o].by
                /\ ~ orders[o].open =>
                        ~ orders'[o].open /\ orders'[o].by = orders[o].by,
           broken => broken', DOMAIN client' = DOMAIN client,
           \A op \in DOMAIN client :
                \/ client'[op].answer = client[op].answer
                \/ client'[op].answer.code \notin {"ok", "conflict"}
    PROVE  AnswersAreTrue'
<1> SUFFICES ASSUME NEW op \in DOMAIN client
             PROVE  AnswerIsTrue(op, client[op].answer)'
  BY DEF AnswersAreTrue
<1>1. CASE client'[op].answer = client[op].answer
  <2>1. AnswerIsTrue(op, client[op].answer) /\ op \in Op
    BY StateFacts DEF AnswersAreTrue
  <2> DEFINE a == client'[op].answer
  <2>2. AnswerIsTrue(op, a)
    BY <2>1, <1>1
  <2>3. CASE op \in Post
    BY <2>2, <2>3, <1>1 DEF AnswerIsTrue
  <2>4. CASE op \notin Post
    <3>1. Target[op] \in Resting
      BY <2>1, <2>4, OpFacts
    <3> QED
      BY <2>2, <2>4, <3>1, <1>1 DEF AnswerIsTrue
  <2> QED
    BY <2>3, <2>4
<1>2. CASE client'[op].answer.code \notin {"ok", "conflict"}
  BY <1>2 DEF AnswerIsTrue
<1> QED
  BY <1>1, <1>2

LEMMA PagesStayServed ==
    ASSUME EveryPageIsServed,
           \A op \in Op : Waits(op)' =>
                \/ /\ Waits(op) /\ client'[op].call = client[op].call
                   /\ \A j \in DOMAIN jobs :
                        j.op = op /\ j.call = client[op].call /\ jobs[j].heard =>
                            j \in DOMAIN jobs' /\ jobs'[j].heard
                \/ \E j \in DOMAIN jobs' :
                        j.op = op /\ j.call = client'[op].call /\ jobs'[j].heard
    PROVE  EveryPageIsServed'
<1> SUFFICES ASSUME NEW op \in Op, Waits(op)'
             PROVE  \E j \in DOMAIN jobs' : j.op = op /\ Attended(j)'
  BY DEF EveryPageIsServed
<1>1. CASE /\ Waits(op) /\ client'[op].call = client[op].call
           /\ \A j \in DOMAIN jobs :
                j.op = op /\ j.call = client[op].call /\ jobs[j].heard =>
                    j \in DOMAIN jobs' /\ jobs'[j].heard
  <2>1. PICK j \in DOMAIN jobs : j.op = op /\ jobs[j].heard /\ j.call = client[op].call
    BY <1>1 DEF EveryPageIsServed, Attended
  <2> QED
    BY <1>1, <2>1 DEF Attended, Waits
<1> QED
  BY <1>1 DEF Attended, Waits

\* The page is told, if it still waits for j.
LEMMA RepliesFacts ==
    ASSUME TypeOK, NEW j \in DOMAIN jobs, NEW a \in Answer,
           IF Attended(j) THEN Told(j.op, a) ELSE UNCHANGED client
    PROVE  /\ DOMAIN client' = DOMAIN client /\ client' \in [DOMAIN client -> ClientRecord]
           /\ \A o \in DOMAIN client :
               /\ client'[o].call = client[o].call
               /\ \/ client'[o].status = client[o].status
                  \/ client[o].status = "waiting" /\ client'[o].status = "told"
               /\ \/ client'[o].answer = client[o].answer
                  \/ o = j.op /\ client'[o].answer = a
               /\ ~ (o = j.op /\ Attended(j)) => client'[o] = client[o]
               /\ o = j.op /\ Attended(j) => client'[o].status = "told"
<1>1. CASE Attended(j)
  <2>1. Told(j.op, a) /\ j.op \in DOMAIN client /\ client[j.op].status = "waiting"
    BY <1>1 DEF Attended, Waits
  <2> QED
    BY <1>1, <2>1, ToldFacts, SMTT(60)
<1>2. CASE ~ Attended(j)
  BY <1>2 DEF TypeOK
<1> QED
  BY <1>1, <1>2

-----------------------------------------------------------------------------
(* The steps of the browser and the gateway.                                *)

LEMMA SubmitKeepsIInv ==
    ASSUME IInv, NEW op \in DOMAIN client, Submit(op)
    PROVE  IInv'
<1> USE DEF IInv
<1> DEFINE n == [op |-> op, call |-> 0, try |-> 0]
<1>1. /\ client[op].status = "idle" /\ client[op].call = 0 /\ op \in Op
      /\ client \in [DOMAIN client -> ClientRecord]
      /\ client' = [client EXCEPT ![op].status = "waiting"]
      /\ jobs' = Arrives(jobs, op, 0, 0)
      /\ rows' = rows /\ orders' = orders /\ balance' = balance
      /\ published' = published /\ lost' = lost /\ unheard' = unheard
      /\ overlapped' = overlapped
      /\ broken' = broken /\ drops' = drops /\ failures' = failures
  BY StateFacts DEF Submit, store, history, TypeOK, KeysAreFresh
<1>2. /\ DOMAIN client' = DOMAIN client /\ client' \in [DOMAIN client -> ClientRecord]
      /\ \A o \in DOMAIN client \ {op} : client'[o] = client[o]
      /\ client'[op].status = "waiting" /\ client'[op].call = 0
      /\ client'[op].answer = client[op].answer
  BY <1>1 DEF ClientRecord
<1>3. /\ n \in Job /\ n.op = op /\ n.call = 0 /\ n.try = 0
      /\ DOMAIN jobs' = DOMAIN jobs \cup {n} /\ jobs' \in [DOMAIN jobs' -> JobRecord]
      /\ \A i \in DOMAIN jobs \ {n} : jobs'[i] = jobs[i]
      /\ jobs'[n].state = "asked" /\ jobs'[n].heard
  <2>1. DOMAIN jobs \subseteq Job /\ jobs \in [DOMAIN jobs -> JobRecord]
    BY DEF TypeOK
  <2>2. 0 \in 0..MAX_RETRIES /\ 0 \in 0..maxRetries
    BY OpFacts
  <2> QED
    BY <2>1, <2>2, <1>1, ArrivesFacts, SMTT(60)
<1> HIDE DEF n
<1>4. TypeOK'
  BY <1>1, <1>2, <1>3 DEF TypeOK
<1>5. n \notin Known /\ \A k \in Known : k.op # op
  BY <1>1, <1>3 DEF KeysAreFresh
<1>6. Known \subseteq Job
  BY StateFacts, KnownFacts DEF TypeOK
<1>7. KeysAreFresh'
  <2>1. Known' \subseteq Known \cup {n}
    BY <1>1, <1>3 DEF Known
  <2>2. \A o \in DOMAIN client :
            /\ client'[o].call \in Nat /\ client[o].call <= client'[o].call
            /\ client'[o].status = "idle" => client[o].status = "idle"
            /\ (client'[o].status = "idle" \/ ~ broken') => client'[o].call = 0
    <3>1. \A o \in DOMAIN client : client[o].call \in Nat
      BY StateFacts, OpFacts DEF ClientRecord
    <3> QED
      BY <1>1, <1>2, <3>1 DEF KeysAreFresh
  <2>3. \A j \in DOMAIN jobs' \ {n} : jobs'[j].heard =>
            jobs[j].heard /\ ~ (j.op = n.op /\ j.call = n.call)
    BY <1>3, <1>5, KnownFacts
  <2> QED
    BY <1>1, <1>2, <1>3, <1>5, <1>6, <2>1, <2>2, <2>3, KeysGrow
<1>8. JobsAreSound' /\ RowsAreSound' /\ EventsAreSound' /\ BalanceAsRead'
  <2>1. n \notin DOMAIN jobs
    BY <1>5, KnownFacts
  <2>2. UNCHANGED <<store, published, lost, unheard, overlapped>>
    BY <1>1 DEF store
  <2> QED
    BY <1>1, <1>3, <1>4, <1>5, <2>1, <2>2, QuietStep
<1>9. AnswersAreTrue'
  BY <1>1, <1>2, PagesKeepAnswers
<1>10. EveryPageIsServed'
  <2> SUFFICES ASSUME NEW o \in Op, Waits(o)'
               PROVE  \/ /\ Waits(o) /\ client'[o].call = client[o].call
                         /\ \A j \in DOMAIN jobs :
                              j.op = o /\ j.call = client[o].call /\ jobs[j].heard =>
                                  j \in DOMAIN jobs' /\ jobs'[j].heard
                      \/ \E j \in DOMAIN jobs' :
                              j.op = o /\ j.call = client'[o].call /\ jobs'[j].heard
    BY PagesStayServed
  <2>1. CASE o = op
    BY <2>1, <1>2, <1>3
  <2>2. CASE o # op
    BY <2>2, <1>2, <1>3 DEF Waits
  <2> QED
    BY <2>1, <2>2
<1> QED
  BY <1>4, <1>7, <1>8, <1>9, <1>10

LEMMA ApiFetchKeepsIInv ==
    ASSUME IInv, NEW op \in DOMAIN client, apiFetch(op)
    PROVE  IInv'
<1> USE DEF IInv
<1>1. /\ client[op].status = "waiting" /\ op \in Op
      /\ client \in [DOMAIN client -> ClientRecord]
      /\ rows' = rows /\ orders' = orders /\ balance' = balance
      /\ published' = published /\ lost' = lost /\ unheard' = unheard
      /\ overlapped' = overlapped
      /\ broken' = TRUE /\ drops' \in Nat /\ failures' = failures
  <2>1. op \in Op /\ client \in [DOMAIN client -> ClientRecord] /\ drops \in Nat
    BY StateFacts DEF TypeOK
  <2>2. Waits(op) /\ Breaks /\ UNCHANGED <<store, published, lost, unheard, overlapped, failures>>
    BY DEF apiFetch
  <2> QED
    BY <2>1, <2>2 DEF Breaks, Waits, store
<1>2. UNCHANGED <<store, published, lost, unheard, overlapped>>
  BY <1>1 DEF store
<1>3. Known \subseteq Job
  BY StateFacts, KnownFacts DEF TypeOK
<1>4. \A o \in DOMAIN client : client[o].call \in Nat
  BY StateFacts, OpFacts DEF ClientRecord
<1>5. CASE client[op].call < MAX_RETRIES
  <2> DEFINE call == client[op].call + 1
             n == [op |-> op, call |-> call, try |-> 0]
  <2>1. call \in 0..MAX_RETRIES
    BY <1>4, <1>5, OpFacts
  <2>2. /\ client' = [client EXCEPT ![op].call = call]
        /\ jobs' = Arrives(jobs, op, call, 0)
    BY <1>5 DEF apiFetch
  <2> HIDE DEF call
  <2>3. /\ DOMAIN client' = DOMAIN client /\ client' \in [DOMAIN client -> ClientRecord]
        /\ \A o \in DOMAIN client \ {op} : client'[o] = client[o]
        /\ client'[op].status = "waiting" /\ client'[op].call = call
        /\ client'[op].answer = client[op].answer
    BY <1>1, <2>1, <2>2 DEF ClientRecord
  <2>4. /\ n \in Job /\ n.op = op /\ n.call = call /\ n.try = 0
        /\ DOMAIN jobs' = DOMAIN jobs \cup {n} /\ jobs' \in [DOMAIN jobs' -> JobRecord]
        /\ \A i \in DOMAIN jobs \ {n} : jobs'[i] = jobs[i]
        /\ jobs'[n].state = "asked" /\ jobs'[n].heard
    <3>1. DOMAIN jobs \subseteq Job /\ jobs \in [DOMAIN jobs -> JobRecord] /\ op \in Op
      BY <1>1 DEF TypeOK
    <3>2. 0 \in 0..maxRetries
      BY OpFacts
    <3> QED
      BY <2>1, <2>2, <3>1, <3>2, ArrivesFacts, SMTT(60)
  <2> HIDE DEF n
  <2>5. TypeOK'
    BY <1>1, <2>3, <2>4 DEF TypeOK
  <2>6. \A k \in Known : ~ (k.op = n.op /\ k.call = n.call)
    <3>1. \A k \in Known : k.op = op => k.call <= client[op].call /\ k.call \in Nat
      BY <1>3, JobFacts, OpFacts DEF KeysAreFresh
    <3> QED
      BY <1>4, <2>4, <3>1 DEF call
  <2>7. n \notin Known
    BY <2>6
  <2>8. KeysAreFresh'
    <3>1. Known' \subseteq Known \cup {n}
      BY <1>1, <2>4 DEF Known
    <3>2. \A o \in DOMAIN client :
              /\ client'[o].call \in Nat /\ client[o].call <= client'[o].call
              /\ client'[o].status = "idle" => client[o].status = "idle"
              /\ (client'[o].status = "idle" \/ ~ broken') => client'[o].call = 0
      BY <1>1, <1>4, <2>3 DEF KeysAreFresh, call
    <3>3. \A j \in DOMAIN jobs' \ {n} : jobs'[j].heard =>
              jobs[j].heard /\ ~ (j.op = n.op /\ j.call = n.call)
      BY <2>4, <2>6, KnownFacts
    <3>4. n.call <= client'[n.op].call
      BY <2>1, <2>3, <2>4
    <3> QED
      BY <1>1, <1>3, <2>3, <2>4, <2>6, <3>1, <3>2, <3>3, <3>4, KeysGrow
  <2>9. JobsAreSound' /\ RowsAreSound' /\ EventsAreSound' /\ BalanceAsRead'
    <3>1. n \notin DOMAIN jobs
      BY <2>7, KnownFacts
    <3> QED
      BY <1>1, <1>2, <2>4, <2>5, <2>7, <3>1, QuietStep
  <2>10. AnswersAreTrue'
    BY <1>1, <2>3, PagesKeepAnswers
  <2>11. EveryPageIsServed'
    <3> SUFFICES ASSUME NEW o \in Op, Waits(o)'
                 PROVE  \/ /\ Waits(o) /\ client'[o].call = client[o].call
                           /\ \A j \in DOMAIN jobs :
                                j.op = o /\ j.call = client[o].call /\ jobs[j].heard =>
                                    j \in DOMAIN jobs' /\ jobs'[j].heard
                        \/ \E j \in DOMAIN jobs' :
                                j.op = o /\ j.call = client'[o].call /\ jobs'[j].heard
      BY PagesStayServed
    <3>1. CASE o = op
      BY <2>3, <2>4, <3>1
    <3>2. CASE o # op
      BY <2>3, <2>4, <3>2 DEF Waits
    <3> QED
      BY <3>1, <3>2
  <2> QED
    BY <2>5, <2>8, <2>9, <2>10, <2>11
<1>6. CASE ~ (client[op].call < MAX_RETRIES)
  <2> DEFINE a == [code |-> "network error"]
  <2>1. a \in Answer /\ a.code \notin {"ok", "conflict"}
    BY AnswerFacts
  <2>2. Told(op, a) /\ jobs' = jobs
    BY <1>6 DEF apiFetch
  <2> HIDE DEF a
  <2>3. /\ DOMAIN client' = DOMAIN client /\ client' \in [DOMAIN client -> ClientRecord]
        /\ \A o \in DOMAIN client \ {op} : client'[o] = client[o]
        /\ client'[op].status = "told" /\ client'[op].answer = a
        /\ client'[op].call = client[op].call
    BY <2>1, <2>2, ToldFacts
  <2>4. TypeOK'
    BY <1>1, <2>2, <2>3 DEF TypeOK
  <2>5. KeysAreFresh'
    <3>1. Known' = Known
      BY <1>1, <2>2 DEF Known
    <3> QED
      BY <1>1, <2>2, <2>3, <3>1, KeysStay
  <2>6. JobsAreSound' /\ RowsAreSound' /\ EventsAreSound' /\ BalanceAsRead'
    BY <1>1, <1>2, <2>2, <2>4, QuietStep
  <2>7. AnswersAreTrue'
    BY <1>1, <2>1, <2>3, PagesKeepAnswers
  <2>8. EveryPageIsServed'
    BY <2>2, <2>3, PagesStayServed DEF Waits
  <2> QED
    BY <2>4, <2>5, <2>6, <2>7, <2>8
<1> QED
  BY <1>5, <1>6

LEMMA RoundTripKeepsIInv ==
    ASSUME IInv, NEW j \in DOMAIN jobs, RoundTrip(j)
    PROVE  IInv'
<1> USE DEF IInv
<1> DEFINE Deaf == [jobs EXCEPT ![j].heard = FALSE]
<1>1. /\ jobs[j].heard /\ j \in Job /\ j.op \in Op
      /\ client \in [DOMAIN client -> ClientRecord]
      /\ rows' = rows /\ orders' = orders /\ balance' = balance
      /\ published' = published /\ lost' = lost /\ unheard' = unheard
      /\ overlapped' = overlapped
      /\ broken' = TRUE /\ drops' \in Nat /\ failures' = failures
  <2>1. j \in Job /\ j.op \in Op /\ client \in [DOMAIN client -> ClientRecord] /\ drops \in Nat
    BY StateFacts DEF TypeOK
  <2>2. /\ jobs[j].heard /\ Breaks
        /\ UNCHANGED <<store, published, lost, unheard, overlapped, failures>>
    BY DEF RoundTrip
  <2> QED
    BY <2>1, <2>2 DEF Breaks, store
<1>2. UNCHANGED <<store, published, lost, unheard, overlapped>>
  BY <1>1 DEF store
<1>3. Known \subseteq Job
  BY StateFacts, KnownFacts DEF TypeOK
<1>4. /\ DOMAIN Deaf = DOMAIN jobs /\ Deaf \in [DOMAIN jobs -> JobRecord]
      /\ \A i \in DOMAIN jobs \ {j} : Deaf[i] = jobs[i]
      /\ Deaf[j].heard = FALSE /\ Deaf[j].state = jobs[j].state
      /\ Deaf[j].answer = jobs[j].answer /\ Deaf[j].available = jobs[j].available
  <2>1. jobs \in [DOMAIN jobs -> JobRecord]
    BY DEF TypeOK
  <2> QED
    BY <2>1 DEF JobRecord
<1>5. \/ /\ AttemptsLeft(j) /\ UNCHANGED client
         /\ jobs' = Arrives(Deaf, j.op, j.call, j.try + 1)
      \/ /\ jobs' = Deaf
         /\ IF Attended(j) THEN Told(j.op, [code |-> "bad gateway"])
            ELSE UNCHANGED client
  BY DEF RoundTrip
<1> HIDE DEF Deaf
\* Nobody but j was waited for: the last of its call.
<1>6. \A i \in DOMAIN jobs : jobs[i].heard /\ i.op = j.op /\ i.call = j.call => i = j
  <2> SUFFICES ASSUME NEW i \in DOMAIN jobs,
                      jobs[i].heard, i.op = j.op, i.call = j.call
               PROVE  i = j
    OBVIOUS
  <2>1. i.try <= j.try /\ j.try <= i.try
    BY <1>1, KnownFacts DEF KeysAreFresh
  <2>2. i \in Job /\ j \in Job /\ i.try \in Nat /\ j.try \in Nat
    BY StateFacts, JobFacts, OpFacts
  <2> QED
    BY <2>1, <2>2, JobFacts
<1>7. CASE /\ AttemptsLeft(j) /\ UNCHANGED client
           /\ jobs' = Arrives(Deaf, j.op, j.call, j.try + 1)
  <2> DEFINE try == j.try + 1
             n == [op |-> j.op, call |-> j.call, try |-> try]
  <2>1. j.call \in 0..MAX_RETRIES /\ j.try \in Nat /\ try \in 0..maxRetries
    BY <1>1, <1>7, JobFacts, OpFacts DEF AttemptsLeft
  <2>2. jobs' = Arrives(Deaf, j.op, j.call, try) /\ j.try <= try /\ ~ (try <= j.try)
    BY <1>7, <2>1
  <2> HIDE DEF try
  <2>3. /\ n \in Job /\ n.op = j.op /\ n.call = j.call /\ n.try = try
        /\ DOMAIN jobs' = DOMAIN Deaf \cup {n} /\ jobs' \in [DOMAIN jobs' -> JobRecord]
        /\ \A i \in DOMAIN Deaf \ {n} : jobs'[i] = Deaf[i]
        /\ jobs'[n].state = "asked" /\ jobs'[n].heard
    <3>1. DOMAIN Deaf \subseteq Job /\ Deaf \in [DOMAIN Deaf -> JobRecord]
      BY <1>4 DEF TypeOK
    <3> QED
      BY <1>1, <2>1, <2>2, <3>1, ArrivesFacts, SMTT(60)
  <2> HIDE DEF n
  <2>4. TypeOK'
    BY <1>1, <1>4, <1>7, <2>3 DEF TypeOK
  <2>5. /\ \A k \in Known : k.op = j.op /\ k.call = j.call => k.try <= j.try
        /\ \A k \in Known : k.op = n.op /\ k.call = n.call => k.try <= n.try
        /\ n \notin Known
    <3>1. \A k \in Known : k.op = j.op /\ k.call = j.call => k.try <= j.try
      BY <1>1 DEF KeysAreFresh
    <3>2. \A k \in Known : k.try \in Nat
      BY <1>3, JobFacts, OpFacts
    <3>3. try \in Nat
      BY <2>1, OpFacts
    <3> QED
      BY <2>1, <2>2, <2>3, <3>1, <3>2, <3>3
  <2>6. n \notin DOMAIN jobs /\ n # j
    BY <2>5, KnownFacts
  <2>7. KeysAreFresh'
    <3>1. Known' \subseteq Known \cup {n}
      BY <1>1, <1>4, <2>3 DEF Known
    <3>2. \A o \in DOMAIN client :
              /\ client'[o].call \in Nat /\ client[o].call <= client'[o].call
              /\ client'[o].status = "idle" => client[o].status = "idle"
              /\ (client'[o].status = "idle" \/ ~ broken') => client'[o].call = 0
      <4>1. \A o \in DOMAIN client : client[o].call \in Nat
        BY StateFacts, OpFacts DEF ClientRecord
      <4> QED
        BY <1>1, <1>7, <4>1 DEF KeysAreFresh
    <3>3. \A i \in DOMAIN jobs' \ {n} : jobs'[i].heard =>
              jobs[i].heard /\ ~ (i.op = n.op /\ i.call = n.call)
      BY <1>4, <1>6, <2>3
    <3>4. /\ n.op \in DOMAIN client /\ client'[n.op].status # "idle"
          /\ n.call <= client'[n.op].call
      BY <1>7, <2>3, KnownFacts DEF KeysAreFresh
    <3> QED
      BY <1>1, <1>3, <1>4, <1>7, <2>3, <2>5, <3>1, <3>2, <3>3, <3>4, KeysGrow
  <2>8. JobsAreSound' /\ RowsAreSound' /\ EventsAreSound' /\ BalanceAsRead'
    <3>1. \A i \in DOMAIN jobs' :
              \/ /\ i \in DOMAIN jobs
                 /\ jobs'[i].state = jobs[i].state /\ jobs'[i].answer = jobs[i].answer
                 /\ jobs'[i].available = jobs[i].available
              \/ jobs'[i].state = "asked" /\ i \notin Known
      BY <1>4, <2>3, <2>5, <2>6
    <3>2. \A i \in DOMAIN jobs : i \in DOMAIN jobs' /\ jobs'[i].state = jobs[i].state
      BY <1>4, <2>3, <2>6
    <3> QED
      BY <1>1, <1>2, <2>4, <3>1, <3>2, QuietStep
  <2>9. AnswersAreTrue'
    BY <1>1, <1>7, PagesKeepAnswers
  <2>10. EveryPageIsServed'
    <3> SUFFICES ASSUME NEW o \in Op, Waits(o)'
                 PROVE  \/ /\ Waits(o) /\ client'[o].call = client[o].call
                           /\ \A i \in DOMAIN jobs :
                                i.op = o /\ i.call = client[o].call /\ jobs[i].heard =>
                                    i \in DOMAIN jobs' /\ jobs'[i].heard
                        \/ \E i \in DOMAIN jobs' :
                                i.op = o /\ i.call = client'[o].call /\ jobs'[i].heard
      BY PagesStayServed
    <3>1. CASE o = j.op /\ j.call = client[o].call
      BY <1>7, <2>3, <3>1
    <3>2. CASE ~ (o = j.op /\ j.call = client[o].call)
      BY <1>4, <1>7, <2>3, <2>6, <3>2 DEF Waits
    <3> QED
      BY <3>1, <3>2
  <2> QED
    BY <2>4, <2>7, <2>8, <2>9, <2>10
<1>8. CASE /\ jobs' = Deaf
           /\ IF Attended(j) THEN Told(j.op, [code |-> "bad gateway"])
              ELSE UNCHANGED client
  <2> DEFINE a == [code |-> "bad gateway"]
  <2>1. a \in Answer /\ a.code \notin {"ok", "conflict"}
    BY AnswerFacts
  <2>2. IF Attended(j) THEN Told(j.op, a) ELSE UNCHANGED client
    BY <1>8
  <2> HIDE DEF a
  <2>3. /\ DOMAIN client' = DOMAIN client /\ client' \in [DOMAIN client -> ClientRecord]
        /\ \A o \in DOMAIN client :
            /\ client'[o].call = client[o].call
            /\ \/ client'[o].status = client[o].status
               \/ client[o].status = "waiting" /\ client'[o].status = "told"
            /\ client'[o].answer = client[o].answer \/ client'[o].answer = a
            /\ ~ (o = j.op /\ Attended(j)) => client'[o] = client[o]
            /\ o = j.op /\ Attended(j) => client'[o].status = "told"
    BY <2>1, <2>2, RepliesFacts, SMTT(60)
  <2>4. TypeOK'
    BY <1>1, <1>4, <1>8, <2>3 DEF TypeOK
  <2>5. KeysAreFresh'
    <3>1. Known' = Known
      BY <1>1, <1>4, <1>8 DEF Known
    <3>2. \A i \in DOMAIN jobs' : jobs'[i].heard => jobs[i].heard
      BY <1>4, <1>8
    <3> QED
      BY <1>1, <1>4, <1>8, <2>3, <3>1, <3>2, KeysStay
  <2>6. JobsAreSound' /\ RowsAreSound' /\ EventsAreSound' /\ BalanceAsRead'
    <3>1. \A i \in DOMAIN jobs : /\ jobs'[i].state = jobs[i].state
                                 /\ jobs'[i].answer = jobs[i].answer
                                 /\ jobs'[i].available = jobs[i].available
      BY <1>4, <1>8
    <3> QED
      BY <1>1, <1>2, <1>4, <1>8, <2>4, <3>1, QuietStep
  <2>7. AnswersAreTrue'
    BY <1>1, <2>1, <2>3, PagesKeepAnswers
  <2>8. EveryPageIsServed'
    <3> SUFFICES ASSUME NEW o \in Op, Waits(o)'
                 PROVE  /\ Waits(o) /\ client'[o].call = client[o].call
                        /\ \A i \in DOMAIN jobs :
                             i.op = o /\ i.call = client[o].call /\ jobs[i].heard =>
                                 i \in DOMAIN jobs' /\ jobs'[i].heard
      BY PagesStayServed
    <3>1. Waits(o) /\ client'[o].call = client[o].call /\ ~ (o = j.op /\ Attended(j))
      BY <2>3 DEF Waits
    <3> QED
      BY <1>1, <1>4, <1>8, <3>1 DEF Attended
  <2> QED
    BY <2>4, <2>5, <2>6, <2>7, <2>8
<1> QED
  BY <1>5, <1>7, <1>8

LEMMA RespondKeepsIInv ==
    ASSUME IInv, NEW j \in DOMAIN jobs, Respond(j)
    PROVE  IInv'
<1> USE DEF IInv
<1> DEFINE a == jobs[j].answer
<1>1. /\ jobs[j].state = "answered" /\ j \in Job /\ j.op \in Op /\ a \in Answer
      /\ rows' = rows /\ orders' = orders /\ balance' = balance
      /\ published' = published /\ lost' = lost /\ unheard' = unheard
      /\ overlapped' = overlapped
      /\ broken' = broken /\ drops' = drops /\ failures' = failures
  BY StateFacts DEF Respond, store, history
<1>2. UNCHANGED <<store, published, lost, unheard, overlapped>>
  BY <1>1 DEF store
<1>3. /\ DOMAIN jobs' = DOMAIN jobs \ {j} /\ jobs' \in [DOMAIN jobs' -> JobRecord]
      /\ \A i \in DOMAIN jobs \ {j} : jobs'[i] = jobs[i]
  BY EndsFacts DEF Respond
<1>4. AnswerIsTrue(j.op, a)
  BY <1>1 DEF JobsAreSound, JobIsSound, At
<1>5. IF Attended(j) THEN Told(j.op, a) ELSE UNCHANGED client
  BY DEF Respond
<1> HIDE DEF a
<1>6. /\ DOMAIN client' = DOMAIN client /\ client' \in [DOMAIN client -> ClientRecord]
      /\ \A o \in DOMAIN client :
          /\ client'[o].call = client[o].call
          /\ \/ client'[o].status = client[o].status
             \/ client[o].status = "waiting" /\ client'[o].status = "told"
          /\ \/ client'[o].answer = client[o].answer
             \/ o = j.op /\ client'[o].answer = a
          /\ ~ (o = j.op /\ Attended(j)) => client'[o] = client[o]
          /\ o = j.op /\ Attended(j) => client'[o].status = "told"
  BY <1>1, <1>5, RepliesFacts, SMTT(60)
<1>7. TypeOK'
  BY <1>1, <1>3, <1>6 DEF TypeOK
<1>8. KeysAreFresh'
  <2>1. Known' \subseteq Known
    BY <1>1, <1>3 DEF Known
  <2> QED
    BY <1>1, <1>3, <1>6, <2>1, KeysStay
<1>9. JobsAreSound' /\ RowsAreSound' /\ EventsAreSound' /\ BalanceAsRead'
  BY <1>1, <1>2, <1>3, <1>7, QuietStep
<1>10. AnswersAreTrue'
  <2> SUFFICES ASSUME NEW o \in DOMAIN client
               PROVE  AnswerIsTrue(o, client[o].answer)'
    BY <1>6 DEF AnswersAreTrue
  <2>1. CASE client'[o].answer = client[o].answer
    <3>1. AnswerIsTrue(o, client[o].answer)
      BY DEF AnswersAreTrue
    <3> QED
      BY <1>1, <2>1, <3>1 DEF AnswerIsTrue
  <2>2. CASE o = j.op /\ client'[o].answer = a
    BY <1>1, <1>4, <2>2 DEF AnswerIsTrue
  <2> QED
    BY <1>6, <2>1, <2>2
<1>11. EveryPageIsServed'
  <2> SUFFICES ASSUME NEW o \in Op, Waits(o)'
               PROVE  /\ Waits(o) /\ client'[o].call = client[o].call
                      /\ \A i \in DOMAIN jobs :
                           i.op = o /\ i.call = client[o].call /\ jobs[i].heard =>
                               i \in DOMAIN jobs' /\ jobs'[i].heard
    BY PagesStayServed
  <2>1. Waits(o) /\ client'[o].call = client[o].call /\ ~ (o = j.op /\ Attended(j))
    BY <1>6 DEF Waits
  <2> QED
    BY <1>3, <2>1 DEF Attended
<1> QED
  BY <1>7, <1>8, <1>9, <1>10, <1>11

-----------------------------------------------------------------------------
(* The steps of the API.                                                    *)

\* Two requests that have written have written two orders.
LEMMA MadeApart ==
    ASSUME TypeOK, JobsAreSound, NEW i \in DOMAIN jobs, NEW j \in DOMAIN jobs,
           jobs[i].state = "written", jobs[j].state = "written", Made(i) = Made(j)
    PROVE  i = j
<1>1. i \in Job /\ j \in Job /\ i.op \in Op /\ j.op \in Op
  BY StateFacts
<1>2. /\ i.op \notin Post => orders[Target[i.op]].by = {i}
      /\ j.op \notin Post => orders[Target[j.op]].by = {j}
  BY DEF JobsAreSound, JobIsSound, At
<1>3. CASE i.op \in Post /\ j.op \in Post
  BY <1>3 DEF Made
<1>4. CASE i.op \notin Post /\ j.op \notin Post
  BY <1>2, <1>4 DEF Made
<1>5. CASE (i.op \in Post) # (j.op \in Post)
  BY <1>1, <1>5, OpFacts DEF Made
<1> QED
  BY <1>3, <1>4, <1>5

\* What a request has written is there, and it may answer so.
LEMMA WrittenFacts ==
    ASSUME TypeOK, JobsAreSound, NEW j \in DOMAIN jobs, jobs[j].state = "written"
    PROVE  /\ jobs[j].answer = Has(Made(j)) /\ jobs[j].answer.order = Made(j)
           /\ Made(j) \in Changed /\ Made(j) \in rows \cup Resting
           /\ Made(j) \notin lost /\ (Made(j) \in DOMAIN published => Made(j) \in unheard)
           /\ AnswerIsTrue(j.op, jobs[j].answer)
<1>1. j \in Job /\ j.op \in Op
  BY StateFacts
<1>2. /\ jobs[j].answer = Has(Made(j))
      /\ Made(j) \notin lost /\ (Made(j) \in DOMAIN published => Made(j) \in unheard)
      /\ IF j.op \in Post THEN j \in rows ELSE orders[Target[j.op]].by = {j}
  BY DEF JobsAreSound, JobIsSound, At
<1>3. CASE j.op \in Post
  <2>1. Made(j) = j /\ j \in rows
    BY <1>2, <1>3 DEF Made
  <2> QED
    BY <1>1, <1>2, <1>3, <2>1 DEF Changed, AnswerIsTrue, Has
<1>4. CASE j.op \notin Post
  <2>1. Made(j) = Target[j.op] /\ Target[j.op] \in Resting /\ orders[Target[j.op]].by = {j}
    BY <1>1, <1>2, <1>4, OpFacts DEF Made
  <2>2. ~ orders[Target[j.op]].open
    BY <2>1 DEF TypeOK
  <2> QED
    BY <1>1, <1>2, <1>4, <2>1, <2>2 DEF Changed, AnswerIsTrue, Has
<1> QED
  BY <1>3, <1>4

\* j, which has written, has its event published or loses it.
LEMMA AnnounceStep ==
    ASSUME IInv, NEW j \in DOMAIN jobs, jobs[j].state = "written",
           rows' = rows, orders' = orders, balance' = balance,
           unheard' = unheard, overlapped' = overlapped, broken' = broken,
           DOMAIN jobs' \subseteq DOMAIN jobs,
           \A i \in DOMAIN jobs \ {j} : i \in DOMAIN jobs' /\ jobs'[i] = jobs[i],
           j \in DOMAIN jobs' =>
                jobs'[j].state = "answered" /\ jobs'[j].answer = jobs[j].answer,
           \/ published' = published /\ lost' = lost \cup {Made(j)}
           \/ /\ lost' = lost /\ DOMAIN published' = DOMAIN published \cup {Made(j)}
              /\ published'[Made(j)] = Announced(Made(j)) + 1
              /\ \A o \in DOMAIN published \ {Made(j)} : published'[o] = published[o]
    PROVE  JobsAreSound' /\ RowsAreSound' /\ EventsAreSound' /\ BalanceAsRead'
<1> USE DEF IInv
<1>1. /\ Made(j) \in Changed /\ Made(j) \notin lost
      /\ Made(j) \in DOMAIN published => Made(j) \in unheard
      /\ AnswerIsTrue(j.op, jobs[j].answer)
  BY WrittenFacts
<1>2. /\ DOMAIN published' \cup lost' = (DOMAIN published \cup lost) \cup {Made(j)}
      /\ DOMAIN published \subseteq DOMAIN published'
      /\ DOMAIN published' \subseteq DOMAIN published \cup {Made(j)}
      /\ lost' \subseteq lost \cup {Made(j)}
  OBVIOUS
<1>3. JobsAreSound'
  <2> SUFFICES ASSUME NEW i \in DOMAIN jobs'
               PROVE  JobIsSound(i)'
    BY DEF JobsAreSound
  <2>1. CASE i = j
    BY <1>1, <2>1 DEF JobIsSound, At, AnswerIsTrue
  <2>2. CASE i # j
    <3>1. JobIsSound(i) /\ i \in DOMAIN jobs /\ jobs'[i] = jobs[i]
      BY <2>2 DEF JobsAreSound
    <3>2. \A k \in DOMAIN jobs' : At(k, "checked")' => At(k, "checked")
      BY DEF At
    <3>3. At(i, "written") => Made(i) # Made(j)
      BY <2>2, <3>1, MadeApart DEF At
    <3>4. At(i, "answered") => AnswerIsTrue(i.op, jobs[i].answer)'
      <4>1. At(i, "answered") => AnswerIsTrue(i.op, jobs[i].answer)
        BY <3>1 DEF JobIsSound
      <4> QED
        BY <4>1, <3>1 DEF AnswerIsTrue
    <3> QED
      BY <1>2, <3>1, <3>2, <3>3, <3>4 DEF JobIsSound, At, Made
  <2> QED
    BY <2>1, <2>2
<1>4. RowsAreSound'
  BY DEF RowsAreSound
<1>5. EventsAreSound'
  <2>1. Changed' = Changed
    BY DEF Changed
  <2>2. unheard' \subseteq DOMAIN published' /\ DOMAIN published' \cap lost' \subseteq unheard'
    BY <1>1, <1>2 DEF EventsAreSound
  <2>3. DOMAIN published' \cup lost' \subseteq Changed'
    BY <1>1, <1>2, <2>1 DEF EventsAreSound
  <2>4. ASSUME NEW o \in DOMAIN published'
        PROVE  published'[o] >= 1 /\ (published'[o] > 1 => o \in unheard)
    <3>1. CASE published' = published \/ o # Made(j)
      BY <1>2, <3>1 DEF EventsAreSound
    <3>2. CASE published' # published /\ o = Made(j)
      <4>1. o \in DOMAIN published => o \in unheard /\ published[o] \in Nat
        BY <1>1, <3>2 DEF TypeOK
      <4>2. published'[o] = Announced(o) + 1
        BY <3>2
      <4> QED
        BY <4>1, <4>2 DEF Announced
    <3> QED
      BY <3>1, <3>2
  <2>5. \A o \in Changed' : \/ o \in DOMAIN published' \cup lost'
                            \/ \E i \in DOMAIN jobs' : At(i, "written")' /\ Made(i) = o
    <3> SUFFICES ASSUME NEW o \in Changed, o \notin DOMAIN published' \cup lost'
                 PROVE  \E i \in DOMAIN jobs' : At(i, "written")' /\ Made(i) = o
      BY <2>1
    <3>1. PICK i \in DOMAIN jobs : At(i, "written") /\ Made(i) = o
      BY <1>2 DEF EventsAreSound
    <3> QED
      BY <1>2, <3>1 DEF At
  <2> QED
    BY <2>2, <2>3, <2>4, <2>5 DEF EventsAreSound, Made
<1>6. BalanceAsRead'
  BY DEF BalanceAsRead, At
<1> QED
  BY <1>3, <1>4, <1>5, <1>6

\* The event of what j has written is in the topic once more.
LEMMA WritesFacts ==
    ASSUME TypeOK, JobsAreSound, NEW j \in DOMAIN jobs, jobs[j].state = "written", Writes(j)
    PROVE  /\ DOMAIN published' = DOMAIN published \cup {Made(j)}
           /\ published' \in [DOMAIN published' -> Nat]
           /\ published'[Made(j)] = Announced(Made(j)) + 1
           /\ published'[Made(j)] >= 1
           /\ \A o \in DOMAIN published \ {Made(j)} : published'[o] = published[o]
<1>1. jobs[j].answer.order = Made(j)
  BY WrittenFacts
<1> DEFINE o == Made(j)
           n == Announced(o) + 1
<1>2. n \in Nat /\ n >= 1
  BY DEF Announced, TypeOK
<1>3. published' = With(published, o, n)
  BY <1>1 DEF Writes
<1> HIDE DEF o, n
<1>4. /\ DOMAIN published' = DOMAIN published \cup {o} /\ published'[o] = n
      /\ \A k \in DOMAIN published \ {o} : published'[k] = published[k]
  BY <1>3 DEF With
<1>5. published' \in [DOMAIN published' -> Nat]
  BY <1>2, <1>3, <1>4 DEF With, TypeOK
<1> QED
  BY <1>2, <1>4, <1>5 DEF o, n

LEMMA ApiStep ==
    ASSUME IInv, client' = client, broken' = broken, DOMAIN jobs' = DOMAIN jobs,
           \A i \in DOMAIN jobs : jobs'[i].heard = jobs[i].heard, Known' \subseteq Known
    PROVE  KeysAreFresh' /\ EveryPageIsServed'
<1> USE DEF IInv
<1>1. KeysAreFresh'
  BY KeysStay
<1>2. EveryPageIsServed'
  BY PagesStayServed DEF Waits
<1> QED
  BY <1>1, <1>2

LEMMA PublishKeepsIInv ==
    ASSUME IInv, NEW j \in DOMAIN jobs, Publish(j)
    PROVE  IInv'
<1> USE DEF IInv
<1>1. /\ jobs[j].state = "written" /\ jobs[j].answer \in Answer
      /\ client' = client /\ rows' = rows /\ orders' = orders /\ balance' = balance
      /\ lost' = lost /\ unheard' = unheard /\ overlapped' = overlapped
      /\ broken' = broken /\ drops' = drops /\ failures' = failures
  BY StateFacts DEF Publish, store, history, At
<1>2. /\ DOMAIN jobs' = DOMAIN jobs /\ jobs' \in [DOMAIN jobs -> JobRecord]
      /\ \A i \in DOMAIN jobs \ {j} : jobs'[i] = jobs[i]
      /\ jobs'[j].state = "answered" /\ jobs'[j].answer = jobs[j].answer
      /\ jobs'[j].heard = jobs[j].heard /\ jobs'[j].available = jobs[j].available
  <2>1. Goes(j, "answered", jobs[j].answer)
    BY DEF Publish
  <2> QED
    BY <1>1, <2>1, GoesFacts, SMTT(60)
<1>3. Made(j) \in rows \cup Resting
  BY <1>1, WrittenFacts
<1>4. /\ DOMAIN published' = DOMAIN published \cup {Made(j)}
      /\ published' \in [DOMAIN published' -> Nat]
      /\ published'[Made(j)] = Announced(Made(j)) + 1
      /\ \A o \in DOMAIN published \ {Made(j)} : published'[o] = published[o]
  BY <1>1, WritesFacts DEF Publish
<1>5. TypeOK'
  BY <1>1, <1>2, <1>3, <1>4 DEF TypeOK
<1>6. KeysAreFresh' /\ EveryPageIsServed'
  <2>1. Known' = Known
    BY <1>1, <1>2 DEF Known
  <2> QED
    BY <1>1, <1>2, <2>1, ApiStep
<1>7. JobsAreSound' /\ RowsAreSound' /\ EventsAreSound' /\ BalanceAsRead'
  BY <1>1, <1>2, <1>4, AnnounceStep
<1>8. AnswersAreTrue'
  BY <1>1, PagesKeepAnswers
<1> QED
  BY <1>5, <1>6, <1>7, <1>8

LEMMA PublishFailsKeepsIInv ==
    ASSUME IInv, NEW j \in DOMAIN jobs, PublishFails(j)
    PROVE  IInv'
<1> USE DEF IInv
<1>1. /\ jobs[j].state = "written" /\ jobs[j].answer \in Answer
      /\ client' = client /\ rows' = rows /\ orders' = orders /\ balance' = balance
      /\ published' = published /\ lost' = lost \cup {jobs[j].answer.order}
      /\ unheard' = unheard /\ overlapped' = overlapped /\ broken' = broken
      /\ drops' = drops /\ failures' \in Nat
  <2>1. failures \in Nat
    BY DEF TypeOK
  <2> QED
    BY <2>1, StateFacts DEF PublishFails, Fails, store, At
<1>2. /\ DOMAIN jobs' = DOMAIN jobs /\ jobs' \in [DOMAIN jobs -> JobRecord]
      /\ \A i \in DOMAIN jobs \ {j} : jobs'[i] = jobs[i]
      /\ jobs'[j].state = "answered" /\ jobs'[j].answer = jobs[j].answer
      /\ jobs'[j].heard = jobs[j].heard /\ jobs'[j].available = jobs[j].available
  <2>1. Goes(j, "answered", jobs[j].answer)
    BY DEF PublishFails
  <2> QED
    BY <1>1, <2>1, GoesFacts, SMTT(60)
<1>3. /\ jobs[j].answer.order = Made(j) /\ Made(j) \in rows \cup Resting
      /\ lost' = lost \cup {Made(j)}
  BY <1>1, WrittenFacts
<1>4. TypeOK'
  BY <1>1, <1>2, <1>3 DEF TypeOK
<1>5. KeysAreFresh' /\ EveryPageIsServed'
  <2>1. Known' = Known
    BY <1>1, <1>2 DEF Known
  <2> QED
    BY <1>1, <1>2, <2>1, ApiStep
<1>6. JobsAreSound' /\ RowsAreSound' /\ EventsAreSound' /\ BalanceAsRead'
  BY <1>1, <1>2, <1>3, AnnounceStep
<1>7. AnswersAreTrue'
  BY <1>1, PagesKeepAnswers
<1> QED
  BY <1>4, <1>5, <1>6, <1>7

LEMMA WriteUnheardKeepsIInv ==
    ASSUME IInv, NEW j \in DOMAIN jobs, WriteUnheard(j)
    PROVE  IInv'
<1> USE DEF IInv
<1>1. /\ jobs[j].state = "written" /\ jobs' = jobs
      /\ client' = client /\ rows' = rows /\ orders' = orders /\ balance' = balance
      /\ lost' = lost /\ overlapped' = overlapped /\ broken' = broken
      /\ drops' = drops /\ failures' \in Nat
  <2>1. failures \in Nat
    BY DEF TypeOK
  <2> QED
    BY <2>1 DEF WriteUnheard, Fails, store, At
<1>2. /\ Made(j) \in Changed /\ Made(j) \in rows \cup Resting /\ Made(j) \notin lost
      /\ unheard' = unheard \cup {Made(j)}
  BY <1>1, WrittenFacts DEF WriteUnheard
<1>3. /\ DOMAIN published' = DOMAIN published \cup {Made(j)}
      /\ published' \in [DOMAIN published' -> Nat] /\ published'[Made(j)] >= 1
      /\ \A o \in DOMAIN published \ {Made(j)} : published'[o] = published[o]
  BY <1>1, WritesFacts DEF WriteUnheard
<1>4. TypeOK'
  BY <1>1, <1>2, <1>3 DEF TypeOK
<1>5. KeysAreFresh' /\ EveryPageIsServed'
  <2>1. Known' = Known
    BY <1>1 DEF Known
  <2> QED
    BY <1>1, <2>1, ApiStep
<1>6. JobsAreSound'
  <2> SUFFICES ASSUME NEW i \in DOMAIN jobs
               PROVE  JobIsSound(i)'
    BY <1>1 DEF JobsAreSound
  <2>1. JobIsSound(i)
    BY DEF JobsAreSound
  <2>2. At(i, "answered") => AnswerIsTrue(i.op, jobs[i].answer)'
    <3>1. At(i, "answered") => AnswerIsTrue(i.op, jobs[i].answer)
      BY <2>1 DEF JobIsSound
    <3> QED
      BY <1>1, <3>1 DEF AnswerIsTrue
  <2>3. Made(i) \in DOMAIN published' /\ At(i, "written") => Made(i) \in unheard'
    BY <1>2, <1>3, <2>1 DEF JobIsSound
  <2> QED
    BY <1>1, <2>1, <2>2, <2>3 DEF JobIsSound, At, Made
<1>7. RowsAreSound'
  BY <1>1 DEF RowsAreSound
<1>8. EventsAreSound'
  <2>1. Changed' = Changed
    BY <1>1 DEF Changed
  <2>2. unheard' \subseteq DOMAIN published' /\ DOMAIN published' \cap lost' \subseteq unheard'
    BY <1>1, <1>2, <1>3 DEF EventsAreSound
  <2>3. DOMAIN published' \cup lost' \subseteq Changed'
    BY <1>1, <1>2, <1>3, <2>1 DEF EventsAreSound
  <2>4. \A o \in DOMAIN published' :
            published'[o] >= 1 /\ (published'[o] > 1 => o \in unheard')
    BY <1>2, <1>3 DEF EventsAreSound
  <2>5. \A o \in Changed : \/ o \in DOMAIN published \cup lost
                           \/ \E i \in DOMAIN jobs : At(i, "written") /\ Made(i) = o
    BY DEF EventsAreSound
  <2>6. \A o \in Changed' : \/ o \in DOMAIN published' \cup lost'
                            \/ \E i \in DOMAIN jobs' : At(i, "written")' /\ Made(i) = o
    BY <1>1, <1>3, <2>1, <2>5 DEF At
  <2> QED
    BY <2>2, <2>3, <2>4, <2>6 DEF EventsAreSound, Made
<1>9. BalanceAsRead'
  BY <1>1 DEF BalanceAsRead, At
<1>10. AnswersAreTrue'
  BY <1>1, PagesKeepAnswers
<1> QED
  BY <1>4, <1>5, <1>6, <1>7, <1>8, <1>9, <1>10

LEMMA AbandonKeepsIInv ==
    ASSUME IInv, NEW j \in DOMAIN jobs, Abandon(j)
    PROVE  IInv'
<1> USE DEF IInv
<1>1. /\ ~ Attended(j)
      /\ lost' = IF jobs[j].state = "written" THEN lost \cup {jobs[j].answer.order}
                 ELSE lost
      /\ client' = client /\ rows' = rows /\ orders' = orders /\ balance' = balance
      /\ published' = published /\ unheard' = unheard /\ overlapped' = overlapped
      /\ broken' = broken /\ drops' = drops /\ failures' = failures
  BY DEF Abandon, store, At
<1>2. /\ DOMAIN jobs' = DOMAIN jobs \ {j} /\ jobs' \in [DOMAIN jobs' -> JobRecord]
      /\ \A i \in DOMAIN jobs \ {j} : jobs'[i] = jobs[i]
  BY EndsFacts DEF Abandon
<1>3. KeysAreFresh'
  <2>1. Known' \subseteq Known
    BY <1>1, <1>2 DEF Known
  <2> QED
    BY <1>1, <1>2, <2>1, KeysStay
<1>4. AnswersAreTrue'
  BY <1>1, PagesKeepAnswers
<1>5. EveryPageIsServed'
  <2> SUFFICES ASSUME NEW o \in Op, Waits(o)'
               PROVE  /\ Waits(o) /\ client'[o].call = client[o].call
                      /\ \A i \in DOMAIN jobs :
                           i.op = o /\ i.call = client[o].call /\ jobs[i].heard =>
                               i \in DOMAIN jobs' /\ jobs'[i].heard
    BY PagesStayServed
  <2>1. Waits(o) /\ client'[o].call = client[o].call
    BY <1>1 DEF Waits
  <2> QED
    BY <1>1, <1>2, <2>1 DEF Attended
<1>6. CASE jobs[j].state = "written"
  <2>1. /\ jobs[j].answer.order = Made(j) /\ Made(j) \in rows \cup Resting
        /\ lost' = lost \cup {Made(j)}
    BY <1>1, <1>6, WrittenFacts
  <2>2. TypeOK'
    BY <1>1, <1>2, <2>1 DEF TypeOK
  <2>3. JobsAreSound' /\ RowsAreSound' /\ EventsAreSound' /\ BalanceAsRead'
    BY <1>1, <1>2, <1>6, <2>1, AnnounceStep
  <2> QED
    BY <1>3, <1>4, <1>5, <2>2, <2>3
<1>7. CASE jobs[j].state # "written"
  <2>1. TypeOK'
    BY <1>1, <1>2, <1>7 DEF TypeOK
  <2>2. UNCHANGED <<store, published, lost, unheard, overlapped>>
    BY <1>1, <1>7 DEF store
  <2>3. JobsAreSound' /\ RowsAreSound' /\ EventsAreSound' /\ BalanceAsRead'
    BY <1>1, <1>2, <1>7, <2>1, <2>2, QuietStep
  <2> QED
    BY <1>3, <1>4, <1>5, <2>1, <2>3
<1> QED
  BY <1>6, <1>7

\* j goes on and writes nothing.
LEMMA SameStore ==
    ASSUME IInv, NEW j \in DOMAIN jobs, UNCHANGED <<client, store, published, history>>,
           drops' = drops, failures' \in Nat, jobs' \in [DOMAIN jobs -> JobRecord],
           \A i \in DOMAIN jobs \ {j} : jobs'[i] = jobs[i],
           jobs'[j].heard = jobs[j].heard,
           jobs[j].state # "written", jobs'[j].state # "written",
           jobs'[j].state = "checked" /\ j.op \in Delete =>
                ~ Locked(Target[j.op]) /\ jobs'[j].available = balance,
           JobIsSound(j)'
    PROVE  IInv'
<1> USE DEF IInv
<1>1. /\ client' = client /\ rows' = rows /\ orders' = orders /\ balance' = balance
      /\ published' = published /\ lost' = lost /\ unheard' = unheard
      /\ overlapped' = overlapped
      /\ broken' = broken /\ DOMAIN jobs' = DOMAIN jobs
  BY DEF store, history
<1>2. TypeOK'
  BY <1>1 DEF TypeOK
<1>3. KeysAreFresh' /\ EveryPageIsServed'
  <2>1. Known' = Known
    BY <1>1 DEF Known
  <2> QED
    BY <1>1, <2>1, ApiStep
<1>4. AnswersAreTrue'
  BY <1>1, PagesKeepAnswers
<1>5. JobsAreSound'
  <2> SUFFICES ASSUME NEW i \in DOMAIN jobs, i # j
               PROVE  JobIsSound(i)'
    BY <1>1 DEF JobsAreSound
  <2>1. JobIsSound(i) /\ jobs'[i] = jobs[i]
    BY DEF JobsAreSound
  <2>2. At(i, "answered") => AnswerIsTrue(i.op, jobs[i].answer)'
    <3>1. At(i, "answered") => AnswerIsTrue(i.op, jobs[i].answer)
      BY <2>1 DEF JobIsSound
    <3> QED
      BY <1>1, <2>1, <3>1 DEF AnswerIsTrue
  <2>3. At(i, "checked") /\ i.op \notin Post =>
            \A k \in DOMAIN jobs' :
                At(k, "checked")' /\ k.op \in Delete /\ Target[k.op] = Target[i.op] => k = i
    <3> SUFFICES ASSUME At(i, "checked"), i.op \notin Post, NEW k \in DOMAIN jobs,
                        At(k, "checked")', k.op \in Delete, Target[k.op] = Target[i.op]
                 PROVE  k = i
      BY <1>1
    <3>1. CASE k = j
      <4>1. i.op \in Delete
        BY StateFacts, OpFacts
      <4> QED
        BY <1>1, <3>1, <4>1 DEF Locked, At
    <3>2. CASE k # j
      BY <1>1, <2>1, <3>2 DEF JobIsSound, At
    <3> QED
      BY <3>1, <3>2
  <2> QED
    BY <1>1, <2>1, <2>2, <2>3 DEF JobIsSound, At, Made
<1>6. RowsAreSound'
  BY <1>1 DEF RowsAreSound
<1>7. EventsAreSound'
  BY <1>1 DEF EventsAreSound, Changed, At, Made
<1>8. BalanceAsRead'
  BY <1>1 DEF BalanceAsRead, At
<1> QED
  BY <1>2, <1>3, <1>4, <1>5, <1>6, <1>7, <1>8

LEMMA StatementFailsKeepsIInv ==
    ASSUME IInv, NEW j \in DOMAIN jobs, StatementFails(j)
    PROVE  IInv'
<1> DEFINE a == [code |-> "error"]
<1>1. TypeOK
  BY DEF IInv
<1>2. /\ jobs[j].state \in {"asked", "checked"} /\ Goes(j, "answered", a)
      /\ UNCHANGED <<client, store, published, history>>
      /\ drops' = drops /\ failures' \in Nat
  <2>1. failures \in Nat
    BY <1>1 DEF TypeOK
  <2> QED
    BY <2>1 DEF StatementFails, Fails, At, Answers
<1>3. a \in Answer /\ a.code \notin {"ok", "conflict"}
  BY AnswerFacts
<1> HIDE DEF a
<1>4. /\ jobs' \in [DOMAIN jobs -> JobRecord]
      /\ \A i \in DOMAIN jobs \ {j} : jobs'[i] = jobs[i]
      /\ jobs'[j].state = "answered" /\ jobs'[j].answer = a
      /\ jobs'[j].heard = jobs[j].heard
  BY <1>1, <1>2, <1>3, GoesFacts, SMTT(60)
<1>5. JobIsSound(j)'
  BY <1>3, <1>4 DEF JobIsSound, At, AnswerIsTrue
<1> QED
  BY <1>2, <1>4, <1>5, SameStore

\* The row that was there first is the answer.
LEMMA DuplicateStep ==
    ASSUME IInv, NEW j \in DOMAIN jobs, j.op \in Post,
           jobs[j].state \in {"asked", "checked"},
           Duplicate(j), UNCHANGED <<client, store, published, history, drops, failures>>
    PROVE  IInv'
<1>1. TypeOK /\ failures' \in Nat /\ drops' = drops
  BY DEF IInv, TypeOK
<1>2. PICK i \in rows : i.op = j.op /\ Goes(j, "answered", Has(i))
  BY DEF Duplicate, Existing
<1> DEFINE a == Has(i)
<1>3. a \in Answer /\ a.code = "ok" /\ a.order = i
  <2>1. i \in Job
    BY <1>1, <1>2 DEF TypeOK
  <2> QED
    BY <2>1, AnswerFacts
<1>4. Goes(j, "answered", a)
  BY <1>2
<1> HIDE DEF a
<1>5. /\ jobs' \in [DOMAIN jobs -> JobRecord]
      /\ \A k \in DOMAIN jobs \ {j} : jobs'[k] = jobs[k]
      /\ jobs'[j].state = "answered" /\ jobs'[j].answer = a
      /\ jobs'[j].heard = jobs[j].heard
  BY <1>1, <1>3, <1>4, GoesFacts, SMTT(60)
<1>6. rows' = rows
  BY DEF store
<1>7. JobIsSound(j)'
  BY <1>2, <1>3, <1>5, <1>6 DEF JobIsSound, At, AnswerIsTrue
<1>8. UNCHANGED <<client, store, published, history>>
  OBVIOUS
<1> QED
  BY <1>1, <1>5, <1>7, <1>8, SameStore

LEMMA CheckKeyKeepsIInv ==
    ASSUME IInv, NEW j \in DOMAIN jobs, CheckKey(j)
    PROVE  IInv'
<1>1. TypeOK /\ failures' \in Nat /\ drops' = drops /\ NoAnswer \in Answer
  BY AnswerFacts DEF IInv, TypeOK, CheckKey
<1>2. /\ jobs[j].state = "asked" /\ j.op \in Post /\ j.op \notin Delete
      /\ UNCHANGED <<client, store, published, history>>
  <2>1. j.op \in Op
    BY <1>1, StateFacts
  <2> QED
    BY <2>1, OpFacts DEF CheckKey, At
<1>3. JobIsSound(j)
  BY DEF IInv, JobsAreSound
<1>4. CASE j.op \in Refused
  <2> DEFINE a == [code |-> "refused"]
  <2>1. Goes(j, "answered", a)
    BY <1>4 DEF CheckKey, Answers
  <2>2. a \in Answer /\ a.code \notin {"ok", "conflict"}
    BY AnswerFacts
  <2> HIDE DEF a
  <2>3. /\ jobs' \in [DOMAIN jobs -> JobRecord]
        /\ \A i \in DOMAIN jobs \ {j} : jobs'[i] = jobs[i]
        /\ jobs'[j].state = "answered" /\ jobs'[j].answer = a
        /\ jobs'[j].heard = jobs[j].heard
    BY <1>1, <2>1, <2>2, GoesFacts, SMTT(60)
  <2>4. JobIsSound(j)'
    BY <2>2, <2>3 DEF JobIsSound, At, AnswerIsTrue
  <2> QED
    BY <1>1, <1>2, <2>3, <2>4, SameStore
<1>5. CASE j.op \notin Refused /\ Existing(j) # {}
  <2>1. Duplicate(j) /\ UNCHANGED <<client, store, published, history, drops, failures>>
    BY <1>5 DEF CheckKey
  <2> QED
    BY <1>2, <2>1, DuplicateStep
<1>6. CASE j.op \notin Refused /\ Existing(j) = {}
  <2>1. Goes(j, "checked", NoAnswer)
    BY <1>6 DEF CheckKey
  <2>2. /\ jobs' \in [DOMAIN jobs -> JobRecord]
        /\ \A i \in DOMAIN jobs \ {j} : jobs'[i] = jobs[i]
        /\ jobs'[j].state = "checked" /\ jobs'[j].heard = jobs[j].heard
    BY <1>1, <2>1, GoesFacts, SMTT(60)
  <2>3. JobIsSound(j)'
    BY <1>2, <1>3, <1>6, <2>2 DEF JobIsSound, At, store
  <2> QED
    BY <1>1, <1>2, <2>2, <2>3, SameStore
<1> QED
  BY <1>4, <1>5, <1>6

LEMMA ReadOrderKeepsIInv ==
    ASSUME IInv, NEW j \in DOMAIN jobs, ReadOrder(j)
    PROVE  IInv'
<1>1. TypeOK /\ failures' \in Nat /\ drops' = drops /\ balance \in Int
  BY DEF IInv, TypeOK, ReadOrder
<1>2. /\ jobs[j].state = "asked" /\ j.op \in Delete /\ j.op \notin Post /\ j \in Job
      /\ Target[j.op] \in Resting /\ ~ Locked(Target[j.op])
      /\ UNCHANGED <<client, store, published, history>>
  <2>1. j.op \in Op /\ j \in Job
    BY <1>1, StateFacts
  <2> QED
    BY <2>1, OpFacts DEF ReadOrder, At
<1>3. rows' = rows /\ orders' = orders /\ broken' = broken
  BY <1>2 DEF store, history
<1>4. JobIsSound(j)
  BY DEF IInv, JobsAreSound
<1>5. CASE orders[Target[j.op]].open
  <2>1. jobs' = [jobs EXCEPT ![j].state = "checked", ![j].available = balance]
    BY <1>5 DEF ReadOrder
  <2>2. /\ jobs' \in [DOMAIN jobs -> JobRecord]
        /\ \A i \in DOMAIN jobs \ {j} : jobs'[i] = jobs[i]
        /\ jobs'[j].state = "checked" /\ jobs'[j].available = balance
        /\ jobs'[j].heard = jobs[j].heard
    <3>1. jobs \in [DOMAIN jobs -> JobRecord]
      BY <1>1 DEF TypeOK
    <3> QED
      BY <1>1, <2>1, <3>1 DEF JobRecord
  <2>3. \A i \in DOMAIN jobs :
            jobs'[i].state = "checked" /\ i.op \in Delete /\ Target[i.op] = Target[j.op]
                => i = j
    BY <1>2, <2>2 DEF Locked, At
  <2>4. JobIsSound(j)'
    BY <1>2, <1>3, <1>4, <1>5, <2>2, <2>3 DEF JobIsSound, At
  <2> QED
    BY <1>1, <1>2, <2>2, <2>4, SameStore
<1>6. CASE ~ orders[Target[j.op]].open
  <2> DEFINE a == [code |-> "conflict"]
  <2>1. Goes(j, "answered", a)
    BY <1>6 DEF ReadOrder, Answers
  <2>2. a \in Answer /\ a.code = "conflict"
    BY AnswerFacts
  <2> HIDE DEF a
  <2>3. /\ jobs' \in [DOMAIN jobs -> JobRecord]
        /\ \A i \in DOMAIN jobs \ {j} : jobs'[i] = jobs[i]
        /\ jobs'[j].state = "answered" /\ jobs'[j].answer = a
        /\ jobs'[j].heard = jobs[j].heard
    BY <1>1, <2>1, <2>2, GoesFacts, SMTT(60)
  \* Without a broken connection this is its operation's only request.
  <2>4. ASSUME NEW k \in orders[Target[j.op]].by, k.op = j.op, ~ broken
        PROVE  FALSE
    <3>1. k \in Known /\ j \in Known /\ k \in Job
      BY <1>1, <1>2, KnownFacts, StateFacts
    <3>2. k.call = 0 /\ k.try = 0 /\ j.call = 0 /\ j.try = 0
      BY <2>4, <3>1 DEF IInv, KeysAreFresh
    <3>3. k = j
      BY <1>2, <2>4, <3>1, <3>2, JobFacts
    <3> QED
      BY <1>2, <1>4, <3>3 DEF JobIsSound, At
  <2>5. AnswerIsTrue(j.op, a)'
    BY <1>2, <1>3, <1>6, <2>2, <2>4 DEF AnswerIsTrue
  <2>6. JobIsSound(j)'
    BY <2>3, <2>5 DEF JobIsSound, At, AnswerIsTrue
  <2> QED
    BY <1>1, <1>2, <2>3, <2>6, SameStore
<1> QED
  BY <1>5, <1>6

\* j has changed its row: it is going to announce that, or never heard of it.
Ending(j) ==
    \/ Goes(j, "written", Has(Made(j))) /\ lost' = lost
    \/ Goes(j, "answered", [code |-> "error"]) /\ lost' = lost \cup {Made(j)}

LEMMA EndingFacts ==
    ASSUME TypeOK, NEW j \in DOMAIN jobs, Ending(j), Made(j) \in Job \cup Resting
    PROVE  /\ DOMAIN jobs' = DOMAIN jobs /\ jobs' \in [DOMAIN jobs -> JobRecord]
           /\ \A i \in DOMAIN jobs \ {j} : jobs'[i] = jobs[i]
           /\ jobs'[j].heard = jobs[j].heard
           /\ \/ /\ jobs'[j].state = "written" /\ jobs'[j].answer = Has(Made(j))
                 /\ lost' = lost
              \/ /\ jobs'[j].state = "answered" /\ lost' = lost \cup {Made(j)}
                 /\ jobs'[j].answer.code = "error"
<1> DEFINE error == [code |-> "error"]
<1>1. error \in Answer /\ error.code = "error" /\ Has(Made(j)) \in Answer
  BY AnswerFacts
<1>2. \/ Goes(j, "written", Has(Made(j))) /\ lost' = lost
      \/ Goes(j, "answered", error) /\ lost' = lost \cup {Made(j)}
  BY DEF Ending
<1> HIDE DEF error
<1>3. CASE Goes(j, "written", Has(Made(j))) /\ lost' = lost
  BY <1>1, <1>3, GoesFacts, SMTT(60)
<1>4. CASE Goes(j, "answered", error) /\ lost' = lost \cup {Made(j)}
  BY <1>1, <1>4, GoesFacts, SMTT(60)
<1> QED
  BY <1>2, <1>3, <1>4

\* The row of j's order is new.
LEMMA InsertStep ==
    ASSUME IInv, NEW j \in DOMAIN jobs, jobs[j].state = "checked", j.op \in Post,
           Existing(j) = {}, rows' = rows \cup {j}, Ending(j),
           UNCHANGED <<client, orders, balance, published, unheard, overlapped, broken, drops>>,
           failures' \in Nat
    PROVE  IInv'
<1> USE DEF IInv
<1>1. j \in Job /\ j.op \notin Delete /\ Made(j) = j
  BY StateFacts, OpFacts DEF Made
<1>2. /\ DOMAIN jobs' = DOMAIN jobs /\ jobs' \in [DOMAIN jobs -> JobRecord]
      /\ \A i \in DOMAIN jobs \ {j} : jobs'[i] = jobs[i]
      /\ jobs'[j].heard = jobs[j].heard
      /\ \/ jobs'[j].state = "written" /\ jobs'[j].answer = Has(j) /\ lost' = lost
         \/ /\ jobs'[j].state = "answered" /\ lost' = lost \cup {j}
            /\ jobs'[j].answer.code = "error"
  BY <1>1, EndingFacts
<1>3. JobIsSound(j) /\ j \notin rows /\ j.op \notin Refused
  BY DEF JobsAreSound, JobIsSound, At
<1>4. j \notin Changed /\ j \notin DOMAIN published \cup lost
  BY <1>1, <1>3, OpFacts DEF EventsAreSound, Changed
<1>5. TypeOK'
  BY <1>1, <1>2, <1>3 DEF TypeOK
<1>6. KeysAreFresh' /\ EveryPageIsServed'
  <2>1. Known' \subseteq Known
    BY <1>2 DEF Known
  <2> QED
    BY <1>2, <2>1, ApiStep
<1>7. AnswersAreTrue'
  BY PagesKeepAnswers
<1>8. JobsAreSound'
  <2> SUFFICES ASSUME NEW i \in DOMAIN jobs'
               PROVE  JobIsSound(i)'
    BY DEF JobsAreSound
  <2>1. CASE i = j
    <3>1. CASE jobs'[j].state = "written"
      BY <1>1, <1>2, <1>4, <2>1, <3>1 DEF JobIsSound, At
    <3>2. CASE jobs'[j].state = "answered"
      BY <1>2, <2>1, <3>2 DEF JobIsSound, At, AnswerIsTrue
    <3> QED
      BY <1>2, <3>1, <3>2
  <2>2. CASE i # j
    <3>1. JobIsSound(i) /\ jobs'[i] = jobs[i] /\ i \in DOMAIN jobs /\ i.op \in Op
      BY <1>2, <2>2, StateFacts DEF JobsAreSound
    <3>2. At(i, "answered") => AnswerIsTrue(i.op, jobs[i].answer)'
      <4>1. At(i, "answered") => AnswerIsTrue(i.op, jobs[i].answer)
        BY <3>1 DEF JobIsSound
      <4> QED
        BY <3>1, <4>1 DEF AnswerIsTrue
    <3>3. \A k \in DOMAIN jobs' : At(k, "checked")' => At(k, "checked")
      BY <1>2 DEF At
    <3>4. At(i, "written") => Made(i) \notin lost'
      BY <1>2, <1>4, <3>1, WrittenFacts DEF At
    <3> QED
      BY <1>2, <2>2, <3>1, <3>2, <3>3, <3>4 DEF JobIsSound, At, Made
  <2> QED
    BY <2>1, <2>2
<1>9. RowsAreSound'
  <2>1. \A i \in rows : ~ (i.op = j.op /\ j.op \in Keyed)
    BY DEF Existing
  <2> QED
    BY <2>1 DEF RowsAreSound
<1>10. EventsAreSound'
  <2>1. Changed' = Changed \cup {j}
    BY DEF Changed
  <2>2. \A o \in Changed : \/ o \in DOMAIN published \cup lost
                           \/ \E i \in DOMAIN jobs' : At(i, "written")' /\ Made(i) = o
    <3> SUFFICES ASSUME NEW o \in Changed, o \notin DOMAIN published \cup lost
                 PROVE  \E i \in DOMAIN jobs' : At(i, "written")' /\ Made(i) = o
      OBVIOUS
    <3>1. PICK i \in DOMAIN jobs : At(i, "written") /\ Made(i) = o
      BY DEF EventsAreSound
    <3> QED
      BY <1>2, <3>1 DEF At
  <2>3. j \in lost' \/ (At(j, "written")' /\ j \in DOMAIN jobs')
    BY <1>2 DEF At
  <2>4. \A o \in Changed' : \/ o \in DOMAIN published' \cup lost'
                            \/ \E i \in DOMAIN jobs' : At(i, "written")' /\ Made(i) = o
    BY <1>1, <1>2, <2>1, <2>2, <2>3
  <2>5. DOMAIN published' \cup lost' \subseteq Changed'
    BY <1>2, <2>1 DEF EventsAreSound
  <2>6. DOMAIN published' \cap lost' \subseteq unheard'
    BY <1>2, <1>4 DEF EventsAreSound
  <2> QED
    BY <2>4, <2>5, <2>6 DEF EventsAreSound, Made
<1>11. BalanceAsRead'
  BY <1>1, <1>2 DEF BalanceAsRead, At
<1> QED
  BY <1>5, <1>6, <1>7, <1>8, <1>9, <1>10, <1>11

LEMMA InsertKeepsIInv ==
    ASSUME IInv, NEW j \in DOMAIN jobs, Insert(j)
    PROVE  IInv'
<1>1. jobs[j].state = "checked" /\ j.op \in Post
  BY DEF Insert, At
<1>2. CASE Existing(j) # {}
  <2>1. Duplicate(j) /\ UNCHANGED <<client, store, published, history, drops, failures>>
    BY <1>2 DEF Insert, store
  <2> QED
    BY <1>1, <2>1, DuplicateStep
<1>3. CASE Existing(j) = {}
  <2>1. rows' = rows \cup {j} /\ Ending(j)
    BY <1>1, <1>3 DEF Insert, Inserted, Ending, Made, history
  <2>2. UNCHANGED <<client, orders, balance, published, unheard, overlapped, broken, drops>>
    BY DEF Insert, history
  <2>3. failures' \in Nat
    BY DEF Insert, IInv, TypeOK
  <2> QED
    BY <1>1, <1>3, <2>1, <2>2, <2>3, InsertStep
<1> QED
  BY <1>2, <1>3

\* The order j is about is cancelled.
LEMMA CancelStep ==
    ASSUME IInv, NEW j \in DOMAIN jobs, jobs[j].state = "checked", j.op \in Delete,
           Cancels(j), Ending(j),
           UNCHANGED <<client, rows, published, unheard, broken, drops>>,
           failures' \in Nat
    PROVE  IInv'
<1> USE DEF IInv
<1> DEFINE t == Target[j.op]
           fee == FeeOf(j)
<1>1. /\ j.op \notin Post /\ j \in Job /\ t \in Resting /\ Made(j) = t
      /\ client' = client /\ rows' = rows /\ published' = published /\ unheard' = unheard
      /\ broken' = broken /\ drops' = drops
      /\ balance' = Deducted(j)
      /\ overlapped' = (overlapped \/
            \E i \in DOMAIN jobs \ {j} : i.op \in Delete /\ At(i, "checked"))
  <2>1. j.op \in Op /\ j \in Job
    BY StateFacts
  <2> QED
    BY <2>1, OpFacts DEF Cancels, Made
<1>2. fee \in Int /\ fee <= jobs[j].available
      /\ (jobs[j].available >= 0 => fee >= 0)
  <2>1. Fee[t] \in Nat /\ jobs[j].available \in Int
    BY <1>1, OpFacts, StateFacts DEF JobRecord
  <2> DEFINE a == Fee[t]
             b == jobs[j].available
  <2>2. fee = Min({a, b})
    BY DEF FeeOf
  <2> HIDE DEF a, b
  <2>3. Min({a, b}) \in {a, b} /\ Min({a, b}) <= a /\ Min({a, b}) <= b
    <3>1. a \in Int /\ b \in Int
      BY <2>1 DEF a, b
    <3> QED
      BY <3>1, MinFacts, Zenon
  <2>4. a \in Nat /\ b \in Int /\ b = jobs[j].available
    BY <2>1 DEF a, b
  <2> HIDE DEF fee
  <2> QED
    BY <2>2, <2>3, <2>4
<1>3. balance' = IF fee > 0 THEN balance - fee ELSE balance
  BY <1>1 DEF Deducted
<1>4. /\ JobIsSound(j) /\ orders[t].open /\ orders[t].by = {}
      /\ \A i \in DOMAIN jobs : jobs[i].state = "checked" /\ i.op \in Delete
                                /\ Target[i.op] = t => i = j
  BY <1>1 DEF JobsAreSound, JobIsSound, At, TypeOK
<1>5. orders' = [orders EXCEPT ![t] = [open |-> FALSE, charged |-> fee, by |-> {j}]]
  <2>1. orders' = [orders EXCEPT ![t] =
                    [open |-> FALSE, charged |-> fee, by |-> orders[t].by \cup {j}]]
    BY DEF Cancels
  <2> QED
    BY <1>4, <2>1
<1> HIDE DEF fee
<1>6. /\ orders' \in [Resting -> OrderRecord]
      /\ \A o \in Resting \ {t} : orders'[o] = orders[o]
      /\ ~ orders'[t].open /\ orders'[t].charged = fee /\ orders'[t].by = {j}
  <2>1. orders \in [Resting -> OrderRecord]
    BY DEF TypeOK
  <2>2. [open |-> FALSE, charged |-> fee, by |-> {j}] \in OrderRecord
    BY <1>1, <1>2 DEF OrderRecord
  <2> QED
    BY <1>1, <1>5, <2>1, <2>2
<1>7. /\ DOMAIN jobs' = DOMAIN jobs /\ jobs' \in [DOMAIN jobs -> JobRecord]
      /\ \A i \in DOMAIN jobs \ {j} : jobs'[i] = jobs[i]
      /\ jobs'[j].heard = jobs[j].heard
      /\ \/ jobs'[j].state = "written" /\ jobs'[j].answer = Has(t) /\ lost' = lost
         \/ /\ jobs'[j].state = "answered" /\ lost' = lost \cup {t}
            /\ jobs'[j].answer.code = "error"
  BY <1>1, EndingFacts
<1>8. t \notin Changed /\ t \notin DOMAIN published \cup lost
  <2>1. t \notin Changed
    BY <1>1, <1>4, OpFacts DEF Changed, TypeOK
  <2> QED
    BY <2>1 DEF EventsAreSound
<1> HIDE DEF t
<1>9. TypeOK'
  <2>1. balance' \in Int
    BY <1>2, <1>3 DEF TypeOK
  <2>2. \A o \in Resting : orders'[o].open <=> orders'[o].by = {}
    BY <1>1, <1>6 DEF TypeOK
  <2>3. overlapped' \in BOOLEAN
    BY <1>1 DEF TypeOK
  <2> QED
    BY <1>1, <1>6, <1>7, <2>1, <2>2, <2>3 DEF TypeOK
<1>10. KeysAreFresh' /\ EveryPageIsServed'
  <2>1. Known' \subseteq Known
    <3> SUFFICES ASSUME NEW k \in Known'
                 PROVE  k \in Known
      OBVIOUS
    <3>1. \/ k \in DOMAIN jobs' \/ k \in rows'
          \/ \E o \in Resting : k \in orders'[o].by
      BY DEF Known
    <3> QED
      BY <1>1, <1>6, <1>7, <3>1, KnownFacts
  <2> QED
    BY <1>1, <1>7, <2>1, ApiStep
<1>11. \A o \in Resting :
          /\ orders[o].by \subseteq orders'[o].by
          /\ ~ orders[o].open => ~ orders'[o].open /\ orders'[o].by = orders[o].by
  BY <1>4, <1>6
<1>12. AnswersAreTrue'
  BY <1>1, <1>11, PagesKeepAnswers
<1>13. JobsAreSound'
  <2> SUFFICES ASSUME NEW i \in DOMAIN jobs'
               PROVE  JobIsSound(i)'
    BY DEF JobsAreSound
  <2>1. CASE i = j
    <3>1. j.op \notin Post /\ Target[j.op] = t
      BY <1>1 DEF t
    <3>2. CASE jobs'[j].state = "written"
      BY <1>1, <1>6, <1>7, <1>8, <2>1, <3>1, <3>2 DEF JobIsSound, At
    <3>3. CASE jobs'[j].state = "answered"
      BY <1>7, <2>1, <3>3 DEF JobIsSound, At, AnswerIsTrue
    <3> QED
      BY <1>7, <3>2, <3>3
  <2>2. CASE i # j
    <3>1. JobIsSound(i) /\ jobs'[i] = jobs[i] /\ i \in DOMAIN jobs /\ i.op \in Op
      BY <1>7, <2>2, StateFacts DEF JobsAreSound
    <3>2. i.op \notin Post => i.op \in Delete /\ Target[i.op] \in Resting
      BY <3>1, OpFacts
    <3>3. At(i, "answered") => AnswerIsTrue(i.op, jobs[i].answer)'
      <4> DEFINE a == jobs[i].answer
      <4> SUFFICES ASSUME At(i, "answered")
                   PROVE  AnswerIsTrue(i.op, jobs[i].answer)'
        OBVIOUS
      <4>1. AnswerIsTrue(i.op, jobs[i].answer)
        BY <3>1 DEF JobIsSound
      <4>2. CASE i.op \in Post
        BY <1>1, <3>1, <4>1, <4>2 DEF AnswerIsTrue
      <4>3. CASE i.op \notin Post
        BY <1>1, <1>11, <3>1, <3>2, <4>1, <4>3 DEF AnswerIsTrue
      <4> QED
        BY <4>2, <4>3
    <3>4. At(i, "checked") \/ At(i, "asked") =>
              i \notin rows' /\ \A o \in Resting : i \notin orders'[o].by
      BY <1>1, <1>6, <2>2, <3>1 DEF JobIsSound
    <3>5. At(i, "checked") =>
              IF i.op \in Post THEN i.op \notin Refused
              ELSE /\ orders'[Target[i.op]].open
                   /\ \A k \in DOMAIN jobs' :
                        At(k, "checked")' /\ k.op \in Delete /\ Target[k.op] = Target[i.op]
                            => k = i
      <4> SUFFICES ASSUME At(i, "checked"), i.op \notin Post
                   PROVE  /\ orders'[Target[i.op]].open
                          /\ \A k \in DOMAIN jobs' :
                                At(k, "checked")' /\ k.op \in Delete
                                    /\ Target[k.op] = Target[i.op] => k = i
        BY <3>1 DEF JobIsSound
      <4>1. /\ orders[Target[i.op]].open
            /\ \A k \in DOMAIN jobs : At(k, "checked") /\ k.op \in Delete
                                      /\ Target[k.op] = Target[i.op] => k = i
        BY <3>1 DEF JobIsSound
      <4>2. Target[i.op] # t
        BY <1>4, <2>2, <3>1, <3>2 DEF At
      <4>3. \A k \in DOMAIN jobs' : At(k, "checked")' => At(k, "checked")
        BY <1>7 DEF At
      <4> QED
        BY <1>6, <1>7, <3>2, <4>1, <4>2, <4>3
    <3>6. At(i, "written") =>
              /\ jobs'[i].answer = Has(Made(i))
              /\ Made(i) \notin lost'
              /\ Made(i) \in DOMAIN published' => Made(i) \in unheard'
              /\ IF i.op \in Post THEN i \in rows' ELSE orders'[Target[i.op]].by = {i}
      <4> SUFFICES ASSUME At(i, "written")
                   PROVE  /\ jobs'[i].answer = Has(Made(i))
                          /\ Made(i) \notin lost'
                          /\ Made(i) \in DOMAIN published' => Made(i) \in unheard'
                          /\ IF i.op \in Post THEN i \in rows'
                             ELSE orders'[Target[i.op]].by = {i}
        OBVIOUS
      <4>1. /\ jobs[i].answer = Has(Made(i))
            /\ Made(i) \notin lost /\ (Made(i) \in DOMAIN published => Made(i) \in unheard)
            /\ IF i.op \in Post THEN i \in rows ELSE orders[Target[i.op]].by = {i}
        BY <3>1 DEF JobIsSound
      <4>2. i.op \notin Post => Target[i.op] # t
        BY <1>4, <4>1
      <4>3. Made(i) \notin lost'
        BY <1>7, <1>8, <3>1, <4>1, WrittenFacts DEF At
      <4> QED
        BY <1>1, <1>6, <3>1, <3>2, <4>1, <4>2, <4>3
    <3> QED
      BY <3>1, <1>7, <3>3, <3>4, <3>5, <3>6 DEF JobIsSound, At, Made
  <2> QED
    BY <2>1, <2>2
<1>14. RowsAreSound'
  BY <1>1, <1>6 DEF RowsAreSound, t
<1>15. EventsAreSound'
  <2>1. Changed' = Changed \cup {t}
    BY <1>1, <1>6 DEF Changed
  <2>2. \A o \in Changed : \/ o \in DOMAIN published \cup lost
                           \/ \E i \in DOMAIN jobs' : At(i, "written")' /\ Made(i) = o
    <3> SUFFICES ASSUME NEW o \in Changed, o \notin DOMAIN published \cup lost
                 PROVE  \E i \in DOMAIN jobs' : At(i, "written")' /\ Made(i) = o
      OBVIOUS
    <3>1. PICK i \in DOMAIN jobs : At(i, "written") /\ Made(i) = o
      BY DEF EventsAreSound
    <3> QED
      BY <1>1, <1>7, <3>1 DEF At
  <2>3. t \in lost' \/ (At(j, "written")' /\ j \in DOMAIN jobs')
    BY <1>7 DEF At
  <2>4. \A o \in Changed' : \/ o \in DOMAIN published' \cup lost'
                            \/ \E i \in DOMAIN jobs' : At(i, "written")' /\ Made(i) = o
    BY <1>1, <1>7, <2>1, <2>2, <2>3
  <2>5. DOMAIN published' \cup lost' \subseteq Changed'
    BY <1>1, <1>7, <2>1 DEF EventsAreSound
  <2>6. DOMAIN published' \cap lost' \subseteq unheard'
    BY <1>1, <1>7, <1>8 DEF EventsAreSound
  <2> QED
    BY <1>1, <2>4, <2>5, <2>6 DEF EventsAreSound, Made
<1>16. BalanceAsRead'
  <2> SUFFICES ASSUME ~ overlapped'
               PROVE  /\ balance' >= 0 /\ \A o \in Resting : orders'[o].charged >= 0
                      /\ \A i \in DOMAIN jobs' : i.op \in Delete /\ At(i, "checked")' =>
                            jobs'[i].available = balance'
    BY DEF BalanceAsRead
  <2>1. /\ ~ overlapped
        /\ \A i \in DOMAIN jobs \ {j} : ~ (i.op \in Delete /\ At(i, "checked"))
    BY <1>1
  <2>2. /\ balance >= 0 /\ \A o \in Resting : orders[o].charged >= 0
        /\ jobs[j].available = balance
    BY <1>1, <2>1 DEF BalanceAsRead, At
  <2>3. balance' >= 0 /\ fee >= 0
    BY <1>2, <1>3, <2>2 DEF TypeOK
  <2>4. \A o \in Resting : orders'[o].charged >= 0
    BY <1>6, <2>2, <2>3
  <2>5. \A i \in DOMAIN jobs' : ~ (i.op \in Delete /\ At(i, "checked")')
    BY <1>7, <2>1 DEF At
  <2> QED
    BY <2>3, <2>4, <2>5
<1> QED
  BY <1>9, <1>10, <1>12, <1>13, <1>14, <1>15, <1>16

LEMMA CancelRowKeepsIInv ==
    ASSUME IInv, NEW j \in DOMAIN jobs, CancelRow(j)
    PROVE  IInv'
<1>1. jobs[j].state = "checked" /\ j.op \in Delete /\ j.op \notin Post
  BY StateFacts, OpFacts DEF CancelRow, At, IInv
<1>2. Cancels(j) /\ Ending(j)
  BY <1>1 DEF CancelRow, Ending, Made
<1>3. UNCHANGED <<client, rows, published, unheard, broken, drops>>
  BY DEF CancelRow
<1>4. failures' \in Nat
  BY DEF CancelRow, IInv, TypeOK
<1> QED
  BY <1>1, <1>2, <1>3, <1>4, CancelStep

LEMMA CommitUnheardKeepsIInv ==
    ASSUME IInv, NEW j \in DOMAIN jobs, CommitUnheard(j)
    PROVE  IInv'
<1>1. /\ jobs[j].state = "checked" /\ Ending(j) /\ failures' \in Nat
      /\ UNCHANGED <<client, published, unheard, broken, drops>>
  <2>1. failures \in Nat
    BY DEF IInv, TypeOK
  <2> QED
    BY <2>1 DEF CommitUnheard, Fails, Ending, Answers, At
<1>2. CASE j.op \in Post
  <2>1. /\ Existing(j) = {} /\ rows' = rows \cup {j}
        /\ UNCHANGED <<orders, balance, overlapped>>
    BY <1>2 DEF CommitUnheard
  <2>2. UNCHANGED <<client, orders, balance, published, unheard, overlapped, broken, drops>>
    BY <1>1, <2>1
  <2> QED
    BY <1>1, <1>2, <2>1, <2>2, InsertStep
<1>3. CASE j.op \notin Post
  <2>1. Cancels(j) /\ rows' = rows
    BY <1>3 DEF CommitUnheard
  <2>2. j.op \in Delete
    BY <1>3, StateFacts, OpFacts DEF IInv
  <2>3. UNCHANGED <<client, rows, published, unheard, broken, drops>>
    BY <1>1, <2>1
  <2> QED
    BY <1>1, <2>1, <2>2, <2>3, CancelStep
<1> QED
  BY <1>2, <1>3

-----------------------------------------------------------------------------
(* The invariant.                                                           *)

LEMMA InitIInv == Init => IInv
<1> SUFFICES ASSUME Init
             PROVE  IInv
  OBVIOUS
<1>1. PICK c \in Cases :
        /\ client = [op \in c.ops |-> [status |-> "idle", call |-> 0, answer |-> NoAnswer]]
        /\ drops = c.drops /\ failures = c.failures
  BY DEF Init
<1>2. c.ops \subseteq Op /\ c.drops \in Nat /\ c.failures \in Nat
  BY <1>1, RequestsAssumption DEF Op
<1>3. /\ jobs = <<>> /\ rows = {} /\ balance = Funds /\ published = <<>> /\ lost = {}
      /\ orders = [o \in Resting |-> [open |-> TRUE, charged |-> 0, by |-> {}]]
      /\ unheard = {} /\ overlapped = FALSE /\ broken = FALSE
  BY DEF Init
<1>4. DOMAIN jobs = {} /\ jobs \in [{} -> JobRecord] /\ DOMAIN published = {}
  BY <1>3
<1>5. /\ client \in [c.ops -> ClientRecord]
      /\ \A op \in c.ops : /\ client[op].status = "idle" /\ client[op].call = 0
                           /\ client[op].answer.code = "none"
  <2>1. NoAnswer \in Answer /\ NoAnswer.code = "none"
    BY AnswerFacts DEF NoAnswer
  <2>2. 0 \in 0..MAX_RETRIES
    BY OpFacts
  <2> HIDE DEF NoAnswer
  <2> QED
    BY <1>1, <2>1, <2>2 DEF ClientRecord
<1>6. /\ orders \in [Resting -> OrderRecord]
      /\ \A o \in Resting : orders[o].open /\ orders[o].charged = 0 /\ orders[o].by = {}
  BY <1>3 DEF OrderRecord
<1>7. TypeOK
  <2>1. DOMAIN client = c.ops /\ DOMAIN jobs = {}
    BY <1>4, <1>5
  <2>2. balance \in Int
    BY <1>3, OpFacts
  <2>3. \A o \in Resting : orders[o].open <=> orders[o].by = {}
    BY <1>6
  <2> QED
    BY <1>1, <1>2, <1>3, <1>4, <1>5, <1>6, <2>1, <2>2, <2>3 DEF TypeOK
<1>8. KeysAreFresh
  <2>1. Known = {}
    BY <1>3, <1>4, <1>6, KnownFacts
  <2> QED
    BY <1>4, <1>5, <2>1 DEF KeysAreFresh
<1>9. JobsAreSound /\ RowsAreSound /\ EventsAreSound /\ BalanceAsRead
  BY <1>3, <1>4, <1>6, OpFacts
     DEF JobsAreSound, RowsAreSound, EventsAreSound, BalanceAsRead, Changed
<1>10. AnswersAreTrue
  BY <1>5 DEF AnswersAreTrue, AnswerIsTrue
<1>11. EveryPageIsServed
  BY <1>5 DEF EveryPageIsServed, Waits
<1> QED
  BY <1>7, <1>8, <1>9, <1>10, <1>11 DEF IInv

LEMMA StutterKeepsIInv ==
    ASSUME IInv, UNCHANGED vars
    PROVE  IInv'
<1>1. /\ client' = client /\ jobs' = jobs /\ rows' = rows /\ orders' = orders
      /\ balance' = balance /\ published' = published /\ lost' = lost
      /\ unheard' = unheard /\ overlapped' = overlapped /\ broken' = broken
      /\ drops' = drops /\ failures' = failures
  BY DEF vars, store, history
<1>2. TypeOK'
  BY <1>1 DEF IInv, TypeOK
<1>3. KeysAreFresh' /\ EveryPageIsServed'
  <2>1. Known' = Known
    BY <1>1 DEF Known
  <2> QED
    BY <1>1, <2>1, ApiStep
<1>4. JobsAreSound' /\ RowsAreSound' /\ EventsAreSound' /\ BalanceAsRead'
  BY <1>1, <1>2, QuietStep DEF IInv, store
<1>5. AnswersAreTrue'
  BY <1>1, PagesKeepAnswers DEF IInv
<1> QED
  BY <1>2, <1>3, <1>4, <1>5 DEF IInv

LEMMA Invariance == Spec => []IInv
<1>1. ASSUME IInv, [Next]_vars
      PROVE  IInv'
  <2>1. CASE UNCHANGED vars
    BY <1>1, <2>1, StutterKeepsIInv
  <2>2. ASSUME NEW op \in DOMAIN client, Submit(op) \/ apiFetch(op)
        PROVE  IInv'
    BY <1>1, <2>2, SubmitKeepsIInv, ApiFetchKeepsIInv
  <2>3. ASSUME NEW j \in DOMAIN jobs, Serve(j)
        PROVE  IInv'
    BY <1>1, <2>3, CheckKeyKeepsIInv, InsertKeepsIInv, ReadOrderKeepsIInv,
       CancelRowKeepsIInv, PublishKeepsIInv, RespondKeepsIInv DEF Serve
  <2>4. ASSUME NEW j \in DOMAIN jobs,
               \/ RoundTrip(j) \/ Abandon(j) \/ StatementFails(j)
               \/ CommitUnheard(j) \/ WriteUnheard(j) \/ PublishFails(j)
        PROVE  IInv'
    BY <1>1, <2>4, RoundTripKeepsIInv, StatementFailsKeepsIInv, CommitUnheardKeepsIInv,
       WriteUnheardKeepsIInv, PublishFailsKeepsIInv, AbandonKeepsIInv
  <2> QED
    BY <1>1, <2>1, <2>2, <2>3, <2>4 DEF Next
<1> QED
  BY <1>1, InitIInv, PTL DEF Spec

-----------------------------------------------------------------------------
(* What the invariant is for.                                               *)

\* Requests, rows, answers, fees and counters keep their types, and an order is
\* open exactly as long as nobody has cancelled it: however often the browser
\* and the gateway send, and whatever breaks or fails.
THEOREM TypeCorrect == Spec => []TypeOK
<1>1. IInv => TypeOK
  BY DEF IInv
<1> QED
  BY <1>1, Invariance, PTL

LEMMA AtMostOne ==
    ASSUME NEW S, \A i, j \in S : i = j
    PROVE  Cardinality(S) <= 1
<1>1. CASE S = {}
  BY <1>1, FS_EmptySet
<1>2. CASE S # {}
  <2>1. PICK i \in S : S = {i}
    BY <1>2
  <2>2. Cardinality({i}) = 1
    BY FS_Singleton, Zenon
  <2> QED
    BY <2>1, <2>2
<1> QED
  BY <1>1, <1>2

\* A second insert of a key meets the unique index whenever it comes, so an order
\* with a key is one row; one without is a second row only after a connection
\* broke and the request was sent again.
THEOREM KeyedOrdersOnce == Spec => []OneRowPerKey
<1>1. IInv => OneRowPerKey
  <2> SUFFICES ASSUME IInv, NEW op \in Post, ~ (op \notin Keyed /\ broken)
               PROVE  Cardinality({j \in rows : j.op = op}) <= 1
    BY DEF OneRowPerKey
  <2> DEFINE S == {j \in rows : j.op = op}
  <2>1. ASSUME NEW i \in S, NEW j \in S
        PROVE  i = j
    <3>1. CASE op \in Keyed
      BY <3>1 DEF IInv, RowsAreSound
    <3>2. CASE ~ broken
      <4>1. i \in Known /\ j \in Known /\ i \in Job /\ j \in Job /\ i.op = j.op
        BY KnownFacts DEF IInv, TypeOK
      <4>2. i.call = 0 /\ i.try = 0 /\ j.call = 0 /\ j.try = 0
        BY <3>2, <4>1 DEF IInv, KeysAreFresh
      <4> QED
        BY <4>1, <4>2, JobFacts
    <3> QED
      BY <3>1, <3>2
  <2> HIDE DEF S
  <2>2. Cardinality(S) <= 1
    BY <2>1, AtMostOne
  <2> QED
    BY <2>2 DEF S
<1> QED
  BY <1>1, Invariance, PTL

\* A page that is told its order was accepted finds it in the table, one that is
\* told its cancellation went through made it, and one that is told the order was
\* closed already finds it closed, by its own request only if a connection broke.
THEOREM AnswersTrue == Spec => []AnswersAreTrue
<1>1. IInv => AnswersAreTrue
  BY DEF IInv
<1> QED
  BY <1>1, Invariance, PTL

\* Nothing is announced that is not in the table, and twice only what was written
\* again because a broker's answer was lost.  When nobody is at work, every order
\* is in the topic but those whose publish failed, whose client had gone or whose
\* commit was not heard of, before any write of theirs arrived.
THEOREM Announcement == Spec => []AnnouncedUnlessLost
<1>1. IInv => AnnouncedUnlessLost
  <2> SUFFICES ASSUME IInv
               PROVE  AnnouncedUnlessLost
    OBVIOUS
  <2>1. ASSUME NEW o \in DOMAIN published
        PROVE  /\ published[o] > 1 => o \in unheard
               /\ o \in rows \/ (o \in Resting /\ ~ orders[o].open)
    BY DEF IInv, EventsAreSound, Changed
  <2>2. ASSUME DOMAIN jobs = {}, NEW o \in rows \cup {r \in Resting : ~ orders[r].open}
        PROVE  Announced(o) = 0 <=> o \in lost \ unheard
    <3>1. o \in Changed /\ o \in DOMAIN published \cup lost
      BY <2>2 DEF IInv, EventsAreSound, Changed
    <3>2. CASE o \in DOMAIN published
      <4>1. published[o] >= 1 /\ published[o] \in Nat /\ (o \in lost => o \in unheard)
        BY <3>2 DEF IInv, EventsAreSound, TypeOK
      <4> QED
        BY <3>2, <4>1 DEF Announced
    <3>3. CASE o \notin DOMAIN published
      BY <3>1, <3>3 DEF IInv, EventsAreSound, Announced
    <3> QED
      BY <3>2, <3>3
  <2> QED
    BY <2>1, <2>2 DEF AnnouncedUnlessLost
<1> QED
  BY <1>1, Invariance, PTL

\* Every page that waits has a request at work whose answer it will take: no
\* retry of the gateway or of the browser leaves it waiting for nothing.
THEOREM PagesServed == Spec => []EveryPageIsServed
<1>1. IInv => EveryPageIsServed
  BY DEF IInv
<1> QED
  BY <1>1, Invariance, PTL

\* Two parts of FeesAddUp: the lock on its row lets an order be cancelled once,
\* and neither the balance nor a fee is negative unless two cancellations of the
\* user, each with its own order locked, overlapped.
LEMMA FeesOnceAndCapped == Spec => [](CancelledOnce /\ NegativeOnlyByOverlap)
<1>1. IInv => CancelledOnce
  <2> SUFFICES ASSUME IInv, NEW o \in Resting
               PROVE  Cardinality(orders[o].by) <= 1
    BY DEF CancelledOnce
  <2>1. \A i, j \in orders[o].by : i = j
    BY DEF IInv, RowsAreSound
  <2> QED
    BY <2>1, AtMostOne
<1>2. IInv => NegativeOnlyByOverlap
  <2> SUFFICES ASSUME IInv, ~ overlapped
               PROVE  balance >= 0 /\ \A o \in Resting : orders[o].charged >= 0
    <3>1. IInv => balance \in Int /\ \A o \in Resting : orders[o].charged \in Int
      BY DEF IInv, TypeOK, OrderRecord
    <3> QED
      BY <3>1 DEF NegativeOnlyByOverlap
  <2> QED
    BY DEF IInv, BalanceAsRead
<1> QED
  BY <1>1, <1>2, Invariance, PTL

-----------------------------------------------------------------------------
(* The sum of the fees.                                                     *)

Charges == [o \in Resting |-> Max({0, orders[o].charged})]
FeesTaken == MapThenSumSet(LAMBDA o : Max({0, orders[o].charged}), Resting)

LEMMA MaxFacts ==
    ASSUME NEW a \in Int
    PROVE  Max({0, a}) = IF a > 0 THEN a ELSE 0
<1>1. \E x \in {0, a} : \A y \in {0, a} : x >= y
  OBVIOUS
<1>2. Max({0, a}) \in {0, a} /\ Max({0, a}) >= 0 /\ Max({0, a}) >= a
  BY <1>1 DEF Max
<1> QED
  BY <1>2

\* However TLA+ goes through the orders, FeesTaken is their sum.
FeesAreASum ==
    /\ Charges \in [Resting -> Int]
    /\ \E g : Adds(g, Charges, Resting) /\ g[{}] = 0 /\ g[Resting] = FeesTaken

LEMMA FeesSum == TypeOK => FeesAreASum
<1> SUFFICES ASSUME TypeOK
             PROVE  FeesAreASum
  OBVIOUS
<1>1. IsFiniteSet(Resting)
  BY RequestsAssumption
<1>2. Charges \in [Resting -> Int]
  <2>1. \A o \in Resting : orders[o].charged \in Int
    BY DEF TypeOK, OrderRecord
  <2>2. \A o \in Resting : Max({0, orders[o].charged}) \in Int
    BY <2>1, MaxFacts
  <2> QED
    BY <2>2 DEF Charges
<1> DEFINE c == [s \in SUBSET Resting |-> CHOOSE x \in s : TRUE]
<1>3. Chooses(c, Resting)
  BY SomeChooses, Zenon
<1>4. \A s \in SUBSET Resting : c[s] = CHOOSE x \in s : TRUE
  OBVIOUS
<1> HIDE DEF c
<1>5. PICK g \in [SUBSET Resting -> Int] : AddsBy(g, Charges, Resting, c)
  <2>1. PICK f \in [Resting -> Int] : f = Charges
    BY <1>2
  <2>2. \E g \in [SUBSET Resting -> Int] : AddsBy(g, f, Resting, c)
    BY <1>1, <1>3, SumExists
  <2> QED
    BY <2>1, <2>2
<1>6. g = [s \in SUBSET Resting |->
              IF s = {} THEN 0
              ELSE LET x == CHOOSE x \in s : TRUE
                   IN  Max({0, orders[x].charged}) + g[s \ {x}]]
  <2>1. ASSUME NEW s \in SUBSET Resting, s # {}
        PROVE  g[s] = Max({0, orders[c[s]].charged}) + g[s \ {c[s]}]
    <3>1. c[s] \in Resting
      BY <1>3, <2>1 DEF Chooses
    <3>2. Charges[c[s]] = Max({0, orders[c[s]].charged})
      BY <3>1 DEF Charges
    <3> QED
      BY <1>5, <2>1, <3>2 DEF AddsBy
  <2>2. \A s \in SUBSET Resting :
            g[s] = IF s = {} THEN 0
                   ELSE LET x == CHOOSE x \in s : TRUE
                        IN  Max({0, orders[x].charged}) + g[s \ {x}]
    BY <1>4, <1>5, <2>1 DEF AddsBy
  <2> QED
    BY <2>2
<1>7. PICK i : /\ i = [s \in SUBSET Resting |->
                          IF s = {} THEN 0
                          ELSE LET x == CHOOSE x \in s : TRUE
                               IN  Max({0, orders[x].charged}) + i[s \ {x}]]
               /\ i[Resting] = FeesTaken
  BY <1>6, Zenon DEF FeesTaken, MapThenSumSet, MapThenFoldSet
<1>8. ASSUME NEW s \in SUBSET Resting, s # {}
      PROVE  \E x \in s : i[s] = Charges[x] + i[s \ {x}]
  <2>1. PICK x \in s : x = CHOOSE y \in s : TRUE
    BY <1>8
  <2>2. i[s] = Max({0, orders[x].charged}) + i[s \ {x}]
    BY <1>7, <1>8, <2>1
  <2>3. Charges[x] = Max({0, orders[x].charged})
    BY DEF Charges
  <2> QED
    BY <2>2, <2>3
<1>9. Sums(i, Charges, Resting)
  BY <1>7, <1>8 DEF Sums
<1> QED
  BY <1>1, <1>2, <1>7, <1>9, AnyOrder DEF FeesAreASum

\* The inductive invariant: an order is charged when it is closed, not before.
UnchargedWhileOpen == \A o \in Resting : orders[o].open => orders[o].charged = 0

FeesBalance == UnchargedWhileOpen /\ balance = Funds - FeesTaken

LEMMA InitFees == Init => FeesBalance
<1> SUFFICES ASSUME Init
             PROVE  FeesBalance
  OBVIOUS
<1>1. UnchargedWhileOpen /\ \A o \in Resting : orders[o].charged = 0
  BY DEF Init, UnchargedWhileOpen
<1>2. \A o \in Resting : Charges[o] = 0
  <2>1. Max({0, 0}) = 0
    BY MaxFacts
  <2> QED
    BY <1>1, <2>1 DEF Charges
<1>3. TypeOK
  BY InitIInv DEF IInv
<1>4. PICK g : Adds(g, Charges, Resting) /\ g[{}] = 0 /\ g[Resting] = FeesTaken
  BY <1>3, FeesSum DEF FeesAreASum
<1>5. g[Resting] = 0
  <2>1. PICK f : f = Charges
    OBVIOUS
  <2> QED
    BY <1>2, <1>4, <2>1, SumOfNothing, RequestsAssumption
<1>6. balance = Funds /\ Funds \in Nat
  BY RequestsAssumption DEF Init
<1> QED
  BY <1>1, <1>4, <1>5, <1>6 DEF FeesBalance

\* CancelRow, or one whose commit was not heard of.
TakesFee(j) == At(j, "checked") /\ j.op \in Delete /\ Cancels(j)

LEMMA OthersTakeNoFee ==
    ASSUME TypeOK, [Next]_vars, ~ \E j \in DOMAIN jobs : TakesFee(j)
    PROVE  UNCHANGED <<orders, balance>>
<1>1. CASE UNCHANGED vars
  BY <1>1 DEF vars, store
<1>2. ASSUME NEW op \in DOMAIN client, Submit(op) \/ apiFetch(op)
      PROVE  UNCHANGED <<orders, balance>>
  BY <1>2 DEF Submit, apiFetch, store
<1>3. ASSUME NEW j \in DOMAIN jobs,
             \/ Serve(j) \/ RoundTrip(j) \/ Abandon(j)
             \/ StatementFails(j) \/ WriteUnheard(j) \/ PublishFails(j)
      PROVE  UNCHANGED <<orders, balance>>
  <2>1. ~ CancelRow(j)
    BY DEF TakesFee, CancelRow
  <2> QED
    BY <1>3, <2>1 DEF Serve, CheckKey, Insert, ReadOrder, Publish, Respond, RoundTrip,
       StatementFails, WriteUnheard, PublishFails, Abandon, store
<1>4. ASSUME NEW j \in DOMAIN jobs, CommitUnheard(j)
      PROVE  UNCHANGED <<orders, balance>>
  <2>1. j.op \notin Post => j.op \in Delete
    BY StateFacts, OpFacts
  <2> QED
    BY <1>4, <2>1 DEF CommitUnheard, TakesFee
<1> QED
  BY <1>1, <1>2, <1>3, <1>4 DEF Next

LEMMA FeesStayEqual ==
    ASSUME FeesBalance, UNCHANGED <<orders, balance>>
    PROVE  FeesBalance'
<1>1. orders' = orders
  OBVIOUS
<1>2. FeesTaken' = FeesTaken
  BY <1>1 DEF FeesTaken, MapThenSumSet, MapThenFoldSet
<1> QED
  BY <1>2 DEF FeesBalance, UnchargedWhileOpen

LEMMA TakesFeeKeepsFees ==
    ASSUME IInv, IInv', FeesBalance, NEW j \in DOMAIN jobs, TakesFee(j)
    PROVE  FeesBalance'
<1>1. PICK t \in Resting : t = Target[j.op] /\ orders[t].open
  <2>1. j.op \in Delete /\ At(j, "checked") /\ Target[j.op] \in Resting
    BY OpFacts DEF TakesFee, Cancels
  <2>2. JobIsSound(j)
    BY DEF IInv, JobsAreSound
  <2>3. orders[Target[j.op]].open
    <3>1. j.op \notin Post
      BY <2>1, OpFacts, StateFacts DEF IInv
    <3> QED
      BY <2>1, <2>2, <3>1 DEF JobIsSound
  <2> QED
    BY <2>1, <2>3
<1>2. PICK fee \in Int : fee = FeeOf(j)
  <2>1. orders'[t].charged \in Int
    BY DEF IInv, TypeOK, OrderRecord
  <2>2. orders \in [Resting -> OrderRecord]
    BY DEF IInv, TypeOK
  <2>3. orders'[t].charged = FeeOf(j)
    BY <1>1, <2>2 DEF TakesFee, Cancels
  <2> QED
    BY <2>1, <2>3
<1>3. /\ orders'[t].charged = fee /\ ~ orders'[t].open
      /\ \A o \in Resting \ {t} : orders'[o] = orders[o]
      /\ orders[t].charged = 0
  <2>1. orders \in [Resting -> OrderRecord]
    BY DEF IInv, TypeOK
  <2> QED
    BY <1>1, <1>2, <2>1 DEF TakesFee, Cancels, FeesBalance, UnchargedWhileOpen
<1>4. UnchargedWhileOpen'
  BY <1>3 DEF FeesBalance, UnchargedWhileOpen
<1>5. PICK f \in [Resting -> Int] : f = Charges
  BY FeesSum DEF IInv, FeesAreASum
<1>6. PICK k \in [Resting -> Int] : k = Charges'
  <2>1. FeesAreASum'
    BY FeesSum, PTL DEF IInv
  <2> QED
    BY <2>1 DEF FeesAreASum
<1>7. PICK g : Adds(g, f, Resting) /\ g[{}] = 0 /\ g[Resting] = FeesTaken
  BY <1>5, FeesSum DEF IInv, FeesAreASum
<1>8. PICK h : Adds(h, k, Resting) /\ h[{}] = 0 /\ h[Resting] = FeesTaken'
  <2>1. FeesAreASum'
    BY FeesSum, PTL DEF IInv
  <2> QED
    BY <1>6, <2>1 DEF FeesAreASum
<1>9. f[t] = 0 /\ k[t] = (IF fee > 0 THEN fee ELSE 0) /\ \A o \in Resting \ {t} : k[o] = f[o]
  <2>1. Max({0, 0}) = 0 /\ Max({0, fee}) = IF fee > 0 THEN fee ELSE 0
    BY MaxFacts
  <2> QED
    BY <1>3, <1>5, <1>6, <2>1 DEF Charges
<1>10. g[Resting] \in Int /\ h[Resting] = g[Resting] - f[t] + k[t]
  BY <1>7, <1>8, <1>9, SumUpdate, RequestsAssumption
<1>11. balance' = (IF fee > 0 THEN balance - fee ELSE balance) /\ balance \in Int /\ Funds \in Nat
  BY <1>2, RequestsAssumption DEF TakesFee, Cancels, Deducted, IInv, TypeOK
<1>12. balance = Funds - g[Resting] /\ h[Resting] = g[Resting] + (IF fee > 0 THEN fee ELSE 0)
  BY <1>7, <1>9, <1>10 DEF FeesBalance
<1>13. balance' = Funds - h[Resting]
  BY <1>10, <1>11, <1>12
<1> QED
  BY <1>4, <1>8, <1>13 DEF FeesBalance

\* What left the balance is exactly the fees the rows show, less the negative
\* ones, which are not deducted; an order is cancelled once; and neither the
\* balance nor a fee is negative unless two cancellations overlapped.
THEOREM FeesBalanced == Spec => []FeesAddUp
<1>1. ASSUME IInv, IInv', FeesBalance, [Next]_vars
      PROVE  FeesBalance'
  BY <1>1, OthersTakeNoFee, FeesStayEqual, TakesFeeKeepsFees DEF IInv
<1>2. Spec => []FeesBalance
  BY <1>1, InitFees, Invariance, PTL DEF Spec
<1>3. FeesBalance => balance = Funds - MapThenSumSet(LAMBDA o : Max({0, orders[o].charged}), Resting)
  BY DEF FeesBalance, FeesTaken
<1>4. CancelledOnce /\ NegativeOnlyByOverlap /\ FeesBalance => FeesAddUp
  BY <1>3 DEF FeesAddUp
<1> QED
  BY <1>2, <1>4, FeesOnceAndCapped, PTL
=============================================================================
