----------------------- MODULE SettlementPipelineProofs -----------------------
(***************************************************************************)
(* Proofs about SettlementPipeline.tla, for any trades, readers, retries    *)
(* and faults.                                                              *)
(***************************************************************************)
EXTENDS SettlementPipeline, TLAPS

-----------------------------------------------------------------------------
(* The inductive invariant.                                                 *)

\* What a reader has been through is done, but for the message it is handling.
Passed(r) ==
    \A i \in 1..position[r] :
        \/ Done(r, i)
        \/ [reader |-> r, offset |-> i] \in excused
        \/ i = position[r] /\ stage[r] \in {"handle", "balances"}

\* It has not committed the message it is at, and of two publishes the first
\* has been made before the second.
Within(r) ==
    /\ stage[r] # "fetch" => asked[r] < position[r]
    /\ stage[r] = "balances" =>
        r = "settlement" /\ Message(r) \in ToSet(log["settled"])

\* As long as nothing makes the event log go back, it has stored what lies
\* behind it, once.
StoredBehind ==
    \A i \in DOMAIN events : restarted \/ unsure \/
        /\ events[i] = 1
        /\ "eventlog" \in Running /\ i <= position["eventlog"]
        /\ stage["eventlog"] = "handle" => i < position["eventlog"]

IInv == TypeOK /\ (\A r \in Running : Passed(r) /\ Within(r)) /\ StoredBehind

-----------------------------------------------------------------------------
(* The topics and the readers.                                              *)

LEMMA SourceFacts ==
    /\ \A r \in Reader : Source(r) \in Topic
    /\ Source("settlement") = "matched" /\ Source("orders") = "matched"
    /\ Source("trades") = "settled" /\ Source("balances") = "balances"
    /\ Source("eventlog") = LogTopic
<1>1. LogTopic \in Topic
  BY PipelineAssumption
<1> QED
  BY <1>1 DEF Source, Reader, Topic

\* What every action finds.
LEMMA StateFacts ==
    ASSUME TypeOK, NEW r \in Running
    PROVE  /\ r \in Reader /\ Source(r) \in Topic /\ log[Source(r)] \in Seq(Trade)
           /\ position[r] \in Nat /\ asked[r] \in Nat /\ committed[r] \in Nat
           /\ committed[r] <= asked[r] /\ asked[r] <= position[r]
           /\ position[r] <= Len(log[Source(r)]) /\ Len(log[Source(r)]) \in Nat
           /\ attempt[r] \in 0..maxRetries
<1>1. r \in Reader /\ Source(r) \in Topic
  BY SourceFacts DEF TypeOK
<1>2. log[Source(r)] \in Seq(Trade)
  BY <1>1 DEF TypeOK
<1> QED
  BY <1>1, <1>2 DEF TypeOK

LEMMA MessageFacts ==
    ASSUME TypeOK, NEW r \in Running, NEW i \in 1..position[r]
    PROVE  i \in 1..Len(log[Source(r)]) /\ log[Source(r)][i] \in Trade
<1>1. i \in 1..Len(log[Source(r)])
  BY StateFacts
<1> QED
  BY <1>1, StateFacts

\* A reader that is not fetching has a message.
LEMMA MessageIsATrade ==
    ASSUME TypeOK, NEW r \in Running, Within(r), stage[r] # "fetch"
    PROVE  /\ position[r] \in 1..position[r] /\ Message(r) \in Trade
           /\ asked[r] < position[r] /\ committed[r] < position[r]
<1>1. asked[r] < position[r]
  BY DEF Within
<1>2. position[r] \in 1..position[r] /\ committed[r] < position[r]
  BY <1>1, StateFacts
<1> QED
  BY <1>1, <1>2, MessageFacts DEF Message

\* No step takes back what another has done.
Kept ==
    /\ \A t \in Topic : /\ log'[t] \in Seq(Trade) /\ Len(log[t]) <= Len(log'[t])
                        /\ \A i \in 1..Len(log[t]) : log'[t][i] = log[t][i]
    /\ \A t \in Trade :
        /\ rows[t] # "none" => rows'[t] # "none"
        /\ rows[t] = "settled" \/ t \in early => rows'[t] = "settled" \/ t \in early'
    /\ \A i \in DOMAIN events : i \in DOMAIN events' /\ events'[i] \in Nat \ {0}
    /\ excused \subseteq excused'
    /\ Running' = Running

LEMMA StoresKept ==
    ASSUME TypeOK, UNCHANGED <<log, stores>>, excused \subseteq excused', Running' = Running
    PROVE  Kept
<1>1. /\ log' = log /\ rows' = rows /\ early' = early /\ events' = events
  BY DEF stores
<1>2. \A t \in Topic : log[t] \in Seq(Trade) /\ Len(log[t]) \in Nat
  BY DEF TypeOK
<1>3. \A i \in DOMAIN events : events[i] \in Nat \ {0}
  BY DEF TypeOK
<1> QED
  BY <1>1, <1>2, <1>3 DEF Kept

LEMMA LogKept ==
    ASSUME TypeOK, Kept, NEW t \in Topic, NEW m \in ToSet(log[t])
    PROVE  m \in ToSet(log'[t])
<1>1. log[t] \in Seq(Trade) /\ log'[t] \in Seq(Trade) /\ Len(log[t]) <= Len(log'[t])
  BY DEF TypeOK, Kept
<1>2. PICK i \in 1..Len(log[t]) : m = log[t][i]
  BY <1>1 DEF ToSet
<1>3. i \in DOMAIN log'[t] /\ log'[t][i] = m
  BY <1>1, <1>2 DEF Kept
<1> QED
  BY <1>3 DEF ToSet

LEMMA DoneStays ==
    ASSUME TypeOK, Kept, NEW r \in Running, NEW i \in 1..position[r], Done(r, i)
    PROVE  Done(r, i)'
<1> DEFINE t == log[Source(r)][i]
<1>1. t \in Trade /\ log'[Source(r)][i] = t /\ r \in Reader
  BY StateFacts, MessageFacts DEF Kept
<1> HIDE DEF t
<1>2. CASE r = "settlement"
  <2>1. t \in ToSet(log["settled"]) /\ t \in ToSet(log["balances"])
    BY <1>2 DEF Done, t
  <2>2. t \in ToSet(log'["settled"]) /\ t \in ToSet(log'["balances"])
    BY <2>1, LogKept DEF Topic
  <2> QED
    BY <1>1, <1>2, <2>2 DEF Done
<1>3. CASE r = "orders"
  <2>1. rows[t] # "none"
    BY <1>3 DEF Done, t
  <2> QED
    BY <1>1, <1>3, <2>1 DEF Done, Kept
<1>4. CASE r = "trades"
  <2>1. rows[t] = "settled" \/ t \in early
    BY <1>4 DEF Done, t
  <2> QED
    BY <1>1, <1>4, <2>1 DEF Done, Kept
<1>5. CASE r = "balances"
  BY <1>5 DEF Done
<1>6. CASE r = "eventlog"
  <2>1. Saved(i) > 0
    BY <1>6 DEF Done
  <2>2. i \in DOMAIN events' /\ events'[i] \in Nat \ {0}
    BY <2>1 DEF Saved, Kept
  <2>3. Saved(i)' > 0
    BY <2>2 DEF Saved
  <2> QED
    BY <1>6, <2>3 DEF Done
<1> QED
  BY <1>1, <1>2, <1>3, <1>4, <1>5, <1>6 DEF Reader

\* What lies behind a reader stays done, and the message it is at may be left
\* undone only if it is still being handled.
LEMMA PassedStays ==
    ASSUME TypeOK, Kept, NEW r \in Running, Passed(r),
           position'[r] \in Nat, position'[r] <= position[r],
           \/ position'[r] < position[r]
           \/ stage'[r] \in {"handle", "balances"} \/ stage[r] \notin {"handle", "balances"}
           \/ Done(r, position[r])' \/ This(r) \in excused'
    PROVE  Passed(r)'
<1> SUFFICES ASSUME NEW i \in 1..position'[r]
             PROVE  \/ Done(r, i)'
                    \/ [reader |-> r, offset |-> i] \in excused'
                    \/ i = position'[r] /\ stage'[r] \in {"handle", "balances"}
  BY DEF Passed
<1>1. i \in 1..position[r] /\ position[r] \in Nat
  BY StateFacts
<1>2. CASE Done(r, i) \/ [reader |-> r, offset |-> i] \in excused
  BY <1>1, <1>2, DoneStays DEF Kept
<1>3. CASE i = position[r] /\ stage[r] \in {"handle", "balances"}
  <2>1. CASE position'[r] = position[r]
    BY <1>3, <2>1 DEF This
  <2>2. CASE position'[r] # position[r]
    BY <1>1, <1>3, <2>2
  <2> QED
    BY <2>1, <2>2
<1> QED
  BY <1>1, <1>2, <1>3 DEF Passed

\* A reader that stays where it is.
LEMMA ReaderRests ==
    ASSUME TypeOK, Kept, NEW r \in Running, Passed(r), Within(r),
           position'[r] = position[r], asked'[r] = asked[r], stage'[r] = stage[r]
    PROVE  Passed(r)' /\ Within(r)'
<1>1. Passed(r)'
  BY StateFacts, PassedStays
<1>2. Within(r)'
  <2>1. stage[r] = "balances" => Message(r) \in ToSet(log'["settled"])
    BY LogKept DEF Within, Topic
  <2>2. stage[r] # "fetch" => Message(r)' = Message(r)
    BY MessageIsATrade, StateFacts DEF Message, Kept
  <2> QED
    BY <2>1, <2>2 DEF Within
<1> QED
  BY <1>1, <1>2

-----------------------------------------------------------------------------
(* Every reader.                                                            *)

LEMMA FetchKeepsIInv ==
    ASSUME IInv, NEW r \in Running, FetchMessage(r)
    PROVE  IInv'
<1> USE DEF IInv
<1>1. /\ stage[r] = "fetch" /\ position[r] # Len(log[Source(r)])
      /\ position' = [position EXCEPT ![r] = @ + 1]
      /\ stage' = [stage EXCEPT ![r] = "handle"]
      /\ log' = log /\ asked' = asked /\ committed' = committed /\ attempt' = attempt
      /\ rows' = rows /\ events' = events /\ early' = early /\ unsure' = unsure
      /\ excused' = excused /\ restarted' = restarted /\ faults' = faults
  BY DEF FetchMessage, CaughtUp, GoesTo, stores
<1>2. position \in [Running -> Nat] /\ stage \in [Running -> {"fetch", "handle", "balances", "commit"}]
  BY DEF TypeOK
<1>3. /\ position[r] \in Nat /\ position[r] + 1 <= Len(log[Source(r)])
      /\ asked[r] \in Nat /\ asked[r] <= position[r]
  BY <1>1, StateFacts
<1>4. /\ Running' = Running /\ position' \in [Running -> Nat]
      /\ position'[r] = position[r] + 1 /\ stage'[r] = "handle"
      /\ \A q \in Running \ {r} : position'[q] = position[q] /\ stage'[q] = stage[q]
      /\ stage' \in [Running -> {"fetch", "handle", "balances", "commit"}]
  BY <1>1, <1>2, <1>3 DEF Running
<1>5. Kept
  BY <1>1, <1>4, StoresKept DEF stores
<1>6. TypeOK'
  <2>1. \A q \in Running : /\ committed'[q] <= asked'[q] /\ asked'[q] <= position'[q]
                           /\ position'[q] <= Len(log'[Source(q)])
    BY <1>1, <1>3, <1>4, StateFacts
  <2> QED
    BY <1>1, <1>4, <2>1 DEF TypeOK
<1>7. \A q \in Running : Passed(q)' /\ Within(q)'
  <2> TAKE q \in Running
  <2>1. CASE q = r
    <3>1. Passed(r)'
      <4> SUFFICES ASSUME NEW i \in 1..position'[r], i # position'[r]
                   PROVE  Done(r, i)' \/ [reader |-> r, offset |-> i] \in excused'
        BY <1>4 DEF Passed
      <4>1. i \in 1..position[r]
        BY <1>3, <1>4
      <4>2. Done(r, i) \/ [reader |-> r, offset |-> i] \in excused
        BY <1>1, <4>1 DEF Passed
      <4> QED
        BY <1>1, <1>5, <4>1, <4>2, DoneStays
    <3>2. Within(r)'
      BY <1>1, <1>3, <1>4 DEF Within
    <3> QED
      BY <2>1, <3>1, <3>2
  <2>2. CASE q # r
    BY <1>1, <1>4, <1>5, <2>2, ReaderRests
  <2> QED
    BY <2>1, <2>2
<1>8. StoredBehind'
  <2> SUFFICES ASSUME NEW i \in DOMAIN events, ~ restarted, ~ unsure
               PROVE  /\ events[i] = 1
                      /\ "eventlog" \in Running /\ i <= position'["eventlog"]
                      /\ stage'["eventlog"] = "handle" => i < position'["eventlog"]
    BY <1>1, <1>4 DEF StoredBehind
  <2>1. /\ events[i] = 1 /\ "eventlog" \in Running /\ i <= position["eventlog"]
        /\ stage["eventlog"] = "handle" => i < position["eventlog"]
        /\ i \in Nat /\ position["eventlog"] \in Nat
    BY StateFacts DEF StoredBehind, TypeOK
  <2> QED
    BY <1>3, <1>4, <2>1
<1> QED
  BY <1>4, <1>6, <1>7, <1>8

LEMMA CommitKeepsIInv ==
    ASSUME IInv, NEW r \in Running, CommitMessages(r) \/ CommitFails(r)
    PROVE  IInv'
<1> USE DEF IInv
<1>1. /\ stage[r] = "commit" /\ stage' = [stage EXCEPT ![r] = "fetch"]
      /\ \/ asked' = asked
         \/ asked' = [asked EXCEPT ![r] = position[r]]
      /\ \/ committed' = committed
         \/ /\ committed' = [committed EXCEPT ![r] = position[r]]
            /\ asked' = [asked EXCEPT ![r] = position[r]]
      /\ log' = log /\ position' = position /\ attempt' = attempt
      /\ rows' = rows /\ events' = events /\ early' = early /\ unsure' = unsure
      /\ excused' = excused /\ restarted' = restarted /\ faults' \in Nat
  <2>1. faults \in Nat
    BY DEF TypeOK
  <2> QED
    BY <2>1 DEF CommitMessages, CommitFails, Offset, Fault, GoesTo, stores, offsets
<1>2. /\ asked \in [Running -> Nat] /\ committed \in [Running -> Nat]
      /\ stage \in [Running -> {"fetch", "handle", "balances", "commit"}]
  BY DEF TypeOK
<1>3. /\ position[r] \in Nat /\ asked[r] \in Nat /\ committed[r] \in Nat
      /\ committed[r] <= asked[r] /\ asked[r] <= position[r]
  BY StateFacts
<1>4. /\ Running' = Running /\ asked' \in [Running -> Nat] /\ committed' \in [Running -> Nat]
      /\ committed'[r] <= asked'[r] /\ asked'[r] <= position[r]
      /\ \A q \in Running \ {r} : /\ asked'[q] = asked[q] /\ committed'[q] = committed[q]
                                  /\ stage'[q] = stage[q]
      /\ stage'[r] = "fetch"
      /\ stage' \in [Running -> {"fetch", "handle", "balances", "commit"}]
  BY <1>1, <1>2, <1>3 DEF Running
<1>5. Kept
  BY <1>1, <1>4, StoresKept DEF stores
<1>6. TypeOK'
  <2>1. \A q \in Running : /\ committed'[q] <= asked'[q] /\ asked'[q] <= position'[q]
                           /\ position'[q] <= Len(log'[Source(q)])
    BY <1>1, <1>3, <1>4, StateFacts
  <2> QED
    BY <1>1, <1>4, <2>1 DEF TypeOK
<1>7. \A q \in Running : Passed(q)' /\ Within(q)'
  <2> TAKE q \in Running
  <2>1. CASE q = r
    <3>1. Passed(r)'
      BY <1>1, <1>3, <1>5, PassedStays
    <3>2. Within(r)'
      BY <1>4 DEF Within
    <3> QED
      BY <2>1, <3>1, <3>2
  <2>2. CASE q # r
    BY <1>1, <1>4, <1>5, <2>2, ReaderRests
  <2> QED
    BY <2>1, <2>2
<1>8. StoredBehind'
  BY <1>1, <1>4 DEF StoredBehind
<1> QED
  BY <1>4, <1>6, <1>7, <1>8

LEMMA FlushKeepsIInv ==
    ASSUME IInv, FlushCommits
    PROVE  IInv'
<1> USE DEF IInv
<1>1. /\ "eventlog" \in Running
      /\ committed' = [committed EXCEPT !["eventlog"] = asked["eventlog"]]
      /\ log' = log /\ position' = position /\ asked' = asked
      /\ stage' = stage /\ attempt' = attempt
      /\ rows' = rows /\ events' = events /\ early' = early /\ unsure' = unsure
      /\ excused' = excused /\ restarted' = restarted /\ faults' = faults
      /\ Running' = Running
  BY DEF FlushCommits, loops, stores, Running
<1>2. committed \in [Running -> Nat] /\ asked \in [Running -> Nat]
  BY DEF TypeOK
<1>3. /\ committed' \in [Running -> Nat]
      /\ committed'["eventlog"] = asked["eventlog"]
      /\ \A q \in Running \ {"eventlog"} : committed'[q] = committed[q]
  BY <1>1, <1>2
<1>4. Kept
  BY <1>1, StoresKept DEF stores
<1>5. TypeOK'
  <2>1. \A q \in Running : /\ committed'[q] <= asked'[q] /\ asked'[q] <= position'[q]
                           /\ position'[q] <= Len(log'[Source(q)])
    BY <1>1, <1>3, StateFacts
  <2> QED
    BY <1>1, <1>3, <2>1 DEF TypeOK
<1>6. \A q \in Running : Passed(q)' /\ Within(q)'
  BY <1>1, <1>4, ReaderRests
<1>7. StoredBehind'
  BY <1>1 DEF StoredBehind
<1> QED
  BY <1>1, <1>5, <1>6, <1>7

LEMMA RestartKeepsIInv ==
    ASSUME IInv, NEW process, Restart(process)
    PROVE  IInv'
<1> USE DEF IInv
<1> DEFINE p == {r \in Running : ProcessOf(r) = process}
           Late == {r \in p : stage[r] = "commit" \/ (stage[r] = "handle" /\ r # "settlement")}
<1>1. PICK late \in SUBSET Late :
        /\ committed' = [r \in Running |-> IF r \in p THEN [q \in p |->
                IF q \in late THEN position[q] ELSE committed[q]][r] ELSE committed[r]]
        /\ position' = [r \in Running |-> IF r \in p THEN [q \in p |->
                IF q \in late THEN position[q] ELSE committed[q]][r] ELSE position[r]]
        /\ asked' = [r \in Running |-> IF r \in p THEN [q \in p |->
                IF q \in late THEN position[q] ELSE committed[q]][r] ELSE asked[r]]
        /\ excused' = excused \cup {This(r) : r \in {q \in late : stage[q] = "handle"}}
  BY DEF Restart
<1>2. /\ stage' = [r \in Running |-> IF r \in p THEN [q \in p |-> "fetch"][r] ELSE stage[r]]
      /\ attempt' = [r \in Running |-> IF r \in p THEN [q \in p |-> 0][r] ELSE attempt[r]]
      /\ restarted' = (restarted \/ process = "eventlog")
      /\ log' = log /\ rows' = rows /\ events' = events /\ early' = early /\ unsure' = unsure
      /\ faults' \in Nat
  <2>1. faults \in Nat
    BY DEF TypeOK
  <2> QED
    BY <2>1 DEF Restart, Fault, stores
<1>3. /\ Running' = Running /\ late \subseteq p /\ p \subseteq Running
      /\ \A q \in Running \ p :
            /\ position'[q] = position[q] /\ asked'[q] = asked[q]
            /\ committed'[q] = committed[q] /\ stage'[q] = stage[q]
            /\ attempt'[q] = attempt[q]
      /\ \A q \in p : /\ stage'[q] = "fetch" /\ attempt'[q] = 0
                      /\ asked'[q] = position'[q] /\ committed'[q] = position'[q]
      /\ \A q \in late : position'[q] = position[q]
      /\ \A q \in p \ late : position'[q] = committed[q]
  BY <1>1, <1>2 DEF Running
<1>4. /\ position' \in [Running -> Nat] /\ asked' \in [Running -> Nat]
      /\ committed' \in [Running -> Nat]
      /\ stage' \in [Running -> {"fetch", "handle", "balances", "commit"}]
      /\ attempt' \in [Running -> 0..maxRetries]
  <2>1. \A r \in Running : position[r] \in Nat /\ asked[r] \in Nat /\ committed[r] \in Nat
    BY StateFacts
  <2>2. /\ stage \in [Running -> {"fetch", "handle", "balances", "commit"}]
        /\ attempt \in [Running -> 0..maxRetries] /\ 0 \in 0..maxRetries
    BY PipelineAssumption DEF TypeOK
  <2> QED
    BY <1>1, <1>2, <2>1, <2>2
<1>5. /\ excused \subseteq excused' /\ excused' \subseteq [reader : Reader, offset : Nat]
      /\ \A q \in late : stage[q] = "handle" => This(q) \in excused'
  <2>1. \A q \in late : This(q) \in [reader : Reader, offset : Nat]
    BY <1>3, StateFacts DEF This
  <2> QED
    BY <1>1, <2>1 DEF TypeOK
<1>6. Kept
  BY <1>2, <1>3, <1>5, StoresKept DEF stores
<1> HIDE DEF p
<1>7. TypeOK'
  <2>1. \A q \in Running : /\ committed'[q] <= asked'[q] /\ asked'[q] <= position'[q]
                           /\ position'[q] <= position[q]
    BY <1>3, StateFacts
  <2>2. ASSUME NEW q \in Running
        PROVE  position'[q] <= Len(log'[Source(q)])
    <3>1. /\ position'[q] <= position[q] /\ position'[q] \in Nat /\ position[q] \in Nat
          /\ position[q] <= Len(log[Source(q)]) /\ Len(log[Source(q)]) \in Nat
      BY <1>4, <2>1, StateFacts
    <3> QED
      BY <1>2, <3>1
  <2> QED
    BY <1>2, <1>3, <1>4, <1>5, <2>1, <2>2 DEF TypeOK
<1>8. ASSUME NEW q \in p
      PROVE  Passed(q)' /\ Within(q)'
  <2>1. q \in Running /\ position'[q] \in Nat
    BY <1>3, <1>4
  <2>2. CASE q \in late
    <3>1. stage[q] \notin {"handle", "balances"} \/ This(q) \in excused'
      BY <1>1, <1>5, <2>2
    <3>2. position'[q] <= position[q]
      BY <1>3, <2>1, <2>2, StateFacts
    <3> QED
      BY <1>3, <1>6, <2>1, <3>1, <3>2, PassedStays DEF Within
  <2>3. CASE q \notin late
    <3>1. position'[q] = committed[q]
      BY <1>3, <2>3
    <3>2. /\ position'[q] <= position[q]
          /\ position'[q] < position[q] \/ stage[q] = "fetch"
      BY <2>1, <3>1, StateFacts, MessageIsATrade
    <3> QED
      BY <1>3, <1>6, <2>1, <3>2, PassedStays DEF Within
  <2> QED
    BY <2>2, <2>3
<1>9. \A q \in Running : Passed(q)' /\ Within(q)'
  BY <1>3, <1>6, <1>8, ReaderRests
<1>10. StoredBehind'
  <2>1. CASE process = "eventlog"
    BY <1>2, <2>1 DEF StoredBehind
  <2>2. CASE process # "eventlog"
    <3>1. "eventlog" \notin p
      BY <2>2 DEF p, ProcessOf
    <3> QED
      BY <1>2, <1>3, <3>1 DEF StoredBehind
  <2> QED
    BY <2>1, <2>2
<1> QED
  BY <1>3, <1>7, <1>9, <1>10

-----------------------------------------------------------------------------
(* Settlement.                                                              *)

LEMMA AppendKept ==
    ASSUME TypeOK, NEW t \in Topic, NEW m \in Trade,
           log' = log \/ log' = [log EXCEPT ![t] = Append(@, m)],
           UNCHANGED stores, excused \subseteq excused', Running' = Running
    PROVE  /\ Kept /\ log' \in [Topic -> Seq(Trade)]
           /\ log' # log => m \in ToSet(log'[t])
<1>1. rows' = rows /\ events' = events /\ early' = early
  BY DEF stores
<1>2. /\ log \in [Topic -> Seq(Trade)]
      /\ \A i \in DOMAIN events : events[i] \in Nat \ {0}
  BY DEF TypeOK
<1>3. CASE log' = log
  BY <1>2, <1>3, StoresKept
<1>4. CASE log' = [log EXCEPT ![t] = Append(log[t], m)]
  <2>1. /\ log'[t] = Append(log[t], m) /\ log[t] \in Seq(Trade) /\ log'[t] \in Seq(Trade)
        /\ Len(log'[t]) = Len(log[t]) + 1 /\ log'[t][Len(log[t]) + 1] = m
        /\ \A i \in 1..Len(log[t]) : log'[t][i] = log[t][i]
        /\ \A q \in Topic \ {t} : log'[q] = log[q]
        /\ log' \in [Topic -> Seq(Trade)]
    BY <1>2, <1>4
  <2>2. \A q \in Topic : /\ log'[q] \in Seq(Trade) /\ Len(log[q]) <= Len(log'[q])
                         /\ \A i \in 1..Len(log[q]) : log'[q][i] = log[q][i]
    BY <1>2, <2>1
  <2>3. Kept
    BY <1>1, <1>2, <2>2 DEF Kept
  <2>4. m \in ToSet(log'[t])
    <3>1. Len(log[t]) + 1 \in DOMAIN log'[t]
      BY <2>1
    <3> QED
      BY <2>1, <3>1 DEF ToSet
  <2> QED
    BY <2>1, <2>3, <2>4
<1> QED
  BY <1>3, <1>4

\* What settlement has published is not behind any reader's back.
LEMMA LogTypeOK ==
    ASSUME TypeOK, Kept, log' \in [Topic -> Seq(Trade)], UNCHANGED <<offsets, attempt, stores>>,
           stage' \in [Running -> {"fetch", "handle", "balances", "commit"}],
           excused' \subseteq [reader : Reader, offset : Nat],
           restarted' = restarted, faults' \in Nat
    PROVE  TypeOK'
<1>1. /\ position' = position /\ asked' = asked /\ committed' = committed
      /\ rows' = rows /\ events' = events /\ early' = early /\ unsure' = unsure
      /\ attempt' = attempt /\ Running' = Running
  BY DEF offsets, stores, Running
<1>2. ASSUME NEW q \in Running
      PROVE  position[q] <= Len(log'[Source(q)])
  <2>1. /\ position[q] \in Nat /\ Len(log[Source(q)]) \in Nat /\ Source(q) \in Topic
        /\ position[q] <= Len(log[Source(q)])
    BY StateFacts
  <2>2. Len(log[Source(q)]) <= Len(log'[Source(q)]) /\ Len(log'[Source(q)]) \in Nat
    BY <2>1 DEF Kept
  <2> QED
    BY <2>1, <2>2
<1> QED
  BY <1>1, <1>2 DEF TypeOK

LEMMA ProcessMatchedKeepsIInv ==
    ASSUME IInv, ProcessMatched
    PROVE  IInv'
<1> USE DEF IInv
<1> DEFINE s == "settlement"
           m == Message(s)
<1>1. /\ position' = position /\ asked' = asked /\ attempt' = attempt
      /\ UNCHANGED <<offsets, attempt, stores>>
      /\ events' = events /\ unsure' = unsure
      /\ excused' = excused /\ restarted' = restarted /\ faults' = faults
      /\ Running' = Running
  BY DEF ProcessMatched, offsets, stores, Running
<1>2. s \in Running /\ stage \in [Running -> {"fetch", "handle", "balances", "commit"}]
  BY DEF TypeOK
<1>3. \/ /\ stage[s] = "handle" /\ stage' = [stage EXCEPT ![s] = "balances"]
         /\ log' = [log EXCEPT !["settled"] = Append(@, m)]
      \/ /\ stage[s] = "balances" /\ stage' = [stage EXCEPT ![s] = "commit"]
         /\ log' = [log EXCEPT !["balances"] = Append(@, m)]
  BY DEF ProcessMatched, Publishes, GoesTo
<1>4. /\ m \in Trade /\ asked[s] < position[s] /\ position[s] \in 1..position[s]
      /\ m = log["matched"][position[s]]
  BY <1>2, <1>3, MessageIsATrade, SourceFacts DEF Message
<1>5. \A t \in Topic : log' = [log EXCEPT ![t] = Append(@, m)] =>
            Kept /\ log' \in [Topic -> Seq(Trade)] /\ m \in ToSet(log'[t])
  <2> HIDE DEF m
  <2> TAKE t \in Topic
  <2> HAVE log' = [log EXCEPT ![t] = Append(@, m)]
  <2>1. log[t] \in Seq(Trade) /\ log'[t] = Append(log[t], m)
    BY DEF TypeOK
  <2>2. log' # log
    BY <1>4, <2>1
  <2> QED
    BY <1>1, <1>4, <2>2, AppendKept
<1>6. Kept /\ log' \in [Topic -> Seq(Trade)]
  BY <1>3, <1>5 DEF Topic
<1>7. /\ \A q \in Running \ {s} : stage'[q] = stage[q]
      /\ stage' \in [Running -> {"fetch", "handle", "balances", "commit"}]
  BY <1>2, <1>3
<1>8. log'["matched"][position[s]] = m
  <2>1. position[s] \in 1..Len(log["matched"])
    BY <1>2, <1>4, MessageFacts, SourceFacts
  <2> QED
    BY <1>4, <1>6, <2>1 DEF Kept, Topic
<1>9. TypeOK'
  BY <1>1, <1>6, <1>7, LogTypeOK DEF TypeOK
<1>10. Passed(s)' /\ Within(s)'
  <2>1. CASE stage[s] = "handle"
    <3>1. stage'[s] = "balances" /\ m \in ToSet(log'["settled"])
      BY <1>2, <1>3, <1>5, <2>1 DEF Topic
    <3>2. Passed(s)'
      BY <1>1, <1>2, <1>6, <3>1, PassedStays, StateFacts
    <3>3. Within(s)'
      BY <1>1, <1>4, <1>8, <3>1, SourceFacts DEF Within, Message
    <3> QED
      BY <3>2, <3>3
  <2>2. CASE stage[s] = "balances"
    <3>1. stage'[s] = "commit" /\ m \in ToSet(log'["balances"])
      BY <1>2, <1>3, <1>5, <2>2 DEF Topic
    <3>2. m \in ToSet(log'["settled"])
      BY <1>2, <1>6, <2>2, LogKept DEF Within, Topic
    <3>3. Done(s, position[s])'
      BY <1>1, <1>8, <3>1, <3>2, SourceFacts DEF Done
    <3>4. Passed(s)'
      BY <1>1, <1>2, <1>6, <3>3, PassedStays, StateFacts
    <3>5. Within(s)'
      BY <1>1, <1>4, <3>1 DEF Within
    <3> QED
      BY <3>4, <3>5
  <2> QED
    BY <1>3, <2>1, <2>2
<1>11. \A q \in Running : Passed(q)' /\ Within(q)'
  BY <1>1, <1>6, <1>7, <1>10, ReaderRests
<1>12. StoredBehind'
  <2>1. "eventlog" \in Running => stage'["eventlog"] = stage["eventlog"]
    BY <1>7
  <2> QED
    BY <1>1, <2>1 DEF StoredBehind
<1> QED
  BY <1>1, <1>9, <1>11, <1>12

LEMMA PublishFailsKeepsIInv ==
    ASSUME IInv, PublishFails
    PROVE  IInv'
<1> USE DEF IInv
<1> DEFINE s == "settlement"
           m == Message(s)
<1>1. /\ position' = position /\ asked' = asked /\ attempt' = attempt
      /\ UNCHANGED <<offsets, attempt, stores>>
      /\ events' = events /\ unsure' = unsure
      /\ excused' = excused \cup {This(s)} /\ restarted' = restarted /\ faults' \in Nat
      /\ Running' = Running
  <2>1. faults \in Nat
    BY DEF TypeOK
  <2> QED
    BY <2>1 DEF PublishFails, Fault, offsets, stores, Running
<1>2. s \in Running /\ stage \in [Running -> {"fetch", "handle", "balances", "commit"}]
  BY DEF TypeOK
<1>3. PICK t \in {"settled", "balances"} :
        /\ stage[s] \in {"handle", "balances"}
        /\ log' = [log EXCEPT ![t] = Append(@, m)] \/ log' = log
  BY DEF PublishFails, Publishes
<1>4. stage' = [stage EXCEPT ![s] = "fetch"]
  BY DEF PublishFails, GoesTo
<1>5. m \in Trade
  BY <1>2, <1>3, MessageIsATrade
<1>6. Kept /\ log' \in [Topic -> Seq(Trade)]
  <2> HIDE DEF m
  <2>1. t \in Topic /\ excused \subseteq excused'
    BY <1>1 DEF Topic
  <2> QED
    BY <1>1, <1>3, <1>5, <2>1, AppendKept
<1>7. /\ stage'[s] = "fetch" /\ \A q \in Running \ {s} : stage'[q] = stage[q]
      /\ stage' \in [Running -> {"fetch", "handle", "balances", "commit"}]
  BY <1>2, <1>4
<1>8. TypeOK'
  <2>1. This(s) \in [reader : Reader, offset : Nat]
    BY <1>2, StateFacts DEF This
  <2> QED
    BY <1>1, <1>6, <1>7, <2>1, LogTypeOK DEF TypeOK
<1>9. Passed(s)' /\ Within(s)'
  <2>1. Passed(s)'
    BY <1>1, <1>2, <1>6, PassedStays, StateFacts
  <2> QED
    BY <1>7, <2>1 DEF Within
<1>10. \A q \in Running : Passed(q)' /\ Within(q)'
  BY <1>1, <1>6, <1>7, <1>9, ReaderRests
<1>11. StoredBehind'
  <2>1. "eventlog" \in Running => stage'["eventlog"] = stage["eventlog"]
    BY <1>7
  <2> QED
    BY <1>1, <2>1 DEF StoredBehind
<1> QED
  BY <1>1, <1>8, <1>10, <1>11

-----------------------------------------------------------------------------
(* The handlers of the indexer and the event log.                           *)

LEMMA SaveFacts ==
    ASSUME TypeOK, NEW i \in Nat, Save(i)
    PROVE  /\ DOMAIN events' = DOMAIN events \cup {i}
           /\ events'[i] = Saved(i) + 1
           /\ \A k \in DOMAIN events \ {i} : events'[k] = events[k]
           /\ events' \in [DOMAIN events' -> Nat \ {0}]
<1>1. \A k \in DOMAIN events : events[k] \in Nat \ {0}
  BY DEF TypeOK
<1>2. Saved(i) \in Nat
  BY <1>1 DEF Saved
<1> DEFINE n == Saved(i) + 1
<1>3. n \in Nat \ {0}
  BY <1>2
<1>4. events' = [k \in DOMAIN events \cup {i} |-> IF k = i THEN n ELSE events[k]]
  BY DEF Save
<1> HIDE DEF n
<1>5. /\ DOMAIN events' = DOMAIN events \cup {i} /\ events'[i] = n
      /\ \A k \in DOMAIN events \ {i} : events'[k] = events[k]
  BY <1>4
<1>6. \A k \in DOMAIN events' : events'[k] \in Nat \ {0}
  BY <1>1, <1>3, <1>5
<1>7. events' \in [DOMAIN events' -> Nat \ {0}]
  BY <1>4, <1>6
<1> QED
  BY <1>5, <1>7 DEF n

LEMMA HandleFacts ==
    ASSUME IInv, NEW r \in Running, stage[r] = "handle", r # "settlement", Handle(r),
           log' = log, position' = position, excused \subseteq excused'
    PROVE  /\ Kept /\ Done(r, position[r])'
           /\ rows' \in [Trade -> {"none", "unsettled", "settled"}] /\ early' \subseteq Trade
           /\ DOMAIN events' \subseteq Nat /\ events' \in [DOMAIN events' -> Nat \ {0}]
           /\ r # "eventlog" => events' = events
           /\ r = "eventlog" => Save(position[r])
<1> USE DEF IInv
<1> DEFINE t == Message(r)
<1>1. /\ t \in Trade /\ r \in Reader /\ position[r] \in Nat
      /\ rows \in [Trade -> {"none", "unsettled", "settled"}] /\ early \subseteq Trade
      /\ DOMAIN events \subseteq Nat /\ events \in [DOMAIN events -> Nat \ {0}]
  BY MessageIsATrade, StateFacts DEF TypeOK
<1>2. Running' = Running /\ \A q \in Topic : log[q] \in Seq(Trade) /\ Len(log[q]) \in Nat
  BY DEF Running, TypeOK
<1>3. t = log'[Source(r)][position[r]]
  BY DEF Message
<1> HIDE DEF t
<1>4. CASE r = "orders"
  <2>1. /\ rows' = [rows EXCEPT ![t] = IF @ = "none" THEN "unsettled" ELSE @]
        /\ events' = events /\ early' = early
    BY <1>4 DEF Handle, OrderMatchedHandler, fn_process_order_matched, t
  <2>2. Kept /\ rows'[t] # "none"
    BY <1>1, <1>2, <2>1 DEF Kept
  <2>3. Done(r, position[r])'
    BY <1>3, <1>4, <2>2 DEF Done
  <2> QED
    BY <1>1, <1>4, <2>1, <2>2, <2>3
<1>5. CASE r = "trades"
  <2>1. /\ rows' = [rows EXCEPT ![t] = IF @ = "none" THEN @ ELSE "settled"]
        /\ early' = IF rows[t] = "none" THEN early \cup {t} ELSE early \ {t}
        /\ events' = events
    BY <1>5 DEF Handle, TradeSettledHandler, fn_mark_trade_settled, t
  <2>2. \A q \in Trade : rows[q] \in {"none", "unsettled", "settled"}
    BY <1>1
  <2>3. Kept /\ (rows'[t] = "settled" \/ t \in early')
    BY <1>1, <1>2, <2>1, <2>2 DEF Kept
  <2>4. Done(r, position[r])'
    BY <1>3, <1>5, <2>3 DEF Done
  <2> QED
    BY <1>1, <1>5, <2>1, <2>3, <2>4
<1>6. CASE r = "balances"
  <2>1. rows' = rows /\ events' = events /\ early' = early
    BY <1>6 DEF Handle, BalanceUpdatedHandler
  <2>2. Kept
    BY <1>1, <1>2, <2>1 DEF Kept
  <2> QED
    BY <1>1, <1>6, <2>1, <2>2 DEF Done
<1>7. CASE r = "eventlog"
  <2>1. Save(position[r]) /\ rows' = rows /\ early' = early
    BY <1>7 DEF Handle
  <2>2. /\ DOMAIN events' = DOMAIN events \cup {position[r]}
        /\ events' \in [DOMAIN events' -> Nat \ {0}]
    BY <1>1, <2>1, SaveFacts
  <2>3. Kept
    BY <1>1, <1>2, <2>1, <2>2 DEF Kept
  <2>4. Saved(position[r])' > 0
    <3>1. position[r] \in DOMAIN events' /\ events'[position[r]] \in Nat \ {0}
      BY <2>2
    <3> QED
      BY <3>1 DEF Saved
  <2>5. Done(r, position[r])'
    BY <1>7, <2>4 DEF Done
  <2> QED
    BY <1>1, <1>7, <2>1, <2>2, <2>3, <2>5
<1> QED
  BY <1>1, <1>4, <1>5, <1>6, <1>7 DEF Reader

LEMMA HandleSucceedsKeepsIInv ==
    ASSUME IInv, NEW r \in Running, HandleSucceeds(r)
    PROVE  IInv'
<1> USE DEF IInv
<1>1. /\ stage[r] = "handle" /\ r # "settlement" /\ Handle(r)
      /\ stage' = [stage EXCEPT ![r] = "commit"]
      /\ attempt' = [attempt EXCEPT ![r] = 0]
      /\ log' = log /\ position' = position /\ asked' = asked /\ committed' = committed
      /\ unsure' = unsure /\ excused' = excused /\ restarted' = restarted
      /\ faults' = faults /\ Running' = Running
  BY DEF HandleSucceeds, GoesTo, offsets, Running
<1>2. /\ Kept /\ Done(r, position[r])'
      /\ rows' \in [Trade -> {"none", "unsettled", "settled"}] /\ early' \subseteq Trade
      /\ DOMAIN events' \subseteq Nat /\ events' \in [DOMAIN events' -> Nat \ {0}]
      /\ r # "eventlog" => events' = events
      /\ r = "eventlog" => Save(position[r])
  BY <1>1, HandleFacts
<1>3. /\ stage'[r] = "commit" /\ \A q \in Running \ {r} : stage'[q] = stage[q]
      /\ stage' \in [Running -> {"fetch", "handle", "balances", "commit"}]
      /\ attempt' \in [Running -> 0..maxRetries]
  BY <1>1, PipelineAssumption DEF TypeOK
<1>4. TypeOK'
  BY <1>1, <1>2, <1>3 DEF TypeOK
<1>5. Passed(r)' /\ Within(r)'
  <2>1. Passed(r)'
    BY <1>1, <1>2, PassedStays, StateFacts
  <2> QED
    BY <1>1, <1>3, <2>1 DEF Within
<1>6. \A q \in Running : Passed(q)' /\ Within(q)'
  BY <1>1, <1>2, <1>3, <1>5, ReaderRests
<1>7. StoredBehind'
  <2> SUFFICES ASSUME NEW i \in DOMAIN events', ~ restarted, ~ unsure
               PROVE  /\ events'[i] = 1
                      /\ "eventlog" \in Running /\ i <= position["eventlog"]
                      /\ stage'["eventlog"] = "handle" => i < position["eventlog"]
    BY <1>1 DEF StoredBehind
  <2>1. CASE r = "eventlog"
    <3>1. position[r] \notin DOMAIN events /\ position[r] \in Nat
      BY <1>1, <2>1, StateFacts DEF StoredBehind
    <3>2. /\ DOMAIN events' = DOMAIN events \cup {position[r]}
          /\ events'[position[r]] = 1
          /\ \A k \in DOMAIN events : events'[k] = events[k]
      <4> DEFINE n == position[r]
      <4>1. n \in Nat /\ Save(n) /\ Saved(n) = 0
        BY <1>2, <2>1, <3>1 DEF Saved
      <4> HIDE DEF n
      <4>2. /\ DOMAIN events' = DOMAIN events \cup {n}
            /\ events'[n] = Saved(n) + 1
            /\ \A k \in DOMAIN events \ {n} : events'[k] = events[k]
        BY <4>1, SaveFacts
      <4> QED
        BY <3>1, <4>1, <4>2 DEF n
    <3> QED
      BY <1>3, <2>1, <3>1, <3>2 DEF StoredBehind
  <2>2. CASE r # "eventlog"
    BY <1>2, <1>3, <2>2 DEF StoredBehind
  <2> QED
    BY <2>1, <2>2
<1> QED
  BY <1>1, <1>4, <1>6, <1>7

LEMMA HandleFailsKeepsIInv ==
    ASSUME IInv, NEW r \in Running, HandleFails(r)
    PROVE  IInv'
<1> USE DEF IInv
<1>1. /\ stage[r] = "handle" /\ r # "settlement"
      /\ \/ UNCHANGED stores
         \/ Handle(r) /\ unsure' = (unsure \/ r = "eventlog")
      /\ attempt' = [attempt EXCEPT ![r] = (@ + 1) % (maxRetries + 1)]
      /\ \/ stage' = [stage EXCEPT ![r] = "commit"] /\ excused' = excused \cup {This(r)}
         \/ stage' = stage /\ excused' = excused
      /\ log' = log /\ position' = position /\ asked' = asked /\ committed' = committed
      /\ restarted' = restarted /\ faults' = faults /\ Running' = Running
  BY DEF HandleFails, GoesTo, offsets, Running
<1>2. excused \subseteq excused' /\ excused' \subseteq [reader : Reader, offset : Nat]
  <2>1. This(r) \in [reader : Reader, offset : Nat]
    BY StateFacts DEF This
  <2> QED
    BY <1>1, <2>1 DEF TypeOK
<1>3. /\ Kept
      /\ rows' \in [Trade -> {"none", "unsettled", "settled"}] /\ early' \subseteq Trade
      /\ DOMAIN events' \subseteq Nat /\ events' \in [DOMAIN events' -> Nat \ {0}]
      /\ unsure' \in BOOLEAN
      /\ events' = events \/ unsure'
      /\ unsure => unsure'
  <2>1. CASE UNCHANGED stores
    <3>1. rows' = rows /\ events' = events /\ early' = early /\ unsure' = unsure
      BY <2>1 DEF stores
    <3>2. Kept
      BY <1>1, <1>2, <2>1, StoresKept
    <3> QED
      BY <3>1, <3>2 DEF TypeOK
  <2>2. CASE Handle(r) /\ unsure' = (unsure \/ r = "eventlog")
    <3>1. unsure \in BOOLEAN
      BY DEF TypeOK
    <3> QED
      BY <1>1, <1>2, <2>2, <3>1, HandleFacts
  <2> QED
    BY <1>1, <2>1, <2>2
<1>4. /\ \A q \in Running \ {r} : stage'[q] = stage[q]
      /\ \/ stage'[r] = "handle"
         \/ stage'[r] = "commit" /\ This(r) \in excused'
      /\ stage' \in [Running -> {"fetch", "handle", "balances", "commit"}]
  BY <1>1 DEF TypeOK
<1>5. attempt' \in [Running -> 0..maxRetries]
  <2>1. attempt \in [Running -> 0..maxRetries] /\ maxRetries \in Nat
    BY PipelineAssumption DEF TypeOK
  <2>2. \A a \in 0..maxRetries : (a + 1) % (maxRetries + 1) \in 0..maxRetries
    BY <2>1
  <2> QED
    BY <1>1, <2>1, <2>2
<1>6. TypeOK'
  BY <1>1, <1>2, <1>3, <1>4, <1>5 DEF TypeOK
<1>7. Passed(r)' /\ Within(r)'
  <2>1. Passed(r)'
    BY <1>1, <1>3, <1>4, PassedStays, StateFacts
  <2> QED
    BY <1>1, <1>4, <2>1 DEF Within
<1>8. \A q \in Running : Passed(q)' /\ Within(q)'
  BY <1>1, <1>3, <1>4, <1>7, ReaderRests
<1>9. StoredBehind'
  <2>1. CASE unsure'
    BY <2>1 DEF StoredBehind
  <2>2. CASE ~ unsure'
    <3>1. events' = events /\ ~ unsure
      BY <1>3, <2>2
    <3>2. "eventlog" \in Running /\ stage'["eventlog"] = "handle" =>
              stage["eventlog"] = "handle"
      BY <1>1, <1>4
    <3> QED
      BY <1>1, <3>1, <3>2 DEF StoredBehind
  <2> QED
    BY <2>1, <2>2
<1> QED
  BY <1>1, <1>6, <1>8, <1>9

-----------------------------------------------------------------------------
(* The invariant.                                                           *)

LEMMA InitIInv == Init => IInv
<1> SUFFICES ASSUME Init
             PROVE  IInv
  OBVIOUS
<1>1. PICK c \in Cases : position = [r \in c.readers |-> 0] /\ faults = c.faults
  BY DEF Init
<1>2. /\ c.readers \subseteq Reader /\ c.faults \in Nat /\ "settlement" \in c.readers
      /\ maxRetries \in Nat /\ Matched \in Seq(Trade)
  BY <1>1, PipelineAssumption
<1>3. /\ log = [t \in Topic |-> IF t = "matched" THEN Matched ELSE <<>>]
      /\ asked = position /\ committed = position /\ attempt = position
      /\ stage = [r \in Running |-> "fetch"] /\ rows = [t \in Trade |-> "none"]
      /\ events = <<>> /\ excused = {} /\ early = {} /\ unsure = FALSE /\ restarted = FALSE
  BY DEF Init
<1>4. /\ Running = c.readers /\ \A r \in Running : position[r] = 0 /\ stage[r] = "fetch"
      /\ DOMAIN events = {}
  BY <1>1, <1>3 DEF Running
<1>5. log \in [Topic -> Seq(Trade)]
  <2>1. <<>> \in Seq(Trade)
    OBVIOUS
  <2> QED
    BY <1>2, <1>3, <2>1
<1>6. ASSUME NEW r \in Running
      PROVE  /\ committed[r] <= asked[r] /\ asked[r] <= position[r]
             /\ position[r] <= Len(log[Source(r)])
  <2>1. log[Source(r)] \in Seq(Trade)
    BY <1>2, <1>4, <1>5, SourceFacts
  <2> QED
    BY <1>3, <1>4, <2>1
<1>7. TypeOK
  <2>1. /\ position \in [Running -> Nat] /\ attempt \in [Running -> 0..maxRetries]
        /\ stage \in [Running -> {"fetch", "handle", "balances", "commit"}]
    BY <1>1, <1>2, <1>3, <1>4
  <2>2. events \in [DOMAIN events -> Nat \ {0}] /\ DOMAIN events \subseteq Nat
    BY <1>3, <1>4
  <2> QED
    BY <1>1, <1>2, <1>3, <1>4, <1>5, <1>6, <2>1, <2>2 DEF TypeOK
<1>8. \A r \in Running : Passed(r) /\ Within(r)
  BY <1>4 DEF Passed, Within
<1>9. StoredBehind
  BY <1>4 DEF StoredBehind
<1> QED
  BY <1>7, <1>8, <1>9 DEF IInv

LEMMA StutterKeepsIInv ==
    ASSUME IInv, UNCHANGED vars
    PROVE  IInv'
<1> USE DEF IInv
<1>1. /\ log' = log /\ position' = position /\ asked' = asked /\ committed' = committed
      /\ stage' = stage /\ attempt' = attempt /\ Running' = Running
      /\ rows' = rows /\ events' = events /\ early' = early /\ unsure' = unsure
      /\ excused' = excused /\ restarted' = restarted /\ faults' = faults
  BY DEF vars, offsets, loops, stores, Running
<1>2. TypeOK'
  BY <1>1 DEF TypeOK
<1>3. Kept
  BY <1>1, StoresKept DEF stores
<1>4. \A q \in Running : Passed(q)' /\ Within(q)'
  BY <1>1, <1>3, ReaderRests
<1>5. StoredBehind'
  BY <1>1 DEF StoredBehind
<1> QED
  BY <1>1, <1>2, <1>4, <1>5

LEMMA Invariance == Spec => []IInv
<1>1. ASSUME IInv, [Next]_vars
      PROVE  IInv'
  <2>1. CASE UNCHANGED vars
    BY <1>1, <2>1, StutterKeepsIInv
  <2>2. ASSUME NEW r \in Running,
               \/ FetchMessage(r) \/ CommitMessages(r) \/ CommitFails(r)
               \/ HandleSucceeds(r) \/ HandleFails(r)
        PROVE  IInv'
    BY <1>1, <2>2, FetchKeepsIInv, CommitKeepsIInv, HandleSucceedsKeepsIInv,
       HandleFailsKeepsIInv
  <2>3. ASSUME NEW process \in {"settlement", "indexer", "eventlog"}, Restart(process)
        PROVE  IInv'
    BY <1>1, <2>3, RestartKeepsIInv
  <2>4. CASE FlushCommits \/ ProcessMatched \/ PublishFails
    BY <1>1, <2>4, FlushKeepsIInv, ProcessMatchedKeepsIInv, PublishFailsKeepsIInv
  <2> QED
    BY <1>1, <2>1, <2>2, <2>3, <2>4 DEF Next
<1> QED
  BY <1>1, InitIInv, PTL DEF Spec

-----------------------------------------------------------------------------
(* What the invariant is for.                                               *)

\* Topics only hold matched trades, and of no reader does the broker know an
\* offset it has not asked for, nor it one that it has not reached: whatever is
\* restarted or fails.
THEOREM TypeCorrect == Spec => []TypeOK
<1>1. IInv => TypeOK
  BY DEF IInv
<1> QED
  BY <1>1, Invariance, PTL

\* What a group has committed has had its whole effect or is known to have been
\* given up: the offsets of settlement, the indexer and the event log never
\* cover a message that a crash or a retry left half done.
THEOREM CommittedDone == Spec => []CommittedIsDone
<1>1. IInv => CommittedIsDone
  <2> SUFFICES ASSUME IInv, NEW r \in Running, NEW i \in 1..committed[r]
               PROVE  Done(r, i) \/ [reader |-> r, offset |-> i] \in excused
    BY DEF CommittedIsDone
  <2>1. TypeOK /\ Passed(r) /\ Within(r)
    BY DEF IInv
  <2>2. i \in 1..position[r] /\ (stage[r] # "fetch" => i # position[r])
    BY <2>1, StateFacts, MessageIsATrade
  <2> QED
    BY <2>1, <2>2 DEF Passed
<1> QED
  BY <1>1, Invariance, PTL

\* A trade whose settlement the indexer has read is marked settled, or its last
\* mark came before its row, or was given up: nothing else loses it.
THEOREM MarkedUnlessOvertaken == Spec => []UnmarkedOnlyIfOvertaken
<1>1. IInv => UnmarkedOnlyIfOvertaken
  <2> SUFFICES ASSUME IInv, "trades" \in Running, CaughtUp("trades"),
                      stage["trades"] = "fetch", NEW i \in DOMAIN log["settled"]
               PROVE  \/ rows[log["settled"][i]] = "settled"
                      \/ log["settled"][i] \in early
                      \/ [reader |-> "trades", offset |-> i] \in excused
    BY DEF UnmarkedOnlyIfOvertaken
  <2>1. TypeOK /\ Passed("trades") /\ Source("trades") = "settled"
    BY SourceFacts DEF IInv
  <2>2. i \in 1..position["trades"]
    BY <2>1, StateFacts DEF CaughtUp
  <2> QED
    BY <2>1, <2>2 DEF Passed, Done
<1> QED
  BY <1>1, Invariance, PTL

\* The event log stores each event once, unless it is restarted, which repeats
\* what was not committed, or Mongo answers with an error a save it has made.
THEOREM StoredOnceUnlessRepeated == Spec => []StoredOnce
<1>1. IInv => StoredOnce
  BY DEF IInv, StoredBehind, StoredOnce
<1> QED
  BY <1>1, Invariance, PTL
=============================================================================
