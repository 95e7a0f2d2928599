--------------------------- MODULE CircuitBreaker ---------------------------
(***************************************************************************)
(* The two circuit breakers, each with the retries around it: of the API's  *)
(* Kafka producer, whose loop asks the breaker for every attempt, and of the *)
(* gateway's proxy, whose transport retries within one admitted request.    *)
(* The breaker itself is sony/gobreaker: an open one refuses everything for *)
(* 30 seconds, then lets one probe through; a result that comes after the   *)
(* state has changed is ignored.  Its generation counter is here a flag of  *)
(* each call, whether it was admitted in the present generation.            *)
(***************************************************************************)
EXTENDS Integers, Sequences, SequencesExt

CONSTANTS
    Caller,      \* goroutines that publish or proxy
    Idempotent,  \* those of the gateway's with a GET, HEAD or OPTIONS
    ReadyToTrip, \* consecutive failures before the breaker opens
    maxRetries,  \* further attempts after the first, by side
    Conditions,  \* what the upstream may be like, by side
    Changes,     \* bound: how often that changes
    Aborts       \* bound: how many clients go away meanwhile

Side == {"producer", "gateway"}

ASSUME BreakerAssumption ==
    /\ Idempotent \subseteq Caller
    /\ ReadyToTrip \in Nat \ {0}
    /\ maxRetries \in [Side -> Nat]
    /\ Conditions \in [Side -> SUBSET {"up", "down", "failing", "hung"}]
    /\ \A s \in Side : "up" \in Conditions[s]
    /\ {Changes, Aborts} \subseteq Nat

VARIABLES
    side,      \* which of the two breakers this is
    upstream,  \* what the broker or the backend is like
    breaker,   \* its state, the requests in half-open, consecutive failures
    due,       \* the open breaker's timeout is over
    calls,     \* where each caller is, at which attempt, how it was admitted
    changes,   \* changes of the upstream that are left
    aborts,    \* clients that may still go away
    outcomes   \* history: the last results this closed generation has seen

vars == <<side, upstream, breaker, due, calls, changes, aborts, outcomes>>

Idle == [at |-> "idle", attempt |-> 0, current |-> FALSE, asked |-> "none"]

Init ==
    /\ side \in Side
    /\ upstream = "up"
    /\ breaker = [state |-> "closed", requests |-> 0, failures |-> 0]
    /\ due = FALSE
    /\ calls = [c \in Caller |-> Idle]
    /\ changes = Changes /\ aborts = Aborts
    /\ outcomes = <<>>
-----------------------------------------------------------------------------
(* gobreaker *)

\* At most one probe.
MaxRequests == 1

\* Seeded fault for NewGeneration: the requests are not cleared.
KeepsRequests(state) == [breaker EXCEPT !.state = state, !.failures = 0]

\* A new state starts with cleared counts.
NewGeneration(state) == [state |-> state, requests |-> 0, failures |-> 0]

\* Whoever looks at an open breaker after its timeout makes it half-open.
currentState ==
    IF breaker.state = "open" /\ due THEN NewGeneration("half-open") ELSE breaker

\* Seeded fault for Admits: one more than there may be.
AdmitsOneMore(b) ==
    b.state = "closed" \/ (b.state = "half-open" /\ b.requests <= MaxRequests)

Admits(b) == b.state = "closed" \/ (b.state = "half-open" /\ b.requests < MaxRequests)

\* The request is counted and sent; the count matters in half-open only.
beforeRequest(c, attempt) ==
    LET b == currentState
    IN  /\ Admits(b)
        /\ breaker' = IF b.state = "half-open" THEN [b EXCEPT !.requests = @ + 1] ELSE b
        /\ due' = (due /\ b.state = "open")
        /\ calls' = [calls EXCEPT ![c] =
                [at |-> "sent", attempt |-> attempt, current |-> TRUE, asked |-> b.state]]

\* Seeded fault for IsSuccessful: the producer's setting is missing.
IsSuccessfulByDefault(r) == r \in {"ok", "5xx"}

\* An answer with any status is no error.  To the producer's breaker, neither
\* is a cancelled context.
IsSuccessful(r) == r \in {"ok", "5xx"} \/ (side = "producer" /\ r = "cancelled")

\* Seeded fault for Counts: a late result counts.
CountsAll(c) == TRUE

\* The result of a call from an earlier generation is ignored.
Counts(c) == calls[c].current

\* The breaker after the result r of c's call.
afterRequest(c, r) ==
    LET b == currentState
    IN  IF ~ Counts(c) THEN b
        ELSE IF IsSuccessful(r)
        THEN IF b.state = "half-open" THEN NewGeneration("closed") ELSE [b EXCEPT !.failures = 0]
        ELSE IF b.state = "half-open" \/ b.failures + 1 >= ReadyToTrip
        THEN NewGeneration("open") ELSE [b EXCEPT !.failures = @ + 1]

\* Execute returns r to c, which goes on as next.
Execute(c, r, next) ==
    LET b == afterRequest(c, r)
        same == b.state = breaker.state
        recent == Append(outcomes, r)
    IN  /\ breaker' = b
        /\ due' = (due /\ b.state = "open" /\ same)
        /\ calls' = [d \in Caller |->
                IF d = c THEN next
                ELSE [calls[d] EXCEPT !.current = @ /\ same]]
        /\ outcomes' = IF b.state = "closed" /\ ~ same THEN <<>>
                       ELSE IF calls[c].asked # "closed" \/ ~ calls[c].current THEN outcomes
                       ELSE IF Len(recent) > ReadyToTrip THEN Tail(recent) ELSE recent

\* The 30 seconds of an open breaker are over.
Timeout ==
    /\ breaker.state = "open" /\ ~ due
    /\ due' = TRUE
    /\ UNCHANGED <<side, upstream, breaker, calls, changes, aborts, outcomes>>
-----------------------------------------------------------------------------
(* writeJSON and RoundTrip *)

AttemptsLeft(c) == calls[c].attempt < maxRetries[side]
BacksOff(c) == [calls[c] EXCEPT !.at = "backoff", !.attempt = @ + 1]

\* What the upstream answers to an attempt.  A backend that hangs does not: the
\* gateway's transport has no timeout.  The producer's writer has, and knows no
\* statuses.
Response ==
    IF upstream = "up" THEN "ok"
    ELSE IF side = "gateway" /\ upstream = "failing" THEN "5xx" ELSE "network"

\* The first attempt of a publish or of a proxied request.
Call(c) ==
    /\ calls[c].at = "idle"
    /\ beforeRequest(c, 0)
    /\ UNCHANGED <<side, upstream, changes, aborts, outcomes>>

\* An attempt of the producer returns to its loop through the breaker.  All
\* errors are transient but that of the context.
writeJSON(c, r) ==
    /\ side = "producer" /\ calls[c].at = "sent"
    /\ Execute(c, r, IF r = "network" /\ AttemptsLeft(c)
                     THEN [BacksOff(c) EXCEPT !.current = FALSE, !.asked = "none"] ELSE Idle)

\* An attempt of the gateway returns to its loop, and only the last one to the
\* breaker.  A cancelled context is no network error.
RoundTrip(c, r) ==
    /\ side = "gateway" /\ calls[c].at = "sent"
    /\ IF AttemptsLeft(c) /\ (r = "network" \/ (r = "5xx" /\ c \in Idempotent))
       THEN /\ calls' = [calls EXCEPT ![c] = BacksOff(c)]
            /\ UNCHANGED <<breaker, due, outcomes>>
       ELSE Execute(c, r, Idle)

Returns(c) ==
    /\ ~ (side = "gateway" /\ upstream = "hung")
    /\ writeJSON(c, Response) \/ RoundTrip(c, Response)
    /\ UNCHANGED <<side, upstream, changes, aborts>>

\* The client goes away while its attempt is under way.
Cancelled(c) ==
    /\ aborts > 0 /\ aborts' = aborts - 1
    /\ writeJSON(c, "cancelled") \/ RoundTrip(c, "cancelled")
    /\ UNCHANGED <<side, upstream, changes>>

\* Seeded fault for Retry: the producer does not ask again, as the gateway.
RetryUnasked(c) ==
    /\ calls[c].at = "backoff"
    /\ calls' = [calls EXCEPT ![c].at = "sent"]
    /\ UNCHANGED <<side, upstream, breaker, due, changes, aborts, outcomes>>

\* After the delay the producer asks the breaker again, and gives up when it
\* refuses; the gateway sends at once.
Retry(c) ==
    /\ calls[c].at = "backoff"
    /\ IF side = "gateway"
       THEN calls' = [calls EXCEPT ![c].at = "sent"] /\ UNCHANGED <<breaker, due>>
       ELSE IF Admits(currentState) THEN beforeRequest(c, calls[c].attempt)
       ELSE calls' = [calls EXCEPT ![c] = Idle] /\ UNCHANGED <<breaker, due>>
    /\ UNCHANGED <<side, upstream, changes, aborts, outcomes>>

\* The producer's loop ends with its context.
GiveUp(c) ==
    /\ side = "producer" /\ calls[c].at = "backoff"
    /\ aborts > 0 /\ aborts' = aborts - 1
    /\ calls' = [calls EXCEPT ![c] = Idle]
    /\ UNCHANGED <<side, upstream, breaker, due, changes, outcomes>>

Change ==
    /\ changes > 0 /\ changes' = changes - 1
    /\ upstream' \in Conditions[side] \ {upstream}
    /\ UNCHANGED <<side, breaker, due, calls, aborts, outcomes>>
-----------------------------------------------------------------------------

Next ==
    \/ Timeout \/ Change
    \/ \E c \in Caller :
        Call(c) \/ Returns(c) \/ Cancelled(c) \/ Retry(c) \/ GiveUp(c)

Spec == Init /\ [][Next]_vars

\* Time passes, attempts return and loops go on; and there is always somebody
\* who publishes or calls, without which a breaker never leaves half-open.
FairSpec ==
    /\ Spec
    /\ WF_vars(Timeout)
    /\ WF_vars(\E c \in Caller : Call(c))
    /\ \A c \in Caller : WF_vars(Returns(c)) /\ WF_vars(Retry(c))
-----------------------------------------------------------------------------
Result == {"ok", "5xx", "network", "cancelled"}

TypeOK ==
    /\ side \in Side /\ upstream \in Conditions[side]
    /\ breaker \in [state : {"closed", "open", "half-open"},
                    requests : 0..MaxRequests, failures : 0..(ReadyToTrip - 1)]
    /\ due \in BOOLEAN /\ (due => breaker.state = "open")
    /\ calls \in [Caller -> [at : {"idle", "sent", "backoff"},
                             attempt : 0..maxRetries[side],
                             current : BOOLEAN,
                             asked : {"none", "closed", "half-open"}]]
    /\ \A c \in Caller : calls[c].current => calls[c].asked = breaker.state
    /\ changes \in 0..Changes /\ aborts \in 0..Aborts
    /\ outcomes \in Seq(Result)

\* "No requests sent to that backend" while open (README.md:363-364): an open
\* breaker lets through only what the gateway retries for requests admitted
\* before, and a half-open one its probe (reverse.go:83, producer.go:100).
OpenSendsNothingNew ==
    [][\A c \in Caller :
        calls[c].at # "sent" /\ calls'[c].at = "sent" /\ breaker'.state # "closed" =>
            \/ side = "gateway" /\ calls[c].at = "backoff"
            \/ /\ breaker'.state = "half-open"
               /\ \A d \in Caller \ {c} :
                    calls'[d].at = "idle" \/ calls'[d].asked # "half-open"
                    \/ ~ calls'[d].current]_vars

\* The breaker opens after that many failures in a row and no success between,
\* and a client that goes away is none to the producer (producer.go:62); to the
\* gateway it is one, and an answer with an error status is not.
OpensOnlyForFailures ==
    [][breaker.state = "closed" /\ breaker'.state = "open" =>
        /\ Len(outcomes') = ReadyToTrip
        /\ \A i \in DOMAIN outcomes' :
            outcomes'[i] = "network" \/ (side = "gateway" /\ outcomes'[i] = "cancelled")]_vars

\* It closes only when the probe was answered, or, for the producer, when the
\* probe's client went away, which says nothing of the broker
\* (producer.go:62-65); never by an answer to an earlier call, however late it
\* comes (README.md:363).
ClosesOnlyByProbe ==
    [][breaker.state # "closed" /\ breaker'.state = "closed" =>
        \E c \in Caller :
            /\ calls[c].at = "sent" /\ calls[c].asked = "half-open" /\ calls'[c].at = "idle"
            /\ upstream \in {"up", "failing"} \/ (side = "producer" /\ aborts' < aborts)]_vars

\* An upstream that is back for good is served again, and one that refuses all
\* connections is left alone, but for probes (README.md:358-366).
FollowsUpstream ==
    /\ <>[](upstream = "up") => <>[](breaker.state = "closed")
    /\ <>[](upstream = "down") => <>[](breaker.state # "closed")
=============================================================================
