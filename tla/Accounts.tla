------------------------------ MODULE Accounts ------------------------------
(***************************************************************************)
(* Registration, login, profile changes and deletion of accounts: requests  *)
(* that run beside each other, each a read outside the transaction, a       *)
(* stored function whose statements see what others have committed in       *)
(* between, and an event published afterwards.                              *)
(*                                                                         *)
(* A profile is a record of its fields, and the unique index on the email   *)
(* spans deleted rows too (models/user.go).  Emails are those that the      *)
(* handlers have trimmed, lowered and found acceptable; passwords match.    *)
(***************************************************************************)
EXTENDS Integers, Sequences, FiniteSets, SequencesExt

CONSTANTS
    Request,   \* requests there may be
    Kind,      \* what each is: "register", "login", "update" or "delete"
    Subject,   \* the account each update or delete is for
    Fields,    \* the fields each request gives, of "email" and "name"
    Start,     \* the accounts at the start, with their fields
    NoName,    \* the name of a new account
    Cases,     \* bound: sets of requests that are made together
    MaxEvents  \* bound: a broker's answer is lost while the topics hold fewer

ASSUME AccountsAssumption ==
    /\ Kind \in [Request -> {"register", "login", "update", "delete"}]
    /\ \A r \in Request :
        /\ DOMAIN Fields[r] \subseteq {"email", "name"}
        /\ Kind[r] \in {"register", "login"} => "email" \in DOMAIN Fields[r]
        /\ Kind[r] \in {"update", "delete"} => Subject[r] \in DOMAIN Start
    /\ \A u \in DOMAIN Start :
        Start[u] = [email |-> Start[u].email, name |-> Start[u].name]
    /\ DOMAIN Start \cap Request = {}
    /\ Cases \subseteq SUBSET Request
    /\ MaxEvents \in Nat

VARIABLES
    users,      \* the table: [fields, live] by id, new ones under their request
    requests,   \* where each request is, and the row it read at first
    answers,    \* what was answered
    updated,    \* the topic users.updated
    deleted,    \* the topic users.deleted
    lost,       \* history: accounts changed with no event known to be published
    unheard,    \* history: accounts whose users.deleted a lost answer repeats
    overlapped  \* history: accounts with two changes under way at once

topics == <<updated, deleted>>
history == <<lost, unheard, overlapped>>
accountsVars == <<users, requests, answers, topics, history>>

AccountsInit ==
    /\ users = [u \in DOMAIN Start |-> [fields |-> Start[u], live |-> TRUE]]
    /\ \E c \in Cases : requests = [r \in c |-> [state |-> "new", old |-> <<>>]]
    /\ answers = <<>>
    /\ updated = <<>> /\ deleted = <<>>
    /\ lost = {} /\ unheard = {} /\ overlapped = {}
-----------------------------------------------------------------------------
At(r, kind, state) == Kind[r] = kind /\ requests[r].state = state
Goes(r, state) == requests' = [requests EXCEPT ![r].state = state] /\ UNCHANGED answers

Answers(r, a) ==
    /\ requests' = [requests EXCEPT ![r] = [state |-> "done", old |-> <<>>]]
    /\ answers' = [s \in DOMAIN answers \cup {r} |-> IF s = r THEN a ELSE answers[s]]

Live(u) == u \in DOMAIN users /\ users[u].live
Email(r) == Fields[r].email

\* A live account other than u with the email, as EXISTS sees it.
Taken(email, u) == \E v \in DOMAIN users \ {u} : Live(v) /\ users[v].fields.email = email

\* Any other row with the email, as the unique index sees it.
Violates(email, u) == \E v \in DOMAIN users \ {u} : users[v].fields.email = email

\* SELECT ... FOR UPDATE in fn_update_profile_atomic holds the row.
Locked(u) ==
    \E r \in DOMAIN requests : At(r, "update", "locked") /\ Subject[r] = u

Underway(u) ==
    {r \in DOMAIN requests : Kind[r] \in {"update", "delete"} /\ Subject[r] = u
                             /\ requests[r].state \notin {"new", "done"}}
-----------------------------------------------------------------------------
(* Register and Login *)

CheckRegistration(r) ==
    /\ At(r, "register", "new")
    /\ IF Taken(Email(r), r) THEN Answers(r, "email taken") ELSE Goes(r, "checked")
    /\ UNCHANGED <<users, topics, history>>

\* The table with the new account.
WithUser(r) ==
    [u \in DOMAIN users \cup {r} |->
        IF u = r THEN [fields |-> [email |-> Email(r), name |-> NoName], live |-> TRUE]
        ELSE users[u]]

\* The insert, whose unique violation is raised as EMAIL_TAKEN.
InsertUser(r) ==
    /\ At(r, "register", "checked")
    /\ IF Violates(Email(r), r)
       THEN Answers(r, "email taken") /\ UNCHANGED users
       ELSE Answers(r, "ok") /\ users' = WithUser(r)
    /\ UNCHANGED <<topics, history>>

Login(r) ==
    /\ At(r, "login", "new")
    /\ Answers(r, IF Taken(Email(r), r) THEN "ok" ELSE "invalid")
    /\ UNCHANGED <<users, topics, history>>
-----------------------------------------------------------------------------
(* UpdateProfile and DeleteAccount *)

\* FindByID, before and outside the transaction.
FindByID(r) ==
    /\ Kind[r] \in {"update", "delete"} /\ requests[r].state = "new"
    /\ LET u == Subject[r]
       IN  /\ IF Live(u)
              THEN /\ requests' = [requests EXCEPT ![r] = [state |-> "read", old |-> users[u].fields]]
                   /\ UNCHANGED answers
              ELSE Answers(r, "not found")
           /\ overlapped' = IF Underway(u) # {} THEN overlapped \cup {u} ELSE overlapped
    /\ UNCHANGED <<users, topics, lost, unheard>>

LockRow(r) ==
    /\ At(r, "update", "read") /\ ~ Locked(Subject[r])
    /\ IF ~ Live(Subject[r]) THEN Answers(r, "not found")
       ELSE IF "email" \in DOMAIN Fields[r] /\ Taken(Email(r), Subject[r])
       THEN Answers(r, "email taken")
       ELSE Goes(r, "locked")
    /\ UNCHANGED <<users, topics, history>>

Written(r) ==
    [users EXCEPT ![Subject[r]].fields =
        [f \in DOMAIN @ |-> IF f \in DOMAIN Fields[r] THEN Fields[r][f] ELSE @[f]]]

Clashes(r) == "email" \in DOMAIN Fields[r] /\ Violates(Email(r), Subject[r])

\* Seeded fault for UpdateRow: the error of the update is lost.
UpdateRowIgnoresError(r) ==
    /\ At(r, "update", "locked")
    /\ Goes(r, "written")
    /\ users' = IF Clashes(r) THEN users ELSE Written(r)
    /\ UNCHANGED <<topics, history>>

\* The update of a live row, and the commit.
Updates(r) ==
    /\ At(r, "update", "locked") /\ ~ Clashes(r)
    /\ users' = IF Live(Subject[r]) THEN Written(r) ELSE users

\* Here a unique violation is not caught: the service does not know the error,
\* and the answer is a 500.
UpdateRow(r) ==
    /\ \/ Updates(r) /\ Goes(r, "written")
       \/ At(r, "update", "locked") /\ Clashes(r) /\ Answers(r, "error") /\ UNCHANGED users
    /\ UNCHANGED <<topics, history>>

\* What the event says has changed, against the row as it was read at first.
Changed(r) ==
    [f \in {g \in DOMAIN Fields[r] : Fields[r][g] # requests[r].old[g]} |-> Fields[r][f]]

\* Seeded fault for SoftDelete: it passes over a locked row.
SoftDeleteSkipsLocked(r) ==
    /\ At(r, "delete", "read")
    /\ users' = IF Locked(Subject[r]) THEN users
                ELSE [users EXCEPT ![Subject[r]].live = FALSE]
    /\ Goes(r, "written")
    /\ UNCHANGED <<topics, history>>

\* It waits for the row; one that is deleted by then is no error.
Deletes(r) ==
    /\ At(r, "delete", "read") /\ ~ Locked(Subject[r])
    /\ users' = [users EXCEPT ![Subject[r]].live = FALSE]

SoftDelete(r) ==
    /\ Deletes(r)
    /\ Goes(r, "written")
    /\ UNCHANGED <<topics, history>>

\* A statement fails, and with it the transaction: a 500.
StatementFails(r) ==
    /\ requests[r].state \in {"new", "checked", "read", "locked"}
    /\ Answers(r, "error")
    /\ UNCHANGED <<users, topics, history>>

\* The transaction commits and its answer is lost: to the service an error like
\* any other, so the change is there and no event is published.
CommitUnheard(r) ==
    /\ \/ /\ At(r, "register", "checked") /\ ~ Violates(Email(r), r)
          /\ users' = WithUser(r) /\ UNCHANGED lost
       \/ (Updates(r) \/ Deletes(r)) /\ lost' = lost \cup {Subject[r]}
    /\ Answers(r, "error")
    /\ UNCHANGED <<topics, unheard, overlapped>>

HasEvent(r) == Kind[r] = "delete" \/ Changed(r) # <<>>

\* users.updated if anything changed, or users.deleted, once more.
Writes(r) ==
    IF Kind[r] = "delete"
    THEN deleted' = Append(deleted, Subject[r]) /\ UNCHANGED updated
    ELSE /\ updated' = IF Changed(r) = <<>> THEN updated
                       ELSE Append(updated, [user |-> Subject[r], changes |-> Changed(r)])
         /\ UNCHANGED deleted

Publish(r) ==
    /\ requests[r].state = "written"
    /\ Writes(r)
    /\ Answers(r, "ok")
    /\ UNCHANGED <<users, history>>

\* The event is written and the broker's answer is lost: writeJSON, or the Kafka
\* writer under it, will write it again, unless it fails for good first.
WriteUnheard(r) ==
    /\ requests[r].state = "written"
    /\ HasEvent(r) /\ Len(updated) + Len(deleted) < MaxEvents
    /\ Writes(r)
    /\ unheard' = IF Kind[r] = "delete" THEN unheard \cup {Subject[r]} ELSE unheard
    /\ UNCHANGED <<users, requests, answers, lost, overlapped>>

\* An error of the producer is logged.  Whether an earlier try arrived it does
\* not know.
PublishFails(r) ==
    /\ requests[r].state = "written"
    /\ HasEvent(r)
    /\ lost' = lost \cup {Subject[r]}
    /\ Answers(r, "ok")
    /\ UNCHANGED <<users, topics, unheard, overlapped>>
-----------------------------------------------------------------------------

Serve(r) ==
    \/ CheckRegistration(r) \/ InsertUser(r) \/ Login(r)
    \/ FindByID(r) \/ LockRow(r) \/ UpdateRow(r) \/ SoftDelete(r)
    \/ StatementFails(r) \/ CommitUnheard(r)
    \/ Publish(r) \/ WriteUnheard(r) \/ PublishFails(r)

AccountsNext == \E r \in DOMAIN requests : Serve(r)

AccountsSpec == AccountsInit /\ [][AccountsNext]_accountsVars
-----------------------------------------------------------------------------
\* The fields of u after all its events in the topic.
Replayed(u) ==
    FoldLeft(LAMBDA fields, e :
                [f \in DOMAIN fields |->
                    IF e.user = u /\ f \in DOMAIN e.changes THEN e.changes[f] ELSE fields[f]],
             Start[u], updated)

\* Whoever follows users.updated knows the profile: its events add up to the
\* row, whatever failed and however often one is written, unless one may not
\* have been published, or two changes of the account overlapped, when they are
\* published in another order than written or compared with a row that is stale
\* (user_service.go:95, 128-152, producer.go:98-131).
EventsAddUp ==
    \A u \in DOMAIN Start :
        Underway(u) = {} /\ u \notin lost \cup overlapped => Replayed(u) = users[u].fields

\* users.deleted is about deleted accounts: once about each, unless two deletions
\* overlapped or a broker's answer was lost, and about all of them once nobody
\* is at work, but those whose publish failed or whose commit was not heard of
\* (user_service.go:155-179, producer.go:98-131).
DeletionsAreTrue ==
    \A u \in DOMAIN Start :
        /\ u \in ToSet(deleted) => ~ Live(u)
        /\ \A i, j \in DOMAIN deleted :
            deleted[i] = u /\ deleted[j] = u /\ i # j => u \in overlapped \cup unheard
        /\ Underway(u) = {} /\ ~ Live(u) /\ u \notin lost => u \in ToSet(deleted)
=============================================================================
