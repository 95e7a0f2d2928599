------------------------- MODULE MCNotificationHub -------------------------
(***************************************************************************)
(* NotificationHub with a user who has two tabs and one who is away, and    *)
(* with tabs in which users log in and out.                                 *)
(***************************************************************************)
EXTENDS NotificationHub

CONSTANTS u1, u2, nobody, everyone, b1, p1, p2

MCMessages == [f \in Feed |->
    CASE f = "matched"   -> <<<<u1, u2>>>>
      [] f = "cancelled" -> <<<<u1>>, <<>>>>
      [] f = "depth"     -> <<<<everyone>>>>]

In(user) == [b \in Browser |-> user]

MCCases == {
    [pages |-> {p1, p2}, feeds |-> {"cancelled"}, token |-> In(u1),
     sockets |-> 2, restarts |-> 0, logins |-> 0],
    [pages |-> {p1, p2}, feeds |-> {"depth"}, token |-> In(u1),
     sockets |-> 2, restarts |-> 0, logins |-> 0],
    [pages |-> {p1}, feeds |-> {"matched", "depth"}, token |-> In(u1),
     sockets |-> 2, restarts |-> 1, logins |-> 0],
    [pages |-> {p1}, feeds |-> {"matched"}, token |-> In(u1),
     sockets |-> 3, restarts |-> 1, logins |-> 0],
    [pages |-> {p1}, feeds |-> {"matched"}, token |-> In(u1),
     sockets |-> 2, restarts |-> 0, logins |-> 1],
    [pages |-> {p1, p2}, feeds |-> {}, token |-> In(nobody),
     sockets |-> 3, restarts |-> 0, logins |-> 2]}

MCBrowserOf == [p \in Page |-> b1]
=============================================================================
