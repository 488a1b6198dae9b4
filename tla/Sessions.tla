------------------------------ MODULE Sessions ------------------------------
(***************************************************************************)
(* What the client registry promises about the MAX sessions: a user has at *)
(* most one, one at a time is started in the whole process, and a client   *)
(* is started for a user without a session, handed out while it is open,   *)
(* and out of the registry before anybody closes it.                       *)
(* Runtime implements it.                                                  *)
(***************************************************************************)
CONSTANTS
    Users,
    Clients,  \* pairs of a user and the number of a client of his
    None

VARIABLES
    starting,  \* the client that is being started: one or none
    session,   \* the open client of each user
    closing    \* clients on their way out

sessions == <<starting, session, closing>>

Init == starting = {} /\ session = [u \in Users |-> None] /\ closing = {}

Start(c) ==
    /\ starting = {} /\ session[c[1]] = None /\ c \notin closing
    /\ starting' = {c} /\ UNCHANGED <<session, closing>>

Open ==
    /\ \E c \in starting : session' = [session EXCEPT ![c[1]] = c]
    /\ starting' = {} /\ UNCHANGED closing

Fail == starting' = {} /\ UNCHANGED <<session, closing>>

\* One user's client is closed, or those of all users.
Close(users) ==
    /\ session' = [u \in Users |-> IF u \in users THEN None ELSE session[u]]
    /\ closing' = closing \cup ({session[u] : u \in users} \ {None})
    /\ UNCHANGED starting

Closed(c) == closing' = closing \ {c} /\ UNCHANGED <<starting, session>>

Next ==
    \/ Open \/ Fail \/ Close(Users)
    \/ \E c \in Clients : Start(c) \/ Closed(c)
    \/ \E u \in Users : Close({u})

Spec == Init /\ [][Next]_sessions
=============================================================================
