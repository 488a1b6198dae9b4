------------------------------- MODULE Runtime -------------------------------
(***************************************************************************)
(* The process around the users: the registry of live MAX clients with its *)
(* one lock, the poll loop that visits the users in turn and reports the   *)
(* container's health, outbound sends that share the clients, and the      *)
(* shutdown.  What a poll does with messages is InboundSync; what a check  *)
(* does with a session is SessionHealth.                                   *)
(*                                                                         *)
(* No call to MAX has a timeout, so none is assumed to return: a start, a  *)
(* poll, a send or a health check may hang for ever.  Only client.close()  *)
(* is bounded (5 s).                                                       *)
(***************************************************************************)
EXTENDS Naturals, Sequences, FiniteSets

CONSTANTS
    Users, Senders,   \* bridged users; concurrent message handlers
    Poller, Main,     \* the other two tasks
    MaxClients,       \* bound: a user's client objects alive or still referred to
    MaxFaults         \* bound: failures and expired sessions

ASSUME UsersAssumption == Users # {} /\ IsFiniteSet(Users)
ASSUME TasksAssumption == Poller # Main /\ {Poller, Main} \cap Senders = {}
ASSUME BoundsAssumption == MaxClients \in Nat /\ MaxFaults \in Nat

VARIABLES
    active,           \* users whose binding is active
    lock,             \* MaxClientRuntimeRegistry._lock: the holder, then the waiters
    cached, state,    \* _clients: a user's client; what each client object does
    task,             \* where each task is: its user and the client in its hands
    service,          \* _inbound_services: "used" once the service had a client
    todo, hadFailure, \* locals of _poll_once
    marker, stale,    \* the unhealthy marker; whether the heartbeat is stale
    left, size,       \* stop(): services still to close, services when it began
    ending,           \* close_all(): clients still to close
    faults,           \* environment bound
    failed            \* observed until the shutdown: active users whose last poll failed

registry == <<lock, cached, state>>
cycle    == <<todo, hadFailure>>
health   == <<marker, stale>>
shutdown == <<left, size, ending>>
vars     == <<active, registry, task, service, cycle, health, shutdown, faults, failed>>

Tasks   == Senders \cup {Poller, Main}
Clients == Users \X (1..MaxClients)
None    == <<>>
AnyUser == CHOOSE u \in Users : TRUE
Resting(pc) == [pc |-> pc, user |-> AnyUser, client |-> None]
Running == task[Main].pc = "run"
Ended   == task[Main].pc \in {"done", "raised"}

Init ==
    /\ active = Users
    /\ lock = <<>> /\ cached = [u \in Users |-> None]
    /\ state = [c \in Clients |-> "closed"]
    /\ task = [t \in Tasks |-> Resting(CASE t = Poller -> "sleep" [] t = Main -> "run"
                                          [] OTHER -> "idle")]
    /\ service = [u \in Users |-> "none"]
    /\ todo = {} /\ hadFailure = FALSE
    /\ marker = FALSE /\ stale = FALSE
    /\ left = {} /\ size = 0 /\ ending = {} /\ faults = 0 /\ failed = {}

-----------------------------------------------------------------------------
(* Tasks and the lock, which is first come, first served.                  *)

At(t, pc)         == ~Ended /\ task[t].pc = pc
Go(t, pc)         == task' = [task EXCEPT ![t].pc = pc]
GoWith(t, pc, c)  == task' = [task EXCEPT ![t] = [pc |-> pc, user |-> @.user, client |-> c]]
TurnTo(t, pc, u)  == task' = [task EXCEPT ![t] = [pc |-> pc, user |-> u, client |-> @.client]]
Rest(t, pc)       == task' = [task EXCEPT ![t] = Resting(pc)]
Holds(t)          == lock # <<>> /\ Head(lock) = t
Acquire(t)        == lock' = Append(lock, t)
Release(t)        == lock' = IF Holds(t) THEN Tail(lock) ELSE lock

Fault             == faults < MaxFaults /\ faults' = faults + 1
FaultUnless(ok)   == IF ok THEN UNCHANGED faults ELSE Fault

\* Mutant of PollReturns: the last user's poll decides for the cycle.
PollReturnsLast(ok) ==
    LET u == task[Poller].user
    IN  /\ hadFailure' = ~ok
        /\ failed' = IF ok \/ u \notin active THEN failed \ {u} ELSE failed \cup {u}

\* _poll_user returns: TRUE for a good poll and for an AuthError.
PollReturns(ok) ==
    LET u == task[Poller].user
    IN  /\ hadFailure' = (hadFailure \/ ~ok)
        /\ failed' = IF ok \/ u \notin active THEN failed \ {u} ELSE failed \cup {u}

-----------------------------------------------------------------------------
(* The registry.                                                           *)

\* A closed client nobody refers to any more stands for a new one.
IsFresh(c) == state[c] = "closed" /\ \A t \in Tasks : task[t].client # c
NewClient(u, n) == IsFresh(<<u, n>>) /\ \A m \in 1..MaxClients : IsFresh(<<u, m>>) => n <= m

\* The poller's service remembers that it had a client.
Serves(t) == service' = IF t = Poller THEN [service EXCEPT ![task[t].user] = "used"] ELSE service

GetCachedClient(t) ==
    LET c == cached[task[t].user]
    IN  /\ At(t, "get") /\ Holds(t) /\ c # None
        /\ Release(t) /\ GoWith(t, "use", c) /\ Serves(t)
        /\ UNCHANGED <<active, cached, state, cycle, health, shutdown, faults, failed>>

\* Mutant of GetClient: the lock is released before the start.
GetClientUnlocked(t) ==
    LET u == task[t].user
    IN  \E n \in 1..MaxClients :
          /\ At(t, "get") /\ Holds(t) /\ cached[u] = None /\ NewClient(u, n)
          /\ state' = [state EXCEPT ![<<u, n>>] = "starting"] /\ GoWith(t, "start", <<u, n>>)
          /\ Release(t)
          /\ UNCHANGED <<active, cached, service, cycle, health, shutdown, faults, failed>>

\* Without a cached client the lock is kept while a new one starts.
GetClient(t) ==
    LET u == task[t].user
    IN  \E n \in 1..MaxClients :
          /\ At(t, "get") /\ Holds(t) /\ cached[u] = None /\ NewClient(u, n)
          /\ state' = [state EXCEPT ![<<u, n>>] = "starting"] /\ GoWith(t, "start", <<u, n>>)
          /\ UNCHANGED <<active, lock, cached, service, cycle, health, shutdown, faults, failed>>

StartReady(t) ==
    LET c == task[t].client
    IN  /\ At(t, "start")
        /\ state' = [state EXCEPT ![c] = "open"]
        /\ cached' = [cached EXCEPT ![task[t].user] = c]
        /\ Release(t) /\ Go(t, "use") /\ Serves(t)
        /\ UNCHANGED <<active, cycle, health, shutdown, faults, failed>>

\* Mutant of StartRaises: the error leaves get_client with the lock.
StartRaisesLocked(t, refused) ==
    /\ At(t, "start") /\ Fault
    /\ state' = [state EXCEPT ![task[t].client] = "closed"]
    /\ IF t = Poller THEN GoWith(t, "next", None) /\ PollReturns(refused)
                     ELSE Rest(t, "idle") /\ UNCHANGED <<hadFailure, failed>>
    /\ UNCHANGED <<active, lock, cached, service, todo, health, shutdown>>

\* The session is refused (an AuthError) or MAX is not reached; the client ends by
\* itself and is not kept.
StartRaises(t, refused) ==
    /\ At(t, "start") /\ Fault
    /\ state' = [state EXCEPT ![task[t].client] = "closed"] /\ Release(t)
    /\ IF t = Poller THEN GoWith(t, "next", None) /\ PollReturns(refused)
                     ELSE Rest(t, "idle") /\ UNCHANGED <<hadFailure, failed>>
    /\ UNCHANGED <<active, cached, service, todo, health, shutdown>>

\* Who closes a user's client: a reconnect storm, a visit to an inactive user, stop().
Closing == [storm |-> "stormed", drop |-> "dropped", stop |-> "stopped"]
ClosingSteps == {"stormed", "dropped", "stopped"}
IsClosing(t, pc) == At(t, Closing[pc])

\* Mutant of CloseUser: the closed client stays in the registry.
CloseUserKeeps(t) ==
    LET c == cached[task[t].user]
    IN  \E pc \in DOMAIN Closing :
          /\ At(t, pc) /\ Holds(t) /\ Release(t) /\ GoWith(t, Closing[pc], c)
          /\ state' = IF c = None THEN state ELSE [state EXCEPT ![c] = "closing"]
          /\ UNCHANGED <<active, cached, service, cycle, health, shutdown, faults, failed>>

\* close_user: the client leaves the registry under the lock and is closed outside it.
CloseUser(t) ==
    LET c == cached[task[t].user]
    IN  \E pc \in DOMAIN Closing :
          /\ At(t, pc) /\ Holds(t) /\ Release(t) /\ GoWith(t, Closing[pc], c)
          /\ cached' = [cached EXCEPT ![task[t].user] = None]
          /\ state' = IF c = None THEN state ELSE [state EXCEPT ![c] = "closing"]
          /\ UNCHANGED <<active, service, cycle, health, shutdown, faults, failed>>

\* close() awaits the pymax task it cancels, which nobody watches: when that has ended
\* with an error before, close() raises it.  A storm's poll has failed anyway.
CloseClient(t) ==
    LET c == task[t].client
    IN  /\ state' = IF c = None THEN state ELSE [state EXCEPT ![c] = "closed"]
        /\ \/ IsClosing(t, "storm") /\ GoWith(t, "next", None) /\ PollReturns(FALSE)
           \/ IsClosing(t, "drop") /\ GoWith(t, "next", None) /\ PollReturns(TRUE)
           \/ /\ UNCHANGED <<hadFailure, failed>>
              /\ \/ IsClosing(t, "drop") /\ c # None /\ GoWith(t, "dead", None)
                 \/ IsClosing(t, "stop") /\ Rest(t, "stopping")
                 \/ IsClosing(t, "stop") /\ c # None /\ Rest(t, "raised")
        /\ UNCHANGED <<active, lock, cached, service, todo, health, shutdown, faults>>

-----------------------------------------------------------------------------
(* BackgroundPoller and RuntimeHealthTracker.                              *)

\* Mutant of PollOnce: the loop does not see that the process stops.
PollOnceRunsOn ==
    /\ At(Poller, "sleep")
    /\ Go(Poller, "begin") /\ todo' = active /\ hadFailure' = FALSE
    /\ UNCHANGED <<active, registry, service, health, shutdown, faults, failed>>

PollOnce ==
    /\ At(Poller, "sleep")
    /\ IF Running THEN Go(Poller, "begin") /\ todo' = active /\ hadFailure' = FALSE
                  ELSE Go(Poller, "ended") /\ UNCHANGED cycle
    /\ UNCHANGED <<active, registry, service, health, shutdown, faults, failed>>

BetweenUsers == At(Poller, "begin") \/ At(Poller, "next")

\* Mutant of PollUser: the first user of a cycle is its last.
PollUserOnly(u) ==
    /\ BetweenUsers /\ Running /\ u \in todo /\ todo' = {}
    /\ TurnTo(Poller, "visit", u)
    /\ UNCHANGED <<active, registry, service, hadFailure, health, shutdown, faults, failed>>

PollUser(u) ==
    /\ BetweenUsers /\ Running /\ u \in todo /\ todo' = todo \ {u}
    /\ TurnTo(Poller, "visit", u)
    /\ UNCHANGED <<active, registry, service, hadFailure, health, shutdown, faults, failed>>

\* The marker is written, or removed with a new heartbeat.
EndCycle ==
    /\ BetweenUsers /\ (todo = {} \/ ~Running) /\ Go(Poller, "sleep")
    /\ marker' = hadFailure /\ stale' = (stale /\ hadFailure)
    /\ UNCHANGED <<active, registry, service, cycle, shutdown, faults, failed>>

\* After the health check, which may hang or mark the binding (BindingChanges), an
\* active user's service is found or made and polls: it takes a client first.
ServeUser ==
    LET u == task[Poller].user
    IN  /\ At(Poller, "visit") /\ u \in active
        /\ service' = IF service[u] = "none" THEN [service EXCEPT ![u] = "new"] ELSE service
        /\ Acquire(Poller) /\ Go(Poller, "get")
        /\ UNCHANGED <<active, cached, state, cycle, health, shutdown, faults, failed>>

\* The service of an inactive user is dropped, and closed if it ever had a client.
DropUser ==
    LET u == task[Poller].user
    IN  /\ At(Poller, "visit") /\ u \notin active
        /\ service' = [service EXCEPT ![u] = "none"]
        /\ \/ /\ service[u] = "used" /\ Acquire(Poller) /\ Go(Poller, "drop")
              /\ UNCHANGED <<hadFailure, failed>>
           \/ /\ service[u] # "used" /\ UNCHANGED lock /\ GoWith(Poller, "next", None)
              /\ PollReturns(TRUE)
        /\ UNCHANGED <<active, cached, state, todo, health, shutdown, faults>>

\* The buffer is drained; then the dirty chats are asked for, under the lock, unless
\* a reconnect storm closes the client.
PollMessages ==
    /\ At(Poller, "use") /\ Acquire(Poller)
    /\ \/ Go(Poller, "dirty") /\ UNCHANGED faults
       \/ Go(Poller, "storm") /\ Fault
    /\ UNCHANGED <<active, cached, state, service, cycle, health, shutdown, failed>>

\* The dirty chats and the hourly catch-up are read; any error fails the poll.  (A
\* poll that hangs does so in PollMessages.)
PollChats ==
    /\ At(Poller, "dirty") /\ Holds(Poller) /\ Release(Poller) /\ GoWith(Poller, "next", None)
    /\ \E ok \in BOOLEAN : FaultUnless(ok) /\ PollReturns(ok)
    /\ UNCHANGED <<active, cached, state, service, todo, health, shutdown>>

\* scripts/healthcheck.sh
IsHealthy == ~marker /\ ~stale

-----------------------------------------------------------------------------
(* Outbound messages, users and time.                                      *)

\* handle_message takes a text, a photo or a file; deliver, deliver_photo and
\* deliver_file are the same but for the call to MAX.
Deliver(t, u) ==
    /\ At(t, "idle") /\ Running /\ Acquire(t)
    /\ TurnTo(t, "get", u)
    /\ UNCHANGED <<active, cached, state, service, cycle, health, shutdown, faults, failed>>

\* The message is sent and linked, and its chat is to be marked dirty.
SendMessage(t) ==
    /\ At(t, "use") /\ state[task[t].client] = "open"
    /\ Acquire(t) /\ Go(t, "mark")
    /\ UNCHANGED <<active, cached, state, service, cycle, health, shutdown, faults, failed>>

\* Mutant of SendRaises: the error ends the handler for ever.
SendRaisesForEver(t) ==
    /\ At(t, "use") /\ Rest(t, "dead")
    /\ UNCHANGED <<active, registry, service, cycle, health, shutdown, faults, failed>>

\* An error, as from a client closed meanwhile, is audited and raised.
SendRaises(t) ==
    /\ At(t, "use") /\ Rest(t, "idle")
    /\ UNCHANGED <<active, registry, service, cycle, health, shutdown, faults, failed>>

MarkChatDirty(t) ==
    /\ At(t, "mark") /\ Holds(t) /\ Release(t) /\ Rest(t, "idle")
    /\ UNCHANGED <<active, cached, state, service, cycle, health, shutdown, faults, failed>>

\* /start authorises a user, /start or /resync marks an expired session.
BindingChanges(u) ==
    /\ Running
    /\ \/ u \notin active /\ active' = active \cup {u} /\ UNCHANGED <<faults, failed>>
       \/ u \in active /\ Fault /\ active' = active \ {u} /\ failed' = failed \ {u}
    /\ UNCHANGED <<registry, task, service, cycle, health, shutdown>>

\* The heartbeat is older than RUNTIME_HEARTBEAT_STALE_AFTER_SECONDS: no cycle has
\* ended well for that long, because one visit takes so long, the loop is dead, or
\* cycle after cycle fails.
HeartbeatAges ==
    /\ Running /\ ~stale /\ stale' = TRUE
    /\ task[Poller].pc \notin {"sleep", "begin", "next"} \/ marker
    /\ UNCHANGED <<active, registry, task, service, cycle, marker, shutdown, faults, failed>>

-----------------------------------------------------------------------------
(* Shutdown: main() after dp.start_polling returns.                        *)

Services == {u \in Users : service[u] # "none"}

Stop ==
    /\ At(Main, "run") /\ Go(Main, "stopping")
    /\ left' = Services /\ size' = Cardinality(Services) /\ failed' = {}
    /\ UNCHANGED <<active, registry, service, cycle, health, ending, faults>>

\* Mutant of StopService: it goes on while there are services, and drops none.
StopServiceKeeps(u) ==
    /\ At(Main, "stopping") /\ Cardinality(Services) = size
    /\ u \in left
    /\ \/ /\ service[u] = "used" /\ Acquire(Main) /\ TurnTo(Main, "stop", u)
       \/ service[u] # "used" /\ UNCHANGED <<lock, task>>
    /\ UNCHANGED <<active, cached, state, service, cycle, health, shutdown,
                   faults, failed>>

StopService(u) ==
    /\ At(Main, "stopping") /\ Cardinality(Services) = size
    /\ u \in left /\ left' = left \ {u}
    /\ \/ /\ service[u] = "used" /\ Acquire(Main) /\ TurnTo(Main, "stop", u)
       \/ service[u] # "used" /\ UNCHANGED <<lock, task>>
    /\ UNCHANGED <<active, cached, state, service, cycle, health, size, ending,
                   faults, failed>>

\* The poller adds or drops a service while stop() iterates over them.
StopRaises ==
    /\ At(Main, "stopping") /\ size # 0 /\ Cardinality(Services) # size /\ Go(Main, "raised")
    /\ UNCHANGED <<active, registry, service, cycle, health, shutdown, faults, failed>>

StopEnds ==
    /\ At(Main, "stopping") /\ left = {} /\ (size = 0 \/ Cardinality(Services) = size)
    /\ service' = [u \in Users |-> "none"] /\ Acquire(Main) /\ Go(Main, "closeAll")
    /\ UNCHANGED <<active, cached, state, cycle, health, shutdown, faults, failed>>

\* Mutant of CloseAll: the registry is emptied before its clients are copied.
CloseAllForgets ==
    /\ At(Main, "closeAll") /\ Holds(Main) /\ Release(Main) /\ Go(Main, "closingAll")
    /\ cached' = [u \in Users |-> None] /\ ending' = {}
    /\ UNCHANGED <<active, state, service, cycle, health, left, size, faults, failed>>

CloseAll ==
    /\ At(Main, "closeAll") /\ Holds(Main) /\ Release(Main) /\ Go(Main, "closingAll")
    /\ ending' = {cached[u] : u \in Users} \ {None}
    /\ cached' = [u \in Users |-> None]
    /\ state' = [c \in Clients |-> IF c \in ending' THEN "closing" ELSE state[c]]
    /\ UNCHANGED <<active, service, cycle, health, left, size, faults, failed>>

CloseNext(c) ==
    /\ At(Main, "closingAll") /\ c \in ending /\ ending' = ending \ {c}
    /\ state' = [state EXCEPT ![c] = "closed"]
    /\ Go(Main, "raised") \/ UNCHANGED task
    /\ UNCHANGED <<active, lock, cached, service, cycle, health, left, size, faults, failed>>

MainEnds ==
    /\ At(Main, "closingAll") /\ ending = {} /\ Go(Main, "done")
    /\ UNCHANGED <<active, registry, service, cycle, health, shutdown, faults, failed>>

-----------------------------------------------------------------------------
\* Where a task is in the registry's code.
AtRegistry(t) == task[t].pc \in {"get"} \cup DOMAIN Closing \cup ClosingSteps

\* What a task does without waiting for MAX.
Local(t) ==
    /\ AtRegistry(t)
    /\ GetCachedClient(t) \/ GetClient(t) \/ CloseUser(t) \/ CloseClient(t)

LocalPoller ==
    \/ Local(Poller) \/ PollOnce \/ EndCycle \/ PollChats
    \/ \E u \in todo : PollUser(u)

LocalMain ==
    \/ Local(Main) \/ StopRaises \/ StopEnds \/ CloseAll \/ MainEnds
    \/ \E u \in left : StopService(u)
    \/ \E c \in ending : CloseNext(c)

\* What waits for MAX (a visit for the health check's client), for users and signals.
Waiting(t) == StartReady(t) \/ \E refused \in BOOLEAN : StartRaises(t, refused)

Environment ==
    \/ \E t \in Tasks : Waiting(t)
    \/ ServeUser \/ DropUser \/ PollMessages \/ Stop
    \/ \E t \in Senders : SendMessage(t) \/ SendRaises(t) \/ \E u \in Users : Deliver(t, u)
    \/ \E u \in Users : BindingChanges(u)

Next ==
    \/ LocalPoller \/ LocalMain
    \/ \E t \in Senders : Local(t) \/ MarkChatDirty(t)
    \/ HeartbeatAges \/ Environment

Spec == Init /\ [][Next]_vars

\* Ready tasks run, the lock is handed over in turn and time passes.
Fairness ==
    /\ WF_vars(LocalPoller) /\ WF_vars(LocalMain) /\ WF_vars(HeartbeatAges)
    /\ \A t \in Senders : WF_vars(Local(t) \/ MarkChatDirty(t))

FairSpec == Spec /\ Fairness

-----------------------------------------------------------------------------
(* Properties.                                                             *)

PollerSteps == {"sleep", "begin", "next", "visit", "get", "start", "use", "dirty",
                "storm", "stormed", "drop", "dropped", "dead", "ended"}
SenderSteps == {"idle", "get", "start", "use", "mark"}
MainSteps   == {"run", "stopping", "stop", "stopped", "closeAll", "closingAll", "done", "raised"}

\* Every variable keeps its type, and every task its program.
TypeOK ==
    /\ active \subseteq Users /\ lock \in Seq(Tasks)
    /\ cached \in [Users -> {None} \cup Clients]
    /\ state \in [Clients -> {"closed", "starting", "open", "closing"}]
    /\ task \in [Tasks -> [pc : PollerSteps \cup SenderSteps \cup MainSteps, user : Users,
                           client : {None} \cup Clients]]
    /\ task[Poller].pc \in PollerSteps /\ task[Main].pc \in MainSteps
    /\ \A t \in Senders : task[t].pc \in SenderSteps
    /\ service \in [Users -> {"none", "new", "used"}]
    /\ todo \subseteq Users /\ hadFailure \in BOOLEAN
    /\ marker \in BOOLEAN /\ stale \in BOOLEAN
    /\ left \subseteq Users /\ size \in Nat /\ ending \subseteq Clients /\ failed \subseteq Users
    /\ faults \in Nat

\* The registry holds every client it started that still runs, and no other: none is
\* lost before it is closed, and none that is being closed is handed out (get_client,
\* close_user).
CacheIsExact ==
    /\ \A c \in Clients : state[c] = "open" => cached[c[1]] = c
    /\ \A u \in Users : cached[u] # None => state[cached[u]] = "open" /\ cached[u][1] = u

\* While the process runs, a user whose last poll failed shows in the marker, or will
\* at the end of the cycle: another user's good poll hides nothing (_poll_once).
FailureShows == Running /\ failed # {} => marker \/ hadFailure

\* Where a task waits for the registry's lock or holds it: its `async with` blocks.
AtLock == {"get", "start", "storm", "drop", "stop", "dirty", "mark", "closeAll"}

\* The lock's holder and its waiters are the tasks that are at it, each once: no way
\* out of get_client, close_user, close_all or a visit to the buffer, by return or by
\* error, keeps the lock or leaves a waiter behind.
QueueIsExact ==
    /\ \A t \in Tasks : task[t].pc \in AtLock <=> \E i \in DOMAIN lock : lock[i] = t
    /\ \A i, j \in DOMAIN lock : lock[i] = lock[j] => i = j

\* A client that was started is in the registry, or in the hands of the task that
\* starts or closes it, or still on close_all()'s list: none runs on unowned, whatever
\* is closed while (get_client, close_user, close_all).  When close_all() raises, the
\* process that ends takes the rest of its list along.
Owned(c) ==
    \/ cached[c[1]] = c \/ c \in ending
    \/ \E t \in Tasks : task[t].client = c /\ task[t].pc \in {"start"} \cup ClosingSteps
NoClientIsLost == \A c \in Clients : state[c] # "closed" => Owned(c)

\* The registry keeps what Sessions promises of the clients (get_client, close_user,
\* close_all).
Promise == INSTANCE Sessions WITH
    starting <- {c \in Clients : state[c] = "starting"}, session <- cached,
    closing <- {c \in Clients : state[c] = "closing"}
KeepsSessions == Promise!Spec

\* How many steps a task has before it at most, once the process stops.
StepsLeft(t) ==
    LET pc == task[t].pc
    IN  CASE t \in Senders -> [idle |-> 0, mark |-> 1, use |-> 2, start |-> 3, get |-> 4][pc]
          [] t = Poller ->
               [dead |-> 0, ended |-> 0, sleep |-> 1, begin |-> 2, next |-> 2, dirty |-> 3,
                stormed |-> 3, dropped |-> 3, storm |-> 4, drop |-> 4, use |-> 5,
                start |-> 6, get |-> 7, visit |-> 8][pc]
          [] OTHER ->
               LET more == 3 * Cardinality(left) + Cardinality(Users) + 3
               IN  [done |-> 0, raised |-> 0, closingAll |-> Cardinality(ending) + 1,
                    closeAll |-> Cardinality(Users) + 2, stopping |-> more,
                    stopped |-> more + 1, stop |-> more + 2][pc]

\* Once dp.start_polling has returned, every step takes one task nearer to its end and
\* sends none back: stop() and close_all() loop over what only gets less, the poller
\* begins no further visit, and a handler that still comes to get_client, when the
\* registry has been emptied, starts one client at most (main, stop, close_all).
OneStepLess ==
    \E t \in Tasks : /\ StepsLeft(t)' < StepsLeft(t)
                     /\ \A s \in Tasks \ {t} : StepsLeft(s)' = StepsLeft(s)
WindsDown == [][~Running => OneStepLess]_vars

\* Inductive: a client that starts has the lock's holder behind it, and its user none.
StartOK ==
    /\ \A t \in Tasks : task[t].pc = "start" =>
         LET c == task[t].client
         IN  /\ Holds(t) /\ c \in Clients /\ state[c] = "starting"
             /\ c[1] = task[t].user /\ cached[task[t].user] = None
    /\ \A c \in Clients : state[c] = "starting" =>
         \E t \in Tasks : task[t].pc = "start" /\ task[t].client = c

\* Inductive: what a task or close_all() is about to close has left the registry, and
\* they do not close the same client.
ClosingOK ==
    /\ \A t \in Tasks : task[t].pc \in ClosingSteps /\ task[t].client # None =>
         state[task[t].client] \in {"closing", "closed"}
    /\ \A c \in ending : /\ state[c] = "closing"
                         /\ \A t \in Tasks : task[t].client = c => task[t].pc \notin ClosingSteps

\* Inductive: between cycles the marker tells; within one, a failure is remembered or
\* its user is still to be visited.
HealthOK ==
    /\ failed \subseteq active /\ FailureShows
    /\ Running /\ task[Poller].pc = "sleep" /\ failed # {} => marker
    /\ Running /\ task[Poller].pc # "sleep" /\ ~hadFailure =>
         \A u \in failed : u \in todo \/ (task[Poller].pc \notin {"begin", "next"}
                                        /\ task[Poller].user = u)

IInv == TypeOK /\ StartOK /\ ClosingOK /\ CacheIsExact /\ HealthOK

\* An active user is visited again and again, or the container turns unhealthy and
\* stays so: also when another user's start holds the lock for ever, and when the poll
\* loop is dead (_poll_once, record_heartbeat, scripts/healthcheck.sh).  A visit that an
\* AuthError ends counts, as it does for the loop.
Visited(u) == task[Poller].pc = "next" /\ task[Poller].user = u
VisitedOrUnhealthy ==
    \A u \in Users :
        \/ []<>(Visited(u) \/ u \notin active \/ ~Running)
        \/ <>[]~IsHealthy

\* A shutdown ends, unless it meets a start that holds the registry's lock
\* (stop, close_all).
ShutdownEnds == ~Running ~> Ended \/ \E t \in Tasks : task[t].pc = "start"
=============================================================================
