-------------------------- MODULE RuntimeStepProofs --------------------------
(***************************************************************************)
(* What one step of Runtime does to the tasks, the lock and the clients,   *)
(* and what follows: the queue at the lock is exact, no client is lost,    *)
(* the registry keeps what Sessions promises and a shutdown winds down.    *)
(***************************************************************************)
EXTENDS RuntimeProofs

-----------------------------------------------------------------------------
(* Each task follows its program, and the lock with it.                    *)

SenderArcs ==
    {<<"idle", "get">>, <<"get", "use">>, <<"get", "start">>, <<"start", "use">>,
     <<"start", "idle">>, <<"use", "mark">>, <<"use", "idle">>, <<"mark", "idle">>}
PollerArcs ==
    {<<"sleep", "begin">>, <<"sleep", "ended">>, <<"begin", "visit">>, <<"next", "visit">>,
     <<"begin", "sleep">>, <<"next", "sleep">>, <<"visit", "get">>, <<"visit", "drop">>,
     <<"visit", "next">>, <<"get", "use">>, <<"get", "start">>, <<"start", "use">>,
     <<"start", "next">>, <<"use", "dirty">>, <<"use", "storm">>, <<"dirty", "next">>,
     <<"storm", "stormed">>, <<"stormed", "next">>, <<"drop", "dropped">>,
     <<"dropped", "next">>, <<"dropped", "dead">>}
MainArcs ==
    {<<"run", "stopping">>, <<"stopping", "stop">>, <<"stop", "stopped">>,
     <<"stopped", "stopping">>, <<"stopped", "raised">>, <<"stopping", "raised">>,
     <<"stopping", "closeAll">>, <<"closeAll", "closingAll">>, <<"closingAll", "raised">>,
     <<"closingAll", "done">>}

\* The arcs taken only before the shutdown.
RunningArcs ==
    {<<"idle", "get">>, <<"sleep", "begin">>, <<"begin", "visit">>, <<"next", "visit">>,
     <<"run", "stopping">>}

OnArc(t, from, to) ==
    /\ t \in Senders => <<from, to>> \in SenderArcs
    /\ t = Poller => <<from, to>> \in PollerArcs
    /\ t = Main => <<from, to>> \in MainArcs
    /\ <<from, to>> \in RunningArcs => Running

\* The lock is taken on the way in, and given back by its holder on the way out.
LockOnArc(t, from, to) ==
    /\ from \notin AtLock /\ to \in AtLock => Acquire(t)
    /\ from \in AtLock /\ to \notin AtLock => Holds(t) /\ Release(t)
    /\ (from \in AtLock <=> to \in AtLock) => UNCHANGED lock

Puts(t, pc) == task'[t].pc = pc /\ \A s \in Tasks \ {t} : task'[s] = task[s]

TaskStep(t) ==
    \E from, to :
      /\ task[t].pc = from /\ Puts(t, to)
      /\ OnArc(t, from, to) /\ LockOnArc(t, from, to)

LEMMA Putting ==
    ASSUME TypeOK, NEW t \in Tasks, NEW pc
    PROVE  /\ Go(t, pc) => Puts(t, pc)
           /\ \A c : GoWith(t, pc, c) => Puts(t, pc)
           /\ \A u : TurnTo(t, pc, u) => Puts(t, pc)
           /\ Rest(t, pc) => Puts(t, pc)
<1>1. task \in [Tasks -> TaskRecord]
    BY TypeSplit DEF TasksTyped
<1>2. task[t] \in TaskRecord
    BY <1>1
<1>3. ASSUME Go(t, pc) PROVE Puts(t, pc)
  <2>1. task' = [task EXCEPT ![t] = [task[t] EXCEPT !.pc = pc]]
      BY <1>1, <1>3 DEF Go
  <2>2. [task[t] EXCEPT !.pc = pc].pc = pc
      BY <1>2 DEF TaskRecord
  <2>. QED
      BY <1>1, <2>1, <2>2 DEF Puts
<1>4. ASSUME NEW c, GoWith(t, pc, c) PROVE Puts(t, pc)
    BY <1>1, <1>4 DEF GoWith, Puts
<1>5. ASSUME NEW u, TurnTo(t, pc, u) PROVE Puts(t, pc)
    BY <1>1, <1>5 DEF TurnTo, Puts
<1>6. ASSUME Rest(t, pc) PROVE Puts(t, pc)
    BY <1>1, <1>6 DEF Rest, Resting, Puts
<1>. QED
    BY <1>3, <1>4, <1>5, <1>6

\* Where a task of each kind can be.
LEMMA PlaceOf ==
    ASSUME TypeOK, NEW t \in Tasks
    PROVE  /\ task[t].pc \in Steps
           /\ t \in Senders => task[t].pc \in SenderSteps /\ t # Poller /\ t # Main
           /\ t = Poller => task[t].pc \in PollerSteps /\ t # Main
           /\ t = Main => task[t].pc \in MainSteps
           /\ t \in Senders \/ t = Poller \/ t = Main
BY TasksAssumption DEF TypeOK, Steps, Tasks
LEMMA GetCachedClientArc ==
    ASSUME TypeOK, NEW t \in Tasks, GetCachedClient(t)
    PROVE  TaskStep(t)
<1>1. task[t].pc = "get" /\ Puts(t, "use")
    BY Putting, NamedTasks DEF GetCachedClient, At
<1>2. OnArc(t, "get", "use")
    BY <1>1, PlaceOf, NamedTasks DEF GetCachedClient, OnArc, SenderArcs, PollerArcs, MainArcs, RunningArcs, PollerSteps, SenderSteps, MainSteps
<1>3. LockOnArc(t, "get", "use")
    BY DEF GetCachedClient, LockOnArc, AtLock, registry
<1>. QED
    BY <1>1, <1>2, <1>3 DEF TaskStep

LEMMA GetClientArc ==
    ASSUME TypeOK, NEW t \in Tasks, GetClient(t)
    PROVE  TaskStep(t)
<1>1. task[t].pc = "get" /\ Puts(t, "start")
    BY Putting, NamedTasks DEF GetClient, At
<1>2. OnArc(t, "get", "start")
    BY <1>1, PlaceOf, NamedTasks DEF GetClient, OnArc, SenderArcs, PollerArcs, MainArcs, RunningArcs, PollerSteps, SenderSteps, MainSteps
<1>3. LockOnArc(t, "get", "start")
    BY DEF GetClient, LockOnArc, AtLock, registry
<1>. QED
    BY <1>1, <1>2, <1>3 DEF TaskStep

LEMMA PollUserArc ==
    ASSUME TypeOK, NEW u \in Users, PollUser(u)
    PROVE  TaskStep(Poller)
<1>1. task[Poller].pc \in {"begin", "next"} /\ Puts(Poller, "visit")
    BY Putting, NamedTasks DEF PollUser, At, BetweenUsers
<1>2. \A from \in {"begin", "next"} : OnArc(Poller, from, "visit")
    BY <1>1, PlaceOf, NamedTasks DEF PollUser, OnArc, SenderArcs, PollerArcs, MainArcs, RunningArcs, PollerSteps, SenderSteps, MainSteps
<1>3. \A from \in {"begin", "next"} : LockOnArc(Poller, from, "visit")
    BY DEF PollUser, LockOnArc, AtLock, registry
<1>. QED
    BY <1>1, <1>2, <1>3 DEF TaskStep

LEMMA EndCycleArc ==
    ASSUME TypeOK, EndCycle
    PROVE  TaskStep(Poller)
<1>1. task[Poller].pc \in {"begin", "next"} /\ Puts(Poller, "sleep")
    BY Putting, NamedTasks DEF EndCycle, At, BetweenUsers
<1>2. \A from \in {"begin", "next"} : OnArc(Poller, from, "sleep")
    BY <1>1, PlaceOf, NamedTasks DEF EndCycle, OnArc, SenderArcs, PollerArcs, MainArcs, RunningArcs, PollerSteps, SenderSteps, MainSteps
<1>3. \A from \in {"begin", "next"} : LockOnArc(Poller, from, "sleep")
    BY DEF EndCycle, LockOnArc, AtLock, registry
<1>. QED
    BY <1>1, <1>2, <1>3 DEF TaskStep

LEMMA ServeUserArc ==
    ASSUME TypeOK, ServeUser
    PROVE  TaskStep(Poller)
<1>1. task[Poller].pc = "visit" /\ Puts(Poller, "get")
    BY Putting, NamedTasks DEF ServeUser, At
<1>2. OnArc(Poller, "visit", "get")
    BY <1>1, PlaceOf, NamedTasks DEF ServeUser, OnArc, SenderArcs, PollerArcs, MainArcs, RunningArcs, PollerSteps, SenderSteps, MainSteps
<1>3. LockOnArc(Poller, "visit", "get")
    BY DEF ServeUser, LockOnArc, AtLock, registry
<1>. QED
    BY <1>1, <1>2, <1>3 DEF TaskStep

LEMMA PollChatsArc ==
    ASSUME TypeOK, PollChats
    PROVE  TaskStep(Poller)
<1>1. task[Poller].pc = "dirty" /\ Puts(Poller, "next")
    BY Putting, NamedTasks DEF PollChats, At
<1>2. OnArc(Poller, "dirty", "next")
    BY <1>1, PlaceOf, NamedTasks DEF PollChats, OnArc, SenderArcs, PollerArcs, MainArcs, RunningArcs, PollerSteps, SenderSteps, MainSteps
<1>3. LockOnArc(Poller, "dirty", "next")
    BY DEF PollChats, LockOnArc, AtLock, registry
<1>. QED
    BY <1>1, <1>2, <1>3 DEF TaskStep

LEMMA DeliverArc ==
    ASSUME TypeOK, NEW t \in Senders, NEW u \in Users, Deliver(t, u)
    PROVE  TaskStep(t)
<1>1. task[t].pc = "idle" /\ Puts(t, "get")
    BY Putting, NamedTasks DEF Deliver, At
<1>2. OnArc(t, "idle", "get")
    BY <1>1, PlaceOf, NamedTasks DEF Deliver, OnArc, SenderArcs, PollerArcs, MainArcs, RunningArcs, PollerSteps, SenderSteps, MainSteps
<1>3. LockOnArc(t, "idle", "get")
    BY DEF Deliver, LockOnArc, AtLock, registry
<1>. QED
    BY <1>1, <1>2, <1>3 DEF TaskStep

LEMMA SendMessageArc ==
    ASSUME TypeOK, NEW t \in Senders, SendMessage(t)
    PROVE  TaskStep(t)
<1>1. task[t].pc = "use" /\ Puts(t, "mark")
    BY Putting, NamedTasks DEF SendMessage, At
<1>2. OnArc(t, "use", "mark")
    BY <1>1, PlaceOf, NamedTasks DEF SendMessage, OnArc, SenderArcs, PollerArcs, MainArcs, RunningArcs, PollerSteps, SenderSteps, MainSteps
<1>3. LockOnArc(t, "use", "mark")
    BY DEF SendMessage, LockOnArc, AtLock, registry
<1>. QED
    BY <1>1, <1>2, <1>3 DEF TaskStep

LEMMA SendRaisesArc ==
    ASSUME TypeOK, NEW t \in Senders, SendRaises(t)
    PROVE  TaskStep(t)
<1>1. task[t].pc = "use" /\ Puts(t, "idle")
    BY Putting, NamedTasks DEF SendRaises, At
<1>2. OnArc(t, "use", "idle")
    BY <1>1, PlaceOf, NamedTasks DEF SendRaises, OnArc, SenderArcs, PollerArcs, MainArcs, RunningArcs, PollerSteps, SenderSteps, MainSteps
<1>3. LockOnArc(t, "use", "idle")
    BY DEF SendRaises, LockOnArc, AtLock, registry
<1>. QED
    BY <1>1, <1>2, <1>3 DEF TaskStep

LEMMA MarkChatDirtyArc ==
    ASSUME TypeOK, NEW t \in Senders, MarkChatDirty(t)
    PROVE  TaskStep(t)
<1>1. task[t].pc = "mark" /\ Puts(t, "idle")
    BY Putting, NamedTasks DEF MarkChatDirty, At
<1>2. OnArc(t, "mark", "idle")
    BY <1>1, PlaceOf, NamedTasks DEF MarkChatDirty, OnArc, SenderArcs, PollerArcs, MainArcs, RunningArcs, PollerSteps, SenderSteps, MainSteps
<1>3. LockOnArc(t, "mark", "idle")
    BY DEF MarkChatDirty, LockOnArc, AtLock, registry
<1>. QED
    BY <1>1, <1>2, <1>3 DEF TaskStep

LEMMA StopArc ==
    ASSUME TypeOK, Stop
    PROVE  TaskStep(Main)
<1>1. task[Main].pc = "run" /\ Puts(Main, "stopping")
    BY Putting, NamedTasks DEF Stop, At
<1>2. OnArc(Main, "run", "stopping")
    BY <1>1, PlaceOf, NamedTasks DEF Stop, At, Running, OnArc, SenderArcs, PollerArcs, MainArcs, RunningArcs, PollerSteps, SenderSteps, MainSteps
<1>3. LockOnArc(Main, "run", "stopping")
    BY DEF Stop, LockOnArc, AtLock, registry
<1>. QED
    BY <1>1, <1>2, <1>3 DEF TaskStep

LEMMA StopRaisesArc ==
    ASSUME TypeOK, StopRaises
    PROVE  TaskStep(Main)
<1>1. task[Main].pc = "stopping" /\ Puts(Main, "raised")
    BY Putting, NamedTasks DEF StopRaises, At
<1>2. OnArc(Main, "stopping", "raised")
    BY <1>1, PlaceOf, NamedTasks DEF StopRaises, OnArc, SenderArcs, PollerArcs, MainArcs, RunningArcs, PollerSteps, SenderSteps, MainSteps
<1>3. LockOnArc(Main, "stopping", "raised")
    BY DEF StopRaises, LockOnArc, AtLock, registry
<1>. QED
    BY <1>1, <1>2, <1>3 DEF TaskStep

LEMMA StopEndsArc ==
    ASSUME TypeOK, StopEnds
    PROVE  TaskStep(Main)
<1>1. task[Main].pc = "stopping" /\ Puts(Main, "closeAll")
    BY Putting, NamedTasks DEF StopEnds, At
<1>2. OnArc(Main, "stopping", "closeAll")
    BY <1>1, PlaceOf, NamedTasks DEF StopEnds, OnArc, SenderArcs, PollerArcs, MainArcs, RunningArcs, PollerSteps, SenderSteps, MainSteps
<1>3. LockOnArc(Main, "stopping", "closeAll")
    BY DEF StopEnds, LockOnArc, AtLock, registry
<1>. QED
    BY <1>1, <1>2, <1>3 DEF TaskStep

LEMMA CloseAllArc ==
    ASSUME TypeOK, CloseAll
    PROVE  TaskStep(Main)
<1>1. task[Main].pc = "closeAll" /\ Puts(Main, "closingAll")
    BY Putting, NamedTasks DEF CloseAll, At
<1>2. OnArc(Main, "closeAll", "closingAll")
    BY <1>1, PlaceOf, NamedTasks DEF CloseAll, OnArc, SenderArcs, PollerArcs, MainArcs, RunningArcs, PollerSteps, SenderSteps, MainSteps
<1>3. LockOnArc(Main, "closeAll", "closingAll")
    BY DEF CloseAll, LockOnArc, AtLock, registry
<1>. QED
    BY <1>1, <1>2, <1>3 DEF TaskStep

LEMMA MainEndsArc ==
    ASSUME TypeOK, MainEnds
    PROVE  TaskStep(Main)
<1>1. task[Main].pc = "closingAll" /\ Puts(Main, "done")
    BY Putting, NamedTasks DEF MainEnds, At
<1>2. OnArc(Main, "closingAll", "done")
    BY <1>1, PlaceOf, NamedTasks DEF MainEnds, OnArc, SenderArcs, PollerArcs, MainArcs, RunningArcs, PollerSteps, SenderSteps, MainSteps
<1>3. LockOnArc(Main, "closingAll", "done")
    BY DEF MainEnds, LockOnArc, AtLock, registry
<1>. QED
    BY <1>1, <1>2, <1>3 DEF TaskStep

LEMMA StartReadyArc ==
    ASSUME TypeOK, Registry, NEW t \in Tasks, StartReady(t)
    PROVE  TaskStep(t)
<1>1. task[t].pc = "start" /\ Puts(t, "use")
    BY Putting DEF StartReady, At
<1>2. OnArc(t, "start", "use")
    BY <1>1, PlaceOf DEF OnArc, SenderArcs, PollerArcs, MainArcs, RunningArcs, PollerSteps, SenderSteps, MainSteps
<1>3. LockOnArc(t, "start", "use")
    BY <1>1 DEF StartReady, LockOnArc, AtLock, Registry, StartOK
<1>. QED
    BY <1>1, <1>2, <1>3 DEF TaskStep

LEMMA StartRaisesArc ==
    ASSUME TypeOK, Registry, NEW t \in Tasks, NEW refused \in BOOLEAN, StartRaises(t, refused)
    PROVE  TaskStep(t)
<1>. DEFINE to == IF t = Poller THEN "next" ELSE "idle"
<1>1. task[t].pc = "start" /\ Puts(t, to)
    BY Putting DEF StartRaises, At
<1>2. OnArc(t, "start", to)
    BY <1>1, PlaceOf DEF OnArc, SenderArcs, PollerArcs, MainArcs, RunningArcs, PollerSteps, SenderSteps, MainSteps
<1>3. LockOnArc(t, "start", to)
    BY <1>1 DEF StartRaises, LockOnArc, AtLock, Registry, StartOK
<1>. QED
    BY <1>1, <1>2, <1>3 DEF TaskStep

LEMMA CloseUserArc ==
    ASSUME TypeOK, NEW t \in Tasks, CloseUser(t)
    PROVE  TaskStep(t)
<1>0. PICK pc \in DOMAIN Closing :
         task[t].pc = pc /\ Holds(t) /\ Release(t) /\ GoWith(t, Closing[pc], cached[task[t].user])
    BY DEF CloseUser, At
<1>1. Puts(t, Closing[pc])
    BY <1>0, Putting
<1>2. pc = "storm" \/ pc = "drop" \/ pc = "stop"
    BY DEF Closing
<1>3. /\ pc = "storm" => Closing[pc] = "stormed"
      /\ pc = "drop" => Closing[pc] = "dropped"
      /\ pc = "stop" => Closing[pc] = "stopped"
    BY DEF Closing
<1>4. OnArc(t, pc, Closing[pc])
    BY <1>0, <1>2, <1>3, PlaceOf DEF OnArc, SenderArcs, PollerArcs, MainArcs, RunningArcs, PollerSteps, SenderSteps, MainSteps
<1>5. LockOnArc(t, pc, Closing[pc])
    BY <1>0, <1>2, <1>3 DEF LockOnArc, AtLock
<1>. QED
    BY <1>0, <1>1, <1>4, <1>5 DEF TaskStep

LEMMA CloseClientArc ==
    ASSUME TypeOK, NEW t \in Tasks, CloseClient(t)
    PROVE  TaskStep(t)
<1>. DEFINE Ends(from, to) == task[t].pc = from /\ Puts(t, to)
<1>1. \/ Ends("stormed", "next") \/ Ends("dropped", "next") \/ Ends("dropped", "dead")
      \/ Ends("stopped", "stopping") \/ Ends("stopped", "raised")
  <2>1. CASE IsClosing(t, "storm") /\ GoWith(t, "next", None)
      BY <2>1, Putting DEF IsClosing, At, Closing
  <2>2. CASE IsClosing(t, "drop") /\ GoWith(t, "next", None)
      BY <2>2, Putting DEF IsClosing, At, Closing
  <2>3. CASE IsClosing(t, "drop") /\ GoWith(t, "dead", None)
      BY <2>3, Putting DEF IsClosing, At, Closing
  <2>4. CASE IsClosing(t, "stop") /\ Rest(t, "stopping")
      BY <2>4, Putting DEF IsClosing, At, Closing
  <2>5. CASE IsClosing(t, "stop") /\ Rest(t, "raised")
      BY <2>5, Putting DEF IsClosing, At, Closing
  <2>. QED
      BY <2>1, <2>2, <2>3, <2>4, <2>5 DEF CloseClient
<1>2. UNCHANGED lock
    BY DEF CloseClient
<1>3. ASSUME NEW from, NEW to, Ends(from, to),
             <<from, to>> \in {<<"stormed", "next">>, <<"dropped", "next">>, <<"dropped", "dead">>,
                              <<"stopped", "stopping">>, <<"stopped", "raised">>}
      PROVE  TaskStep(t)
  <2>1. OnArc(t, from, to)
      BY <1>3, PlaceOf DEF OnArc, SenderArcs, PollerArcs, MainArcs, RunningArcs, PollerSteps, SenderSteps, MainSteps
  <2>2. LockOnArc(t, from, to)
      BY <1>2, <1>3 DEF LockOnArc, AtLock
  <2>. QED
      BY <1>3, <2>1, <2>2 DEF TaskStep
<1>. QED
    BY <1>1, <1>3

LEMMA PollOnceArc ==
    ASSUME TypeOK, PollOnce
    PROVE  TaskStep(Poller)
<1>1. CASE Running /\ Go(Poller, "begin")
  <2>1. task[Poller].pc = "sleep" /\ Puts(Poller, "begin")
      BY <1>1, Putting, NamedTasks DEF PollOnce, At
  <2>2. OnArc(Poller, "sleep", "begin")
      BY <1>1, <2>1, PlaceOf, NamedTasks DEF OnArc, SenderArcs, PollerArcs, MainArcs, RunningArcs, PollerSteps, SenderSteps, MainSteps
  <2>3. LockOnArc(Poller, "sleep", "begin")
      BY <1>1 DEF PollOnce, LockOnArc, AtLock, registry
  <2>. QED
      BY <2>1, <2>2, <2>3 DEF TaskStep
<1>2. CASE Go(Poller, "ended")
  <2>1. task[Poller].pc = "sleep" /\ Puts(Poller, "ended")
      BY <1>2, Putting, NamedTasks DEF PollOnce, At
  <2>2. OnArc(Poller, "sleep", "ended")
      BY <1>2, <2>1, PlaceOf, NamedTasks DEF OnArc, SenderArcs, PollerArcs, MainArcs, RunningArcs, PollerSteps, SenderSteps, MainSteps
  <2>3. LockOnArc(Poller, "sleep", "ended")
      BY <1>2 DEF PollOnce, LockOnArc, AtLock, registry
  <2>. QED
      BY <2>1, <2>2, <2>3 DEF TaskStep
<1>. QED
    BY <1>1, <1>2 DEF PollOnce

LEMMA DropUserArc ==
    ASSUME TypeOK, DropUser
    PROVE  TaskStep(Poller)
<1>1. CASE Acquire(Poller) /\ Go(Poller, "drop")
  <2>1. task[Poller].pc = "visit" /\ Puts(Poller, "drop")
      BY <1>1, Putting, NamedTasks DEF DropUser, At
  <2>2. OnArc(Poller, "visit", "drop")
      BY <1>1, <2>1, PlaceOf, NamedTasks DEF OnArc, SenderArcs, PollerArcs, MainArcs, RunningArcs, PollerSteps, SenderSteps, MainSteps
  <2>3. LockOnArc(Poller, "visit", "drop")
      BY <1>1 DEF DropUser, LockOnArc, AtLock, registry
  <2>. QED
      BY <2>1, <2>2, <2>3 DEF TaskStep
<1>2. CASE UNCHANGED lock /\ GoWith(Poller, "next", None)
  <2>1. task[Poller].pc = "visit" /\ Puts(Poller, "next")
      BY <1>2, Putting, NamedTasks DEF DropUser, At
  <2>2. OnArc(Poller, "visit", "next")
      BY <1>2, <2>1, PlaceOf, NamedTasks DEF OnArc, SenderArcs, PollerArcs, MainArcs, RunningArcs, PollerSteps, SenderSteps, MainSteps
  <2>3. LockOnArc(Poller, "visit", "next")
      BY <1>2 DEF DropUser, LockOnArc, AtLock, registry
  <2>. QED
      BY <2>1, <2>2, <2>3 DEF TaskStep
<1>. QED
    BY <1>1, <1>2 DEF DropUser

LEMMA PollMessagesArc ==
    ASSUME TypeOK, PollMessages
    PROVE  TaskStep(Poller)
<1>1. CASE Go(Poller, "dirty")
  <2>1. task[Poller].pc = "use" /\ Puts(Poller, "dirty")
      BY <1>1, Putting, NamedTasks DEF PollMessages, At
  <2>2. OnArc(Poller, "use", "dirty")
      BY <1>1, <2>1, PlaceOf, NamedTasks DEF OnArc, SenderArcs, PollerArcs, MainArcs, RunningArcs, PollerSteps, SenderSteps, MainSteps
  <2>3. LockOnArc(Poller, "use", "dirty")
      BY <1>1 DEF PollMessages, LockOnArc, AtLock, registry
  <2>. QED
      BY <2>1, <2>2, <2>3 DEF TaskStep
<1>2. CASE Go(Poller, "storm")
  <2>1. task[Poller].pc = "use" /\ Puts(Poller, "storm")
      BY <1>2, Putting, NamedTasks DEF PollMessages, At
  <2>2. OnArc(Poller, "use", "storm")
      BY <1>2, <2>1, PlaceOf, NamedTasks DEF OnArc, SenderArcs, PollerArcs, MainArcs, RunningArcs, PollerSteps, SenderSteps, MainSteps
  <2>3. LockOnArc(Poller, "use", "storm")
      BY <1>2 DEF PollMessages, LockOnArc, AtLock, registry
  <2>. QED
      BY <2>1, <2>2, <2>3 DEF TaskStep
<1>. QED
    BY <1>1, <1>2 DEF PollMessages

LEMMA StopServiceArc ==
    ASSUME TypeOK, NEW u \in Users, StopService(u)
    PROVE  TaskStep(Main) \/ UNCHANGED <<lock, task>>
<1>1. CASE Acquire(Main) /\ TurnTo(Main, "stop", u)
  <2>1. task[Main].pc = "stopping" /\ Puts(Main, "stop")
      BY <1>1, Putting, NamedTasks DEF StopService, At
  <2>2. OnArc(Main, "stopping", "stop")
      BY <1>1, <2>1, PlaceOf, NamedTasks DEF OnArc, SenderArcs, PollerArcs, MainArcs, RunningArcs, PollerSteps, SenderSteps, MainSteps
  <2>3. LockOnArc(Main, "stopping", "stop")
      BY <1>1 DEF StopService, LockOnArc, AtLock, registry
  <2>. QED
      BY <2>1, <2>2, <2>3 DEF TaskStep
<1>2. CASE UNCHANGED <<lock, task>>
    BY <1>2
<1>. QED
    BY <1>1, <1>2 DEF StopService

LEMMA CloseNextArc ==
    ASSUME TypeOK, NEW c \in Clients, CloseNext(c)
    PROVE  TaskStep(Main) \/ UNCHANGED <<lock, task>>
<1>1. CASE Go(Main, "raised")
  <2>1. task[Main].pc = "closingAll" /\ Puts(Main, "raised")
      BY <1>1, Putting, NamedTasks DEF CloseNext, At
  <2>2. OnArc(Main, "closingAll", "raised")
      BY <1>1, <2>1, PlaceOf, NamedTasks DEF OnArc, SenderArcs, PollerArcs, MainArcs, RunningArcs, PollerSteps, SenderSteps, MainSteps
  <2>3. LockOnArc(Main, "closingAll", "raised")
      BY <1>1 DEF CloseNext, LockOnArc, AtLock, registry
  <2>. QED
      BY <2>1, <2>2, <2>3 DEF TaskStep
<1>2. CASE UNCHANGED task
    BY <1>2 DEF CloseNext
<1>. QED
    BY <1>1, <1>2 DEF CloseNext

\* A step of the system is a step of one task along its program, or of none.
LEMMA StepIsTaskStep ==
    ASSUME TypeOK, Registry, [Next]_vars
    PROVE  UNCHANGED <<lock, task>> \/ \E t \in Tasks : TaskStep(t)
<1>. DEFINE Goal == UNCHANGED <<lock, task>> \/ \E t \in Tasks : TaskStep(t)
<1>t. Poller \in Tasks /\ Main \in Tasks /\ Senders \subseteq Tasks
    BY NamedTasks
<1>1. ASSUME NEW t \in Tasks, Local(t) PROVE Goal
    BY <1>1, GetCachedClientArc, GetClientArc, CloseUserArc, CloseClientArc DEF Local
<1>2. CASE LocalPoller
  <2>1. ASSUME NEW u \in Users, PollUser(u) PROVE Goal
      BY <1>t, <2>1, PollUserArc
  <2>. QED
      BY <1>t, <1>1, <1>2, <2>1, Worklists, PollOnceArc, EndCycleArc, PollChatsArc DEF LocalPoller
<1>3. CASE LocalMain
  <2>1. ASSUME NEW u \in Users, StopService(u) PROVE Goal
      BY <1>t, <2>1, StopServiceArc
  <2>2. ASSUME NEW c \in Clients, CloseNext(c) PROVE Goal
      BY <1>t, <2>2, CloseNextArc
  <2>. QED
      BY <1>t, <1>1, <1>3, <2>1, <2>2, Worklists, StopRaisesArc, StopEndsArc, CloseAllArc,
         MainEndsArc
      DEF LocalMain
<1>4. ASSUME NEW t \in Senders, Local(t) \/ MarkChatDirty(t) PROVE Goal
    BY <1>t, <1>1, <1>4, MarkChatDirtyArc
<1>5. CASE HeartbeatAges
    BY <1>5 DEF HeartbeatAges, registry
<1>6. CASE Environment
  <2>1. ASSUME NEW t \in Tasks, Waiting(t) PROVE Goal
      BY <2>1, StartReadyArc, StartRaisesArc DEF Waiting
  <2>2. ASSUME NEW t \in Senders, SendMessage(t) \/ SendRaises(t) PROVE Goal
      BY <1>t, <2>2, SendMessageArc, SendRaisesArc
  <2>3. ASSUME NEW t \in Senders, NEW u \in Users, Deliver(t, u) PROVE Goal
      BY <1>t, <2>3, DeliverArc
  <2>4. ASSUME NEW u \in Users, BindingChanges(u) PROVE Goal
      BY <2>4 DEF BindingChanges, registry
  <2>. QED
      BY <1>t, <1>6, <2>1, <2>2, <2>3, <2>4, ServeUserArc, DropUserArc, PollMessagesArc, StopArc
      DEF Environment
<1>7. CASE UNCHANGED vars
    BY <1>7 DEF vars, registry
<1>. QED
    BY <1>2, <1>3, <1>4, <1>5, <1>6, <1>7 DEF Next

-----------------------------------------------------------------------------
(* The queue at the lock.                                                  *)

InQueue(q, t) == \E i \in DOMAIN q : q[i] = t
Once(q)       == \A i, j \in DOMAIN q : q[i] = q[j] => i = j

LEMMA AppendToQueue ==
    ASSUME NEW q \in Seq(Tasks), NEW t \in Tasks, Once(q), ~InQueue(q, t)
    PROVE  /\ Once(Append(q, t))
           /\ \A s \in Tasks : InQueue(Append(q, t), s) <=> InQueue(q, s) \/ s = t
<1>. DEFINE r == Append(q, t)
            n == Len(q)
<1>1. /\ n \in Nat /\ DOMAIN q = 1..n /\ DOMAIN r = 1..(n + 1)
      /\ r[n + 1] = t /\ \A i \in 1..n : r[i] = q[i]
    OBVIOUS
<1>2. Once(r)
    BY <1>1 DEF Once, InQueue
<1>3. ASSUME NEW s \in Tasks PROVE InQueue(r, s) <=> InQueue(q, s) \/ s = t
    BY <1>1 DEF InQueue
<1>. QED
    BY <1>2, <1>3

LEMMA TailOfQueue ==
    ASSUME NEW q \in Seq(Tasks), q # <<>>, Once(q)
    PROVE  /\ Once(Tail(q))
           /\ \A s \in Tasks : InQueue(Tail(q), s) <=> InQueue(q, s) /\ s # Head(q)
<1>. DEFINE r == Tail(q)
            n == Len(q)
<1>1. /\ n \in Nat /\ n > 0 /\ DOMAIN q = 1..n /\ DOMAIN r = 1..(n - 1)
      /\ Head(q) = q[1] /\ \A i \in 1..(n - 1) : r[i] = q[i + 1]
    OBVIOUS
<1>2. Once(r)
    BY <1>1 DEF Once
<1>3. ASSUME NEW s \in Tasks PROVE InQueue(r, s) <=> InQueue(q, s) /\ s # Head(q)
  <2>1. ASSUME NEW i \in 1..n, q[i] = s, s # q[1] PROVE i - 1 \in 1..(n - 1) /\ r[i - 1] = s
      BY <1>1, <2>1
  <2>2. ASSUME NEW i \in 1..(n - 1), r[i] = s PROVE i + 1 \in 1..n /\ q[i + 1] = s /\ s # q[1]
      BY <1>1, <2>2 DEF Once
  <2>. QED
      BY <1>1, <2>1, <2>2 DEF InQueue
<1>. QED
    BY <1>2, <1>3

LEMMA QueueIs == QueueIsExact <=> /\ \A t \in Tasks : task[t].pc \in AtLock <=> InQueue(lock, t)
                                  /\ Once(lock)
BY DEF QueueIsExact, InQueue, Once

LEMMA QueueWillBe ==
    QueueIsExact' <=> /\ \A t \in Tasks : task'[t].pc \in AtLock <=> InQueue(lock', t)
                      /\ Once(lock')
BY DEF QueueIsExact, InQueue, Once

LEMMA QueueTurns ==
    ASSUME TypeOK, QueueIsExact, NEW t \in Tasks, TaskStep(t)
    PROVE  QueueIsExact'
<1>0. PICK from, to : /\ task[t].pc = from /\ Puts(t, to) /\ LockOnArc(t, from, to)
    BY DEF TaskStep
<1>1. task'[t].pc = to /\ \A s \in Tasks \ {t} : task'[s] = task[s]
    BY <1>0 DEF Puts
<1>2. /\ lock \in Seq(Tasks) /\ Once(lock)
      /\ \A s \in Tasks : task[s].pc \in AtLock <=> InQueue(lock, s)
    BY QueueIs DEF TypeOK
<1>3. CASE from \notin AtLock /\ to \in AtLock
  <2>1. lock' = Append(lock, t) /\ ~InQueue(lock, t)
      BY <1>0, <1>2, <1>3 DEF LockOnArc, Acquire
  <2>2. /\ Once(lock')
        /\ \A s \in Tasks : InQueue(lock', s) <=> InQueue(lock, s) \/ s = t
      BY <1>2, <2>1, AppendToQueue
  <2>. QED
      BY <1>1, <1>2, <1>3, <2>2, QueueWillBe
<1>4. CASE from \in AtLock /\ to \notin AtLock
  <2>1. lock # <<>> /\ Head(lock) = t /\ lock' = Tail(lock)
      BY <1>0, <1>4 DEF LockOnArc, Holds, Release
  <2>2. /\ Once(lock')
        /\ \A s \in Tasks : InQueue(lock', s) <=> InQueue(lock, s) /\ s # t
      BY <1>2, <2>1, TailOfQueue
  <2>. QED
      BY <1>1, <1>2, <1>4, <2>2, QueueWillBe
<1>5. CASE from \in AtLock <=> to \in AtLock
  <2>1. lock' = lock
      BY <1>0, <1>5 DEF LockOnArc
  <2>. QED
      BY <1>0, <1>1, <1>2, <1>5, <2>1, QueueWillBe
<1>. QED
    BY <1>3, <1>4, <1>5

\* No way out of the registry, by return or by error, keeps the lock or leaves a waiter
\* behind (get_client, close_user, close_all).
THEOREM QueueExact == Spec => []QueueIsExact
<1>1. Init => QueueIsExact
  <2>. SUFFICES ASSUME Init PROVE QueueIsExact
      OBVIOUS
  <2>1. \A t \in Tasks : task[t].pc \notin AtLock
      BY DEF Init, Resting, AtLock
  <2>2. DOMAIN lock = {}
      BY DEF Init
  <2>. QED
      BY <2>1, <2>2 DEF QueueIsExact
<1>2. TypeOK /\ Registry /\ QueueIsExact /\ [Next]_vars => QueueIsExact'
  <2>. SUFFICES ASSUME TypeOK, Registry, QueueIsExact, [Next]_vars PROVE QueueIsExact'
      OBVIOUS
  <2>1. CASE UNCHANGED <<lock, task>>
      BY <2>1 DEF QueueIsExact
  <2>. QED
      BY <2>1, StepIsTaskStep, QueueTurns
<1>. QED
    BY <1>1, <1>2, RegistryInductive, PTL DEF Spec

-----------------------------------------------------------------------------
(* The clients.                                                            *)

\* The steps that start, open or close a client.
ClientStep(t) ==
    \/ GetClient(t) \/ StartReady(t) \/ CloseUser(t) \/ CloseClient(t)
    \/ \E refused \in BOOLEAN : StartRaises(t, refused)

LEMMA ClientStepOrQuiet ==
    ASSUME TypeOK, [Next]_vars
    PROVE  \/ Still \/ CloseAll \/ \E t \in Tasks : Quiet(t) \/ ClientStep(t)
           \/ \E c \in Clients : CloseNext(c)
<1>. DEFINE Goal == \/ Still \/ CloseAll \/ \E t \in Tasks : Quiet(t) \/ ClientStep(t)
                    \/ \E c \in Clients : CloseNext(c)
<1>t. Poller \in Tasks /\ Main \in Tasks /\ Senders \subseteq Tasks
    BY NamedTasks
<1>1. ASSUME NEW t \in Tasks, Local(t) PROVE Goal
    BY <1>1, GetCachedClientQuiet DEF Local, ClientStep
<1>2. CASE LocalPoller
  <2>1. ASSUME NEW u \in Users, PollUser(u) PROVE Goal
      BY <1>t, <2>1, PollUserQuiet
  <2>. QED
      BY <1>t, <1>1, <1>2, <2>1, Worklists, PollOnceQuiet, EndCycleQuiet, PollChatsQuiet
      DEF LocalPoller
<1>3. CASE LocalMain
  <2>1. ASSUME NEW u \in Users, StopService(u) PROVE Goal
      BY <1>t, <2>1, StopServiceStep
  <2>. QED
      BY <1>t, <1>1, <1>3, <2>1, Worklists, StopRaisesQuiet, StopEndsQuiet, MainEndsQuiet
      DEF LocalMain
<1>4. ASSUME NEW t \in Senders, Local(t) \/ MarkChatDirty(t) PROVE Goal
    BY <1>t, <1>1, <1>4, MarkChatDirtyQuiet
<1>5. CASE HeartbeatAges
    BY <1>5, HeartbeatAgesStill
<1>6. CASE Environment
  <2>1. ASSUME NEW t \in Tasks, Waiting(t) PROVE Goal
      BY <2>1 DEF Waiting, ClientStep
  <2>2. ASSUME NEW t \in Senders, SendMessage(t) \/ SendRaises(t) PROVE Goal
      BY <1>t, <2>2, SendMessageQuiet, SendRaisesQuiet
  <2>3. ASSUME NEW t \in Senders, NEW u \in Users, Deliver(t, u) PROVE Goal
      BY <1>t, <2>3, DeliverQuiet
  <2>4. ASSUME NEW u \in Users, BindingChanges(u) PROVE Goal
      BY <2>4, BindingChangesStill
  <2>. QED
      BY <1>t, <1>6, <2>1, <2>2, <2>3, <2>4, ServeUserQuiet, DropUserQuiet, PollMessagesQuiet,
         StopQuiet
      DEF Environment
<1>7. CASE UNCHANGED vars
    BY <1>7 DEF vars, registry, shutdown, Still
<1>. QED
    BY <1>2, <1>3, <1>4, <1>5, <1>6, <1>7 DEF Next

\* Inductive: whatever is being closed is closed by somebody.
Closer(c)  == c \in ending \/ \E t \in Tasks : task[t].pc \in ClosingSteps /\ task[t].client = c
CloserOK   == \A c \in Clients : state[c] = "closing" => Closer(c)

LEMMA CloserKept ==
    ASSUME CloserOK, NEW t \in Tasks, task[t].pc \notin ClosingSteps, ending \subseteq ending',
           \A s \in Tasks \ {t} : task'[s] = task[s],
           \A c \in Clients : state'[c] = "closing" => state[c] = "closing" \/ c \in ending'
    PROVE  CloserOK'
BY DEF CloserOK, Closer

\* Inductive: close_all()'s list is empty until close_all() fills it, once.
EndingOK == task[Main].pc \notin {"closingAll", "raised", "done"} => ending = {}

LEMMA EndingStep ==
    ASSUME TypeOK, Registry, EndingOK, [Next]_vars
    PROVE  EndingOK'
<1>1. task[Main].pc \in {"closingAll", "raised", "done"} =>
        task'[Main].pc \in {"closingAll", "raised", "done"}
  <2>1. ASSUME NEW t \in Tasks, TaskStep(t), task[Main].pc \in {"closingAll", "raised", "done"}
        PROVE  task'[Main].pc \in {"closingAll", "raised", "done"}
      BY <2>1, NamedTasks DEF TaskStep, Puts, OnArc, MainArcs
  <2>. QED
      BY <2>1, StepIsTaskStep
<1>2. CASE Still
    BY <1>1, <1>2 DEF Still, EndingOK
<1>3. ASSUME NEW t \in Tasks, Quiet(t) \/ ClientStep(t) PROVE EndingOK'
  <2>1. ending' = ending
      BY <1>3 DEF Quiet, ClientStep, GetClient, StartReady, StartRaises, CloseUser, CloseClient,
                  shutdown
  <2>. QED
      BY <1>1, <2>1 DEF EndingOK
<1>4. CASE CloseAll
    BY <1>4, CloseAllArc, Putting, NamedTasks DEF CloseAll, EndingOK, Puts
<1>5. ASSUME NEW c \in Clients, CloseNext(c) PROVE EndingOK'
    BY <1>1, <1>5 DEF CloseNext, At, EndingOK
<1>. QED
    BY <1>2, <1>3, <1>4, <1>5, ClientStepOrQuiet

LEMMA CloserStep ==
    ASSUME TypeOK, Registry, EndingOK, CloserOK, [Next]_vars
    PROVE  CloserOK'
<1>1. CASE Still
    BY <1>1 DEF Still, CloserOK, Closer
<1>2. ASSUME NEW t \in Tasks, Quiet(t) PROVE CloserOK'
    BY <1>2, CloserKept DEF Quiet
<1>3. ASSUME NEW t \in Tasks, ClientStep(t) PROVE CloserOK'
  <2>t. RestTyped /\ task[t].client \in MaybeClient /\ cached[task[t].user] \in MaybeClient
      BY TypedTask
  <2>1. CASE GetClient(t)
    <3>1. PICK n \in 1..MaxClients :
             state' = [state EXCEPT ![<<task[t].user, n>>] = "starting"]
             /\ GoWith(t, "start", <<task[t].user, n>>)
        BY <2>1 DEF GetClient
    <3>2. \A c \in Clients : state'[c] = "closing" => state[c] = "closing"
        BY <2>t, <3>1 DEF RestTyped
    <3>3. task[t].pc = "get" /\ Puts(t, "start") /\ ending' = ending
        BY <2>1, <3>1, Putting DEF GetClient, At, shutdown
    <3>. QED
        BY <3>2, <3>3, CloserKept DEF Puts, ClosingSteps
  <2>2. CASE StartReady(t)
    <3>1. task[t].pc = "start" /\ Puts(t, "use") /\ ending' = ending
        BY <2>2, Putting DEF StartReady, At, shutdown
    <3>2. \A c \in Clients : state'[c] = "closing" => state[c] = "closing"
        BY <2>t, <2>2 DEF StartReady, RestTyped
    <3>. QED
        BY <3>1, <3>2, CloserKept DEF Puts, ClosingSteps
  <2>3. ASSUME NEW refused \in BOOLEAN, StartRaises(t, refused) PROVE CloserOK'
    <3>1. task[t].pc = "start" /\ (Puts(t, "next") \/ Puts(t, "idle")) /\ ending' = ending
        BY <2>3, Putting DEF StartRaises, At, shutdown
    <3>2. \A c \in Clients : state'[c] = "closing" => state[c] = "closing"
        BY <2>t, <2>3 DEF StartRaises, RestTyped
    <3>. QED
        BY <3>1, <3>2, CloserKept DEF Puts, ClosingSteps
  <2>4. CASE CloseUser(t)
    <3>1. PICK pc \in DOMAIN Closing :
            /\ task[t].pc = pc /\ GoWith(t, Closing[pc], cached[task[t].user])
            /\ state' = IF cached[task[t].user] = None THEN state
                        ELSE [state EXCEPT ![cached[task[t].user]] = "closing"]
            /\ ending' = ending
        BY <2>4 DEF CloseUser, At, shutdown
    <3>2. pc \notin ClosingSteps /\ Closing[pc] \in ClosingSteps
        BY DEF Closing, ClosingSteps
    <3>3. Puts(t, Closing[pc])
        BY <3>1, Putting
    <3>4. task'[t].client = cached[task[t].user]
        BY <3>1 DEF GoWith, TypeOK
    <3>5. \A c \in Clients : state'[c] = "closing" =>
            state[c] = "closing" \/ c = cached[task[t].user]
        BY <2>t, <3>1 DEF RestTyped, MaybeClient
    <3>. QED
        BY <3>1, <3>2, <3>3, <3>4, <3>5 DEF Puts, CloserOK, Closer
  <2>5. CASE CloseClient(t)
    <3>1. \A s \in Tasks \ {t} : task'[s] = task[s]
        BY <2>5, CloseClientArc DEF TaskStep, Puts
    <3>2. \A c \in Clients : state'[c] = "closing" => state[c] = "closing" /\ c # task[t].client
        BY <2>t, <2>5, NoneIsNoClient DEF CloseClient, RestTyped, MaybeClient
    <3>3. ending' = ending
        BY <2>5 DEF CloseClient, shutdown
    <3>. QED
        BY <3>1, <3>2, <3>3 DEF CloserOK, Closer
  <2>. QED
      BY <1>3, <2>1, <2>2, <2>3, <2>4, <2>5 DEF ClientStep
<1>4. CASE CloseAll
  <2>1. task[Main].pc = "closeAll" /\ Puts(Main, "closingAll")
      BY <1>4, Putting, NamedTasks DEF CloseAll, At
  <2>2. \A c \in Clients : state'[c] = "closing" => state[c] = "closing" \/ c \in ending'
      BY <1>4 DEF CloseAll
  <2>3. ending = {}
      BY <2>1 DEF EndingOK
  <2>. QED
      BY <2>1, <2>2, <2>3, NamedTasks, CloserKept DEF Puts, ClosingSteps
<1>5. ASSUME NEW c \in Clients, CloseNext(c) PROVE CloserOK'
  <2>1. /\ task[Main].pc = "closingAll" /\ ending' = ending \ {c}
        /\ state' = [state EXCEPT ![c] = "closed"] /\ (Puts(Main, "raised") \/ UNCHANGED task)
      BY <1>5, Putting, NamedTasks DEF CloseNext, At
  <2>2. \A d \in Clients : state'[d] = "closing" => state[d] = "closing" /\ d # c
      BY <2>1 DEF TypeOK
  <2>. QED
      BY <2>1, <2>2 DEF Puts, CloserOK, Closer, ClosingSteps
<1>. QED
    BY <1>1, <1>2, <1>3, <1>4, <1>5, ClientStepOrQuiet

LEMMA OwnedIs == TypeOK /\ Registry /\ CloserOK => NoClientIsLost
<1>. SUFFICES ASSUME TypeOK, Registry, CloserOK, NEW c \in Clients, state[c] # "closed"
              PROVE  Owned(c)
    BY DEF NoClientIsLost
<1>1. state[c] \in {"starting", "open", "closing"}
    BY DEF TypeOK
<1>2. CASE state[c] = "starting"
    BY <1>2 DEF Registry, StartOK, Owned
<1>3. CASE state[c] = "open"
    BY <1>3 DEF Registry, CacheIsExact, Owned
<1>4. CASE state[c] = "closing"
    BY <1>4 DEF CloserOK, Closer, Owned
<1>. QED
    BY <1>1, <1>2, <1>3, <1>4

\* No client runs on that nobody will close: get_client, close_user and close_all hand
\* each of them on, in the middle of a shutdown too.
THEOREM NoneIsLost == Spec => []NoClientIsLost
<1>1. Init => EndingOK /\ CloserOK
    BY DEF Init, EndingOK, CloserOK
<1>2. TypeOK /\ Registry /\ EndingOK /\ CloserOK /\ [Next]_vars => (EndingOK /\ CloserOK)'
    BY EndingStep, CloserStep
<1>. QED
    BY <1>1, <1>2, OwnedIs, RegistryInductive, PTL DEF Spec

-----------------------------------------------------------------------------
(* The sessions.                                                           *)

InState(x) == {c \in Clients : state[c] = x}
SessionStep == [Promise!Next]_(Promise!sessions)

LEMMA SessionsStep ==
    ASSUME TypeOK, Registry, [Next]_vars
    PROVE  SessionStep
<1>t. /\ cached \in [Users -> MaybeClient]
      /\ state \in [Clients -> {"closed", "starting", "open", "closing"}]
      /\ \A c \in Clients : c # None /\ c[1] \in Users
    BY TypeSplit, NoneIsNoClient, ClientHasUser DEF RestTyped
<1>1. ASSUME UNCHANGED <<cached, state>> PROVE SessionStep
    BY <1>1 DEF SessionStep, Promise!sessions
<1>2. CASE Still
    BY <1>1, <1>2 DEF Still
<1>3. ASSUME NEW t \in Tasks, Quiet(t) PROVE SessionStep
    BY <1>1, <1>3 DEF Quiet
<1>4. ASSUME NEW t \in Tasks, ClientStep(t) PROVE SessionStep
  <2>. DEFINE u == task[t].user
              c == task[t].client
  <2>t. u \in Users /\ c \in MaybeClient /\ cached[u] \in MaybeClient
      BY TypedTask
  <2>1. CASE GetClient(t)
    <3>1. PICK n \in 1..MaxClients :
            /\ Holds(t) /\ cached[u] = None /\ IsFresh(<<u, n>>) /\ task[t].pc = "get"
            /\ state' = [state EXCEPT ![<<u, n>>] = "starting"] /\ cached' = cached
        BY <2>1 DEF GetClient, NewClient, At
    <3>2. PICK d \in Clients : d = <<u, n>> /\ d[1] = u /\ state[d] = "closed"
        BY <2>t, <3>1, UserHasClient DEF IsFresh
    <3>3. InState("starting") = {}
        BY <3>1, StartAlone DEF InState, Registry, StartOK
    <3>4. InState("starting")' = {d} /\ InState("closing")' = InState("closing")
        BY <1>t, <3>1, <3>2, <3>3 DEF InState
    <3>5. Promise!Start(d)
        BY <3>1, <3>2, <3>3, <3>4 DEF Promise!Start, InState
    <3>. QED
        BY <3>5 DEF SessionStep, Promise!Next
  <2>2. ASSUME task[t].pc = "start"
        PROVE  c \in Clients /\ c[1] = u /\ InState("starting") = {c} /\ state[c] = "starting"
    <3>1. c \in Clients /\ c[1] = u /\ state[c] = "starting" /\ Holds(t)
        BY <2>2 DEF Registry, StartOK
    <3>2. ASSUME NEW d \in Clients, state[d] = "starting" PROVE d = c
        BY <3>1, <3>2, StartAlone DEF Registry, StartOK
    <3>. QED
        BY <3>1, <3>2 DEF InState
  <2>3. CASE StartReady(t)
    <3>1. /\ task[t].pc = "start" /\ state' = [state EXCEPT ![c] = "open"]
          /\ cached' = [cached EXCEPT ![u] = c]
        BY <2>3 DEF StartReady, At
    <3>2. InState("starting")' = {} /\ InState("closing")' = InState("closing")
        BY <1>t, <2>2, <3>1 DEF InState
    <3>3. Promise!Open
        BY <2>2, <3>1, <3>2 DEF Promise!Open, InState
    <3>. QED
        BY <3>3 DEF SessionStep, Promise!Next
  <2>4. ASSUME NEW refused \in BOOLEAN, StartRaises(t, refused) PROVE SessionStep
    <3>1. task[t].pc = "start" /\ state' = [state EXCEPT ![c] = "closed"] /\ cached' = cached
        BY <2>4 DEF StartRaises, At
    <3>2. InState("starting")' = {} /\ InState("closing")' = InState("closing")
        BY <1>t, <2>2, <3>1 DEF InState
    <3>3. Promise!Fail
        BY <3>1, <3>2 DEF Promise!Fail, InState
    <3>. QED
        BY <3>3 DEF SessionStep, Promise!Next
  <2>5. CASE CloseUser(t)
    <3>1. /\ cached' = [cached EXCEPT ![u] = None]
          /\ state' = IF cached[u] = None THEN state
                      ELSE [state EXCEPT ![cached[u]] = "closing"]
        BY <2>5 DEF CloseUser
    <3>2. cached[u] # None => cached[u] \in Clients /\ state[cached[u]] = "open"
        BY <2>t DEF MaybeClient, Registry, CacheIsExact
    <3>3. /\ InState("closing")' = InState("closing") \cup ({cached[u]} \ {None})
          /\ InState("starting")' = InState("starting")
        BY <1>t, <3>1, <3>2 DEF InState
    <3>4. PICK w \in Users : w = u
        BY <2>t
    <3>5. /\ {cached[v] : v \in {w}} = {cached[u]}
          /\ cached' = [v \in Users |-> IF v \in {w} THEN None ELSE cached[v]]
        BY <1>t, <3>1, <3>4
    <3>6. Promise!Close({w})
        BY <3>3, <3>5 DEF Promise!Close, InState
    <3>. QED
        BY <3>6 DEF SessionStep, Promise!Next
  <2>6. CASE CloseClient(t)
    <3>1. /\ cached' = cached /\ task[t].pc \in ClosingSteps
          /\ state' = IF c = None THEN state ELSE [state EXCEPT ![c] = "closed"]
        BY <2>6 DEF CloseClient, IsClosing, At, Closing, ClosingSteps
    <3>2. CASE c = None
        BY <1>1, <3>1, <3>2
    <3>3. CASE c # None
      <4>1. PICK d \in Clients : d = c /\ state[d] \in {"closing", "closed"}
          BY <2>t, <3>1, <3>3 DEF MaybeClient, Registry, ClosingOK
      <4>2. /\ InState("closing")' = InState("closing") \ {d}
            /\ InState("starting")' = InState("starting")
          BY <1>t, <3>1, <3>3, <4>1 DEF InState
      <4>3. Promise!Closed(d)
          BY <3>1, <4>2 DEF Promise!Closed, InState
      <4>. QED
          BY <4>3 DEF SessionStep, Promise!Next
    <3>. QED
        BY <3>2, <3>3
  <2>. QED
      BY <1>4, <2>1, <2>3, <2>4, <2>5, <2>6 DEF ClientStep
<1>5. CASE CloseAll
  <2>1. /\ cached' = [u \in Users |-> None] /\ ending' = {cached[u] : u \in Users} \ {None}
        /\ state' = [c \in Clients |-> IF c \in ending' THEN "closing" ELSE state[c]]
      BY <1>5 DEF CloseAll
  <2>2. \A c \in ending' : c \in Clients /\ state[c] = "open"
      BY <1>t, <2>1 DEF MaybeClient, Registry, CacheIsExact
  <2>3. /\ InState("closing")' = InState("closing") \cup ending'
        /\ InState("starting")' = InState("starting")
      BY <1>t, <2>1, <2>2 DEF InState
  <2>4. Promise!Close(Users)
      BY <2>1, <2>3 DEF Promise!Close, InState
  <2>. QED
      BY <2>4 DEF SessionStep, Promise!Next
<1>6. ASSUME NEW c \in Clients, CloseNext(c) PROVE SessionStep
  <2>1. state' = [state EXCEPT ![c] = "closed"] /\ cached' = cached /\ state[c] = "closing"
      BY <1>6 DEF CloseNext, Registry, ClosingOK
  <2>2. /\ InState("closing")' = InState("closing") \ {c}
        /\ InState("starting")' = InState("starting")
      BY <1>t, <2>1 DEF InState
  <2>3. Promise!Closed(c)
      BY <2>1, <2>2 DEF Promise!Closed, InState
  <2>. QED
      BY <2>3 DEF SessionStep, Promise!Next
<1>. QED
    BY <1>2, <1>3, <1>4, <1>5, <1>6, ClientStepOrQuiet

\* The registry implements Sessions: one start at a time, one session per user, and a
\* client leaves the registry before it is closed (get_client, close_user, close_all).
THEOREM KeepsTheSessions == Spec => KeepsSessions
<1>1. Init => Promise!Init
    BY DEF Init, Promise!Init
<1>2. TypeOK /\ Registry /\ [Next]_vars => [Promise!Next]_(Promise!sessions)
    BY SessionsStep DEF SessionStep
<1>. QED
    BY <1>1, <1>2, RegistryInductive, PTL DEF Spec, KeepsSessions, Promise!Spec

-----------------------------------------------------------------------------
(* The shutdown.                                                           *)

LEMMA Counted ==
    ASSUME TypeOK
    PROVE  /\ IsFiniteSet(left) /\ IsFiniteSet(ending) /\ Cardinality(Users) \in Nat
           /\ Cardinality(left) \in Nat /\ Cardinality(ending) \in Nat
<1>1. IsFiniteSet(left)
    BY UsersAssumption, FS_Subset DEF TypeOK
<1>2. IsFiniteSet(Clients)
  <2>1. IsFiniteSet(1..MaxClients)
      BY BoundsAssumption, FS_Interval
  <2>. QED
      BY <2>1, UsersAssumption, FS_Product DEF Clients
<1>3. IsFiniteSet(ending)
    BY <1>2, FS_Subset DEF TypeOK
<1>. QED
    BY <1>1, <1>3, UsersAssumption, FS_CardinalityType

\* close_all() copies one client per user at most.
LEMMA CopiedFew ==
    LET copies == {cached[u] : u \in Users} \ {None}
    IN  Cardinality(copies) \in Nat /\ Cardinality(copies) <= Cardinality(Users)
<1>. DEFINE copied == {cached[u] : u \in Users}
            copy   == [u \in Users |-> cached[u]]
<1>1. copy \in Surjection(Users, copied)
    BY DEF Surjection
<1>2. IsFiniteSet(copied) /\ Cardinality(copied) <= Cardinality(Users)
    BY <1>1, UsersAssumption, FS_Surjection
<1>3. /\ Cardinality(copied \ {None}) <= Cardinality(copied)
      /\ IsFiniteSet(copied \ {None})
    BY <1>2, FS_Subset
<1>. QED
    BY <1>2, <1>3, UsersAssumption, FS_CardinalityType

\* What StepsLeft is at each place, before and after a step.
LEMMA MainLeft ==
    LET more == 3 * Cardinality(left) + Cardinality(Users) + 3
        n    == StepsLeft(Main)
        pc   == task[Main].pc
    IN  /\ pc \in {"done", "raised"} => n = 0
        /\ pc = "closingAll" => n = Cardinality(ending) + 1
        /\ pc = "closeAll" => n = Cardinality(Users) + 2
        /\ pc = "stopping" => n = more
        /\ pc = "stopped" => n = more + 1
        /\ pc = "stop" => n = more + 2
BY TasksAssumption DEF StepsLeft

LEMMA MainWillHave ==
    LET more == 3 * Cardinality(left') + Cardinality(Users) + 3
        n    == StepsLeft(Main)'
        pc   == task'[Main].pc
    IN  /\ pc \in {"done", "raised"} => n = 0
        /\ pc = "closingAll" => n = Cardinality(ending') + 1
        /\ pc = "closeAll" => n = Cardinality(Users) + 2
        /\ pc = "stopping" => n = more
        /\ pc = "stopped" => n = more + 1
        /\ pc = "stop" => n = more + 2
BY TasksAssumption DEF StepsLeft

LEMMA OthersKeep ==
    ASSUME NEW s \in Tasks, task'[s] = task[s], s # Main \/ UNCHANGED <<left, ending>>
    PROVE  StepsLeft(s)' = StepsLeft(s)
<1>1. CASE s \in Senders
    BY <1>1 DEF StepsLeft
<1>2. CASE s \notin Senders /\ s = Poller
    BY <1>2 DEF StepsLeft
<1>3. CASE s \notin Senders /\ s # Poller
  <2>1. left' = left /\ ending' = ending
      BY <1>3 DEF Tasks
  <2>. QED
      BY <1>3, <2>1 DEF StepsLeft
<1>. QED
    BY <1>1, <1>2, <1>3

\* A handler or the poller goes on along its program, and has less of it before it.
LEMMA OthersWind ==
    ASSUME TypeOK, ~Running, NEW t \in Tasks, t # Main, TaskStep(t), UNCHANGED <<left, ending>>
    PROVE  OneStepLess
<1>0. PICK from, to : task[t].pc = from /\ Puts(t, to) /\ OnArc(t, from, to)
    BY DEF TaskStep
<1>1. CASE t \in Senders
  <2>1. <<from, to>> \in SenderArcs \ RunningArcs
      BY <1>0, <1>1 DEF OnArc
  <2>. DEFINE n == [idle |-> 0, mark |-> 1, use |-> 2, start |-> 3, get |-> 4]
  <2>2. StepsLeft(t) = n[from] /\ StepsLeft(t)' = n[to]
      BY <1>0, <1>1, PlaceOf DEF StepsLeft, Puts
  <2>3. n[to] < n[from]
      BY <2>1 DEF SenderArcs, RunningArcs
  <2>. QED
      BY <1>0, <2>2, <2>3, OthersKeep DEF OneStepLess, Puts
<1>2. CASE t = Poller /\ t \notin Senders
  <2>1. <<from, to>> \in PollerArcs \ RunningArcs
      BY <1>0, <1>2 DEF OnArc
  <2>2. StepsLeft(t)' < StepsLeft(t)
      BY <1>0, <1>2, <2>1 DEF StepsLeft, Puts, PollerArcs, RunningArcs
  <2>. QED
      BY <1>0, <2>2, OthersKeep DEF OneStepLess, Puts
<1>. QED
    BY <1>1, <1>2 DEF Tasks

\* main() has less to stop and to close after each of its steps.
LEMMA MainWinds ==
    ASSUME TypeOK, ~Running, LocalMain
    PROVE  OneStepLess
<1>. DEFINE L == Cardinality(left)
            E == Cardinality(ending)
            U == Cardinality(Users)
            Less == StepsLeft(Main)' < StepsLeft(Main)
            Same == UNCHANGED <<left, ending>>
<1>c. IsFiniteSet(left) /\ IsFiniteSet(ending) /\ U \in Nat /\ L \in Nat /\ E \in Nat
    BY Counted
<1>t. Main \in Tasks /\ task[Main].pc \in MainSteps
    BY PlaceOf, NamedTasks
<1>1. ASSUME TaskStep(Main) \/ UNCHANGED task, Less PROVE OneStepLess
    BY <1>t, <1>1, OthersKeep DEF OneStepLess, TaskStep, Puts
<1>2. CASE Local(Main)
  <2>1. CASE CloseUser(Main)
    <3>1. PICK pc \in DOMAIN Closing : task[Main].pc = pc /\ GoWith(Main, Closing[pc],
                                         cached[task[Main].user]) /\ Same
        BY <2>1 DEF CloseUser, At, shutdown
    <3>2. pc = "stop" /\ Closing[pc] = "stopped"
      <4>1. pc \in {"storm", "drop", "stop"} /\ Closing["stop"] = "stopped"
          BY DEF Closing
      <4>. QED
          BY <1>t, <3>1, <4>1 DEF MainSteps
    <3>3. task'[Main].pc = "stopped"
        BY <1>t, <3>1, <3>2, Putting DEF Puts
    <3>4. Less
        BY <1>c, <3>1, <3>2, <3>3, MainLeft, MainWillHave
    <3>. QED
        BY <1>1, <1>t, <2>1, <3>4, CloseUserArc
  <2>2. CASE CloseClient(Main)
    <3>1. Same /\ task[Main].pc \in {"stopped", "stormed", "dropped"}
        BY <2>2 DEF CloseClient, IsClosing, At, Closing, shutdown
    <3>2. task[Main].pc = "stopped"
        BY <1>t, <3>1 DEF MainSteps
    <3>3. task'[Main].pc \in {"stopping", "raised"}
        BY <1>t, <2>2, <3>2, CloseClientArc DEF TaskStep, Puts, OnArc, MainArcs
    <3>4. Less
        BY <1>c, <3>1, <3>2, <3>3, MainLeft, MainWillHave
    <3>. QED
        BY <1>1, <1>t, <2>2, <3>4, CloseClientArc
  <2>3. ~GetCachedClient(Main) /\ ~GetClient(Main)
      BY <1>t DEF GetCachedClient, GetClient, At, MainSteps
  <2>. QED
      BY <1>2, <2>1, <2>2, <2>3 DEF Local
<1>3. CASE StopRaises
  <2>1. task[Main].pc = "stopping" /\ task'[Main].pc = "raised"
      BY <1>3, <1>t, Putting DEF StopRaises, At, Puts
  <2>2. Less
      BY <1>c, <2>1, MainLeft, MainWillHave
  <2>. QED
      BY <1>1, <1>3, <2>2, StopRaisesArc
<1>4. CASE StopEnds
  <2>1. task[Main].pc = "stopping" /\ task'[Main].pc = "closeAll"
      BY <1>4, <1>t, Putting DEF StopEnds, At, Puts
  <2>2. Less
      BY <1>c, <2>1, MainLeft, MainWillHave
  <2>. QED
      BY <1>1, <1>4, <2>2, StopEndsArc
<1>5. CASE CloseAll
  <2>1. /\ task[Main].pc = "closeAll" /\ task'[Main].pc = "closingAll"
        /\ ending' = {cached[u] : u \in Users} \ {None}
      BY <1>5, <1>t, Putting DEF CloseAll, At, Puts
  <2>2. Less
      BY <1>c, <2>1, MainLeft, MainWillHave, CopiedFew
  <2>. QED
      BY <1>1, <1>5, <2>2, CloseAllArc
<1>6. CASE MainEnds
  <2>1. task[Main].pc = "closingAll" /\ task'[Main].pc = "done"
      BY <1>6, <1>t, Putting DEF MainEnds, At, Puts
  <2>2. Less
      BY <1>c, <2>1, MainLeft, MainWillHave
  <2>. QED
      BY <1>1, <1>6, <2>2, MainEndsArc
<1>7. ASSUME NEW u \in left, StopService(u) PROVE OneStepLess
  <2>1. Cardinality(left') = L - 1
      BY <1>7, <1>c, FS_RemoveElement DEF StopService
  <2>2. task[Main].pc = "stopping" /\ (task'[Main].pc = "stop" \/ UNCHANGED task)
      BY <1>7, <1>t, Putting DEF StopService, At, Puts
  <2>3. Less
      BY <1>c, <2>1, <2>2, MainLeft, MainWillHave
  <2>. QED
      BY <1>1, <1>7, <2>3, StopServiceArc, Worklists
<1>8. ASSUME NEW c \in ending, CloseNext(c) PROVE OneStepLess
  <2>1. Cardinality(ending') = E - 1
      BY <1>8, <1>c, FS_RemoveElement DEF CloseNext
  <2>2. task[Main].pc = "closingAll" /\ (task'[Main].pc = "raised" \/ UNCHANGED task)
      BY <1>8, <1>t, Putting DEF CloseNext, At, Puts
  <2>3. Less
      BY <1>c, <2>1, <2>2, MainLeft, MainWillHave
  <2>. QED
      BY <1>1, <1>8, <2>3, CloseNextArc, Worklists
<1>. QED
    BY <1>2, <1>3, <1>4, <1>5, <1>6, <1>7, <1>8 DEF LocalMain

LEMMA WindsStep ==
    ASSUME TypeOK, Registry, [Next]_vars, ~Running
    PROVE  OneStepLess \/ UNCHANGED vars
<1>t. Poller \in Tasks /\ Main \in Tasks /\ Senders \subseteq Tasks
    BY NamedTasks
<1>f. Poller # Main /\ Main \notin Senders
    BY TasksAssumption
<1>. DEFINE Same == UNCHANGED <<left, ending>>
<1>1. ASSUME NEW t \in Tasks, t # Main, Local(t) PROVE OneStepLess
  <2>1. TaskStep(t) /\ Same
      BY <1>1, GetCachedClientArc, GetClientArc, CloseUserArc, CloseClientArc
      DEF Local, GetCachedClient, GetClient, CloseUser, CloseClient, shutdown
  <2>. QED
      BY <1>1, <2>1, OthersWind
<1>2. CASE LocalPoller
  <2>1. ASSUME NEW u \in Users, PollUser(u) PROVE FALSE
      BY <2>1 DEF PollUser
  <2>2. CASE PollOnce \/ EndCycle \/ PollChats
    <3>1. TaskStep(Poller) /\ Same
        BY <2>2, PollOnceArc, EndCycleArc, PollChatsArc
        DEF PollOnce, EndCycle, PollChats, shutdown
    <3>. QED
        BY <1>t, <1>f, <3>1, OthersWind
  <2>. QED
      BY <1>1, <1>2, <1>t, <1>f, <2>1, <2>2, Worklists DEF LocalPoller
<1>3. CASE LocalMain
    BY <1>3, MainWinds
<1>4. ASSUME NEW t \in Senders, Local(t) \/ MarkChatDirty(t) PROVE OneStepLess
  <2>1. CASE MarkChatDirty(t)
    <3>1. TaskStep(t) /\ Same
        BY <2>1, MarkChatDirtyArc DEF MarkChatDirty, shutdown
    <3>. QED
        BY <1>t, <1>f, <3>1, OthersWind
  <2>. QED
      BY <1>1, <1>4, <1>t, <1>f, <2>1
<1>5. CASE HeartbeatAges
    BY <1>5 DEF HeartbeatAges
<1>6. CASE Environment
  <2>1. ASSUME NEW t \in Tasks, Waiting(t) PROVE OneStepLess
    <3>1. TaskStep(t) /\ Same
        BY <2>1, StartReadyArc, StartRaisesArc DEF Waiting, StartReady, StartRaises, shutdown
    <3>2. t # Main
        BY <2>1, PlaceOf DEF Waiting, StartReady, StartRaises, At, MainSteps
    <3>. QED
        BY <3>1, <3>2, OthersWind
  <2>2. CASE ServeUser \/ DropUser \/ PollMessages
    <3>1. TaskStep(Poller) /\ Same
        BY <2>2, ServeUserArc, DropUserArc, PollMessagesArc
        DEF ServeUser, DropUser, PollMessages, shutdown
    <3>. QED
        BY <1>t, <1>f, <3>1, OthersWind
  <2>3. ASSUME NEW t \in Senders, SendMessage(t) \/ SendRaises(t) PROVE OneStepLess
    <3>1. TaskStep(t) /\ Same
        BY <2>3, SendMessageArc, SendRaisesArc DEF SendMessage, SendRaises, shutdown
    <3>. QED
        BY <1>t, <1>f, <3>1, OthersWind
  <2>4. ASSUME NEW u \in Users, BindingChanges(u) \/ \E t \in Senders : Deliver(t, u)
        PROVE  FALSE
      BY <2>4 DEF BindingChanges, Deliver
  <2>5. ~Stop
      BY DEF Stop, At, Running
  <2>. QED
      BY <1>6, <2>1, <2>2, <2>3, <2>4, <2>5 DEF Environment
<1>. QED
    BY <1>2, <1>3, <1>4, <1>5, <1>6 DEF Next

\* A shutdown winds down: whatever the other tasks do at the time, each step leaves
\* its task with fewer before it and the others with no more (stop, close_all, main).
THEOREM ShutdownWindsDown == Spec => WindsDown
<1>1. TypeOK /\ Registry /\ [Next]_vars => [~Running => OneStepLess]_vars
    BY WindsStep
<1>. QED
    BY <1>1, RegistryInductive, PTL DEF Spec, WindsDown
=============================================================================
