---------------------------- MODULE RuntimeProofs ----------------------------
(***************************************************************************)
(* Proofs about Runtime, for every set of users and of message handlers.   *)
(***************************************************************************)
EXTENDS Runtime, FiniteSetTheorems, TLAPS

Steps  == PollerSteps \cup SenderSteps \cup MainSteps
MaybeClient == {None} \cup Clients
TaskRecord == [pc : Steps, user : Users, client : MaybeClient]

LEMMA NoneIsNoClient == None \notin Clients
  BY SMT DEF None, Clients

LEMMA ClientHasUser == ASSUME NEW c \in Clients PROVE c[1] \in Users
  BY DEF Clients

LEMMA UserHasClient == ASSUME NEW u \in Users, NEW n \in 1..MaxClients
                       PROVE <<u, n>> \in Clients /\ <<u, n>>[1] = u
  BY DEF Clients

LEMMA AnyUserIsUser == AnyUser \in Users
  BY UsersAssumption DEF AnyUser

LEMMA LockAppend == ASSUME NEW q \in Seq(Tasks), NEW t \in Tasks, NEW s
                    PROVE /\ Append(q, t) \in Seq(Tasks)
                          /\ (q # <<>> /\ Head(q) = s) =>
                                (Append(q, t) # <<>> /\ Head(Append(q, t)) = s)
  OBVIOUS

LEMMA LockTail == ASSUME NEW q \in Seq(Tasks), q # <<>> PROVE Tail(q) \in Seq(Tasks)
  OBVIOUS

-----------------------------------------------------------------------------
(* What a step does to the task that takes it.                             *)

PcTyped(t, pc) ==
    /\ t = Poller => pc \in PollerSteps
    /\ t = Main => pc \in MainSteps
    /\ t \in Senders => pc \in SenderSteps

TasksTyped(f) ==
    /\ f \in [Tasks -> TaskRecord]
    /\ f[Poller].pc \in PollerSteps /\ f[Main].pc \in MainSteps
    /\ \A s \in Senders : f[s].pc \in SenderSteps

\* Task t is now at pc with user u and client c; the others are where they were.
Moved(t, pc, u, c) ==
    /\ TasksTyped(task')
    /\ task'[t].pc = pc /\ task'[t].user = u /\ task'[t].client = c
    /\ \A s \in Tasks \ {t} : task'[s] = task[s]

LEMMA PutTask ==
    ASSUME TasksTyped(task), NEW t \in Tasks, NEW r \in TaskRecord, PcTyped(t, r.pc),
           task' = [task EXCEPT ![t] = r]
    PROVE  Moved(t, r.pc, r.user, r.client)
  <1>1. task' \in [Tasks -> TaskRecord]
    BY DEF TasksTyped
  <1>2. task'[t] = r /\ \A s \in Tasks \ {t} : task'[s] = task[s]
    BY DEF TasksTyped
  <1>3. Poller \in Tasks /\ Main \in Tasks /\ Senders \subseteq Tasks
    BY DEF Tasks
  <1>4. task'[Poller].pc \in PollerSteps /\ task'[Main].pc \in MainSteps
    BY <1>2, <1>3 DEF TasksTyped, PcTyped
  <1>5. \A s \in Senders : task'[s].pc \in SenderSteps
    BY <1>2, <1>3 DEF TasksTyped, PcTyped
  <1> QED BY <1>1, <1>2, <1>4, <1>5 DEF Moved, TasksTyped

LEMMA StepsTyped == ASSUME NEW t \in Tasks, NEW pc, PcTyped(t, pc) PROVE pc \in Steps
  BY DEF Tasks, PcTyped, Steps

LEMMA GoMoves ==
    ASSUME TasksTyped(task), NEW t \in Tasks, NEW pc, PcTyped(t, pc), Go(t, pc)
    PROVE  Moved(t, pc, task[t].user, task[t].client)
  <1> DEFINE r == [pc |-> pc, user |-> task[t].user, client |-> task[t].client]
  <1>1. task[t] \in TaskRecord
    BY DEF TasksTyped
  <1>2. r \in TaskRecord
    BY <1>1, StepsTyped DEF TaskRecord
  <1>3. [task[t] EXCEPT !.pc = pc] = r
    BY <1>1 DEF TaskRecord
  <1>4. task' = [task EXCEPT ![t] = r]
    BY <1>3 DEF Go, TasksTyped
  <1> QED BY <1>2, <1>4, PutTask

LEMMA GoWithMoves ==
    ASSUME TasksTyped(task), NEW t \in Tasks, NEW pc, PcTyped(t, pc),
           NEW c \in MaybeClient, GoWith(t, pc, c)
    PROVE  Moved(t, pc, task[t].user, c)
  <1> DEFINE r == [pc |-> pc, user |-> task[t].user, client |-> c]
  <1>1. task[t] \in TaskRecord
    BY DEF TasksTyped
  <1>2. r \in TaskRecord
    BY <1>1, StepsTyped DEF TaskRecord
  <1>3. task' = [task EXCEPT ![t] = r]
    BY DEF GoWith, TasksTyped
  <1> QED BY <1>2, <1>3, PutTask

LEMMA TurnToMoves ==
    ASSUME TasksTyped(task), NEW t \in Tasks, NEW pc, PcTyped(t, pc), NEW u \in Users,
           TurnTo(t, pc, u)
    PROVE  Moved(t, pc, u, task[t].client)
  <1> DEFINE r == [pc |-> pc, user |-> u, client |-> task[t].client]
  <1>1. task[t] \in TaskRecord
    BY DEF TasksTyped
  <1>2. r \in TaskRecord
    BY <1>1, StepsTyped DEF TaskRecord
  <1>3. task' = [task EXCEPT ![t] = r]
    BY DEF TurnTo, TasksTyped
  <1> QED BY <1>2, <1>3, PutTask

LEMMA RestMoves ==
    ASSUME TasksTyped(task), NEW t \in Tasks, NEW pc, PcTyped(t, pc), Rest(t, pc)
    PROVE  Moved(t, pc, AnyUser, None)
  <1>1. Resting(pc) \in TaskRecord
    BY StepsTyped, AnyUserIsUser DEF TaskRecord, Resting, MaybeClient
  <1> QED BY <1>1, PutTask DEF Rest, Resting

\* Only the holder gives the lock up, and nobody overtakes.
LockKept(t) == lock' \in Seq(Tasks) /\ \A s \in Tasks \ {t} : Holds(s) => Holds(s)'

LEMMA AcquireKeeps ==
    ASSUME lock \in Seq(Tasks), NEW t \in Tasks, Acquire(t) PROVE LockKept(t)
  BY LockAppend DEF Acquire, LockKept, Holds

LEMMA ReleaseKeeps ==
    ASSUME lock \in Seq(Tasks), NEW t \in Tasks, Release(t) PROVE LockKept(t)
  BY LockTail DEF Release, LockKept, Holds

LEMMA SameLockKeeps ==
    ASSUME lock \in Seq(Tasks), NEW t \in Tasks, UNCHANGED lock PROVE LockKept(t)
  BY DEF LockKept, Holds
-----------------------------------------------------------------------------
(* Quiet steps: no client starts, is opened or is closed.                  *)

RestTyped ==
    /\ active \subseteq Users /\ lock \in Seq(Tasks)
    /\ cached \in [Users -> MaybeClient]
    /\ state \in [Clients -> {"closed", "starting", "open", "closing"}]
    /\ service \in [Users -> {"none", "new", "used"}]
    /\ todo \subseteq Users /\ hadFailure \in BOOLEAN
    /\ marker \in BOOLEAN /\ stale \in BOOLEAN
    /\ left \subseteq Users /\ size \in Nat /\ ending \subseteq Clients /\ failed \subseteq Users
    /\ faults \in Nat

LEMMA TypeSplit == TypeOK <=> TasksTyped(task) /\ RestTyped
  BY DEF TypeOK, TasksTyped, RestTyped, TaskRecord, Steps, MaybeClient

LEMMA TypeSplitNext == TypeOK' <=> TasksTyped(task') /\ RestTyped'
  BY DEF TypeOK, TasksTyped, RestTyped, TaskRecord, Steps, MaybeClient

LEMMA NamedTasks == Poller \in Tasks /\ Main \in Tasks /\ Senders \subseteq Tasks
  BY DEF Tasks

LEMMA TypedTask ==
    ASSUME TypeOK, NEW t \in Tasks
    PROVE  /\ TasksTyped(task) /\ RestTyped
           /\ task[t].user \in Users /\ task[t].client \in MaybeClient
           /\ cached[task[t].user] \in MaybeClient
           /\ PcTyped(t, task[t].pc)
  <1>1. TasksTyped(task) /\ RestTyped
    BY TypeSplit
  <1>2. task[t] \in TaskRecord
    BY <1>1 DEF TasksTyped
  <1>3. task[t].user \in Users /\ task[t].client \in MaybeClient
    BY <1>2 DEF TaskRecord
  <1> QED BY <1>1, <1>3 DEF RestTyped, TasksTyped, PcTyped

LEMMA ServicesCount == Cardinality(Services) \in Nat
  BY UsersAssumption, FS_Subset, FS_CardinalityType DEF Services

Quiet(t) ==
    /\ TasksTyped(task') /\ LockKept(t) /\ UNCHANGED <<cached, state, ending>>
    /\ task[t].pc # "start" /\ task'[t].pc # "start"
    /\ task[t].pc \notin ClosingSteps /\ task'[t].pc \notin ClosingSteps
    /\ \A s \in Tasks \ {t} : task'[s] = task[s]

LEMMA PollReturnsTyped ==
    ASSUME TypeOK, NEW ok \in BOOLEAN, PollReturns(ok)
    PROVE  hadFailure' \in BOOLEAN /\ failed' \subseteq Users
  <1>1. task[Poller].user \in Users
    BY TypedTask, NamedTasks
  <1>2. hadFailure' \in BOOLEAN
    BY TypeSplit DEF PollReturns, RestTyped
  <1>3. failed' \subseteq Users
    BY <1>1, TypeSplit DEF PollReturns, RestTyped
  <1> QED BY <1>2, <1>3

LEMMA FaultTyped == ASSUME faults \in Nat, Fault PROVE faults' \in Nat
  BY DEF Fault

LEMMA ServesTyped ==
    ASSUME TypeOK, NEW t \in Tasks, Serves(t)
    PROVE  service' \in [Users -> {"none", "new", "used"}]
  BY TypeSplit DEF Serves, RestTyped

LEMMA GetCachedClientQuiet ==
    ASSUME TypeOK, NEW t \in Tasks, GetCachedClient(t)
    PROVE  TypeOK' /\ Quiet(t)
  <1>t. t \in Tasks /\ TasksTyped(task) /\ RestTyped
    BY NamedTasks, TypeSplit
  <1>0. task[t].pc = "get" /\ PcTyped(t, "use")
    BY <1>t, TypedTask, TasksAssumption DEF GetCachedClient, At, PcTyped, PollerSteps, SenderSteps, MainSteps, Tasks
  <1>1. Moved(t, "use", task[t].user, cached[task[t].user])
    BY <1>t, <1>0, GoWithMoves, TypedTask, NoneIsNoClient DEF GetCachedClient, MaybeClient
  <1>2. LockKept(t)
    BY <1>t, ReleaseKeeps DEF GetCachedClient, registry, RestTyped
  <1>3. RestTyped'
    BY <1>t, <1>2, ServesTyped DEF GetCachedClient, RestTyped, registry, cycle, health, shutdown, LockKept
  <1> QED BY <1>0, <1>1, <1>2, <1>3, TypeSplitNext
       DEF GetCachedClient, Quiet, Moved, ClosingSteps, registry, shutdown

LEMMA PollUserQuiet ==
    ASSUME TypeOK, NEW u \in Users, PollUser(u)
    PROVE  TypeOK' /\ Quiet(Poller)
  <1>t. Poller \in Tasks /\ TasksTyped(task) /\ RestTyped
    BY NamedTasks, TypeSplit
  <1>0. task[Poller].pc \in {"begin", "next"} /\ PcTyped(Poller, "visit")
    BY <1>t, TypedTask, TasksAssumption DEF PollUser, BetweenUsers, At, PcTyped, PollerSteps, SenderSteps, MainSteps, Tasks
  <1>1. Moved(Poller, "visit", u, task[Poller].client)
    BY <1>t, <1>0, TurnToMoves, TypedTask, NoneIsNoClient DEF PollUser, MaybeClient
  <1>2. LockKept(Poller)
    BY <1>t, SameLockKeeps DEF PollUser, registry, RestTyped
  <1>3. RestTyped'
    BY <1>t, <1>2 DEF PollUser, RestTyped, registry, cycle, health, shutdown, LockKept
  <1> QED BY <1>0, <1>1, <1>2, <1>3, TypeSplitNext
       DEF PollUser, Quiet, Moved, ClosingSteps, registry, shutdown

LEMMA ServeUserQuiet ==
    ASSUME TypeOK, ServeUser
    PROVE  TypeOK' /\ Quiet(Poller)
  <1>t. Poller \in Tasks /\ TasksTyped(task) /\ RestTyped
    BY NamedTasks, TypeSplit
  <1>0. task[Poller].pc = "visit" /\ PcTyped(Poller, "get")
    BY <1>t, TypedTask, TasksAssumption DEF ServeUser, At, PcTyped, PollerSteps, SenderSteps, MainSteps, Tasks
  <1>1. Moved(Poller, "get", task[Poller].user, task[Poller].client)
    BY <1>t, <1>0, GoMoves, TypedTask, NoneIsNoClient DEF ServeUser, MaybeClient
  <1>2. LockKept(Poller)
    BY <1>t, AcquireKeeps DEF ServeUser, registry, RestTyped
  <1>3. RestTyped'
    BY <1>t, <1>2 DEF ServeUser, RestTyped, registry, cycle, health, shutdown, LockKept
  <1> QED BY <1>0, <1>1, <1>2, <1>3, TypeSplitNext
       DEF ServeUser, Quiet, Moved, ClosingSteps, registry, shutdown

LEMMA PollChatsQuiet ==
    ASSUME TypeOK, PollChats
    PROVE  TypeOK' /\ Quiet(Poller)
  <1>t. Poller \in Tasks /\ TasksTyped(task) /\ RestTyped
    BY NamedTasks, TypeSplit
  <1>0. task[Poller].pc = "dirty" /\ PcTyped(Poller, "next")
    BY <1>t, TypedTask, TasksAssumption DEF PollChats, At, PcTyped, PollerSteps, SenderSteps, MainSteps, Tasks
  <1>1. Moved(Poller, "next", task[Poller].user, None)
    BY <1>t, <1>0, GoWithMoves, TypedTask, NoneIsNoClient DEF PollChats, MaybeClient
  <1>2. LockKept(Poller)
    BY <1>t, ReleaseKeeps DEF PollChats, registry, RestTyped
  <1>3. RestTyped'
    BY <1>t, <1>2, PollReturnsTyped, FaultTyped DEF PollChats, RestTyped, registry, cycle, health, shutdown, LockKept, FaultUnless
  <1> QED BY <1>0, <1>1, <1>2, <1>3, TypeSplitNext
       DEF PollChats, Quiet, Moved, ClosingSteps, registry, shutdown

LEMMA DeliverQuiet ==
    ASSUME TypeOK, NEW t \in Senders, NEW u \in Users, Deliver(t, u)
    PROVE  TypeOK' /\ Quiet(t)
  <1>t. t \in Tasks /\ TasksTyped(task) /\ RestTyped
    BY NamedTasks, TypeSplit
  <1>0. task[t].pc = "idle" /\ PcTyped(t, "get")
    BY <1>t, TypedTask, TasksAssumption DEF Deliver, At, PcTyped, PollerSteps, SenderSteps, MainSteps, Tasks
  <1>1. Moved(t, "get", u, task[t].client)
    BY <1>t, <1>0, TurnToMoves, TypedTask, NoneIsNoClient DEF Deliver, MaybeClient
  <1>2. LockKept(t)
    BY <1>t, AcquireKeeps DEF Deliver, registry, RestTyped
  <1>3. RestTyped'
    BY <1>t, <1>2 DEF Deliver, RestTyped, registry, cycle, health, shutdown, LockKept
  <1> QED BY <1>0, <1>1, <1>2, <1>3, TypeSplitNext
       DEF Deliver, Quiet, Moved, ClosingSteps, registry, shutdown

LEMMA SendMessageQuiet ==
    ASSUME TypeOK, NEW t \in Senders, SendMessage(t)
    PROVE  TypeOK' /\ Quiet(t)
  <1>t. t \in Tasks /\ TasksTyped(task) /\ RestTyped
    BY NamedTasks, TypeSplit
  <1>0. task[t].pc = "use" /\ PcTyped(t, "mark")
    BY <1>t, TypedTask, TasksAssumption DEF SendMessage, At, PcTyped, PollerSteps, SenderSteps, MainSteps, Tasks
  <1>1. Moved(t, "mark", task[t].user, task[t].client)
    BY <1>t, <1>0, GoMoves, TypedTask, NoneIsNoClient DEF SendMessage, MaybeClient
  <1>2. LockKept(t)
    BY <1>t, AcquireKeeps DEF SendMessage, registry, RestTyped
  <1>3. RestTyped'
    BY <1>t, <1>2 DEF SendMessage, RestTyped, registry, cycle, health, shutdown, LockKept
  <1> QED BY <1>0, <1>1, <1>2, <1>3, TypeSplitNext
       DEF SendMessage, Quiet, Moved, ClosingSteps, registry, shutdown

LEMMA SendRaisesQuiet ==
    ASSUME TypeOK, NEW t \in Senders, SendRaises(t)
    PROVE  TypeOK' /\ Quiet(t)
  <1>t. t \in Tasks /\ TasksTyped(task) /\ RestTyped
    BY NamedTasks, TypeSplit
  <1>0. task[t].pc = "use" /\ PcTyped(t, "idle")
    BY <1>t, TypedTask, TasksAssumption DEF SendRaises, At, PcTyped, PollerSteps, SenderSteps, MainSteps, Tasks
  <1>1. Moved(t, "idle", AnyUser, None)
    BY <1>t, <1>0, RestMoves, TypedTask, NoneIsNoClient DEF SendRaises, MaybeClient
  <1>2. LockKept(t)
    BY <1>t, SameLockKeeps DEF SendRaises, registry, RestTyped
  <1>3. RestTyped'
    BY <1>t, <1>2 DEF SendRaises, RestTyped, registry, cycle, health, shutdown, LockKept
  <1> QED BY <1>0, <1>1, <1>2, <1>3, TypeSplitNext
       DEF SendRaises, Quiet, Moved, ClosingSteps, registry, shutdown

LEMMA MarkChatDirtyQuiet ==
    ASSUME TypeOK, NEW t \in Senders, MarkChatDirty(t)
    PROVE  TypeOK' /\ Quiet(t)
  <1>t. t \in Tasks /\ TasksTyped(task) /\ RestTyped
    BY NamedTasks, TypeSplit
  <1>0. task[t].pc = "mark" /\ PcTyped(t, "idle")
    BY <1>t, TypedTask, TasksAssumption DEF MarkChatDirty, At, PcTyped, PollerSteps, SenderSteps, MainSteps, Tasks
  <1>1. Moved(t, "idle", AnyUser, None)
    BY <1>t, <1>0, RestMoves, TypedTask, NoneIsNoClient DEF MarkChatDirty, MaybeClient
  <1>2. LockKept(t)
    BY <1>t, ReleaseKeeps DEF MarkChatDirty, registry, RestTyped
  <1>3. RestTyped'
    BY <1>t, <1>2 DEF MarkChatDirty, RestTyped, registry, cycle, health, shutdown, LockKept
  <1> QED BY <1>0, <1>1, <1>2, <1>3, TypeSplitNext
       DEF MarkChatDirty, Quiet, Moved, ClosingSteps, registry, shutdown

LEMMA EndCycleQuiet ==
    ASSUME TypeOK, EndCycle
    PROVE  TypeOK' /\ Quiet(Poller)
  <1>t. Poller \in Tasks /\ TasksTyped(task) /\ RestTyped
    BY NamedTasks, TypeSplit
  <1>0. task[Poller].pc \in {"begin", "next"} /\ PcTyped(Poller, "sleep")
    BY <1>t, TypedTask, TasksAssumption DEF EndCycle, BetweenUsers, At, PcTyped, PollerSteps, SenderSteps, MainSteps, Tasks
  <1>1. Moved(Poller, "sleep", task[Poller].user, task[Poller].client)
    BY <1>t, <1>0, GoMoves, TypedTask, NoneIsNoClient DEF EndCycle, MaybeClient
  <1>2. LockKept(Poller)
    BY <1>t, SameLockKeeps DEF EndCycle, registry, RestTyped
  <1>3. RestTyped'
    BY <1>t, <1>2 DEF EndCycle, RestTyped, registry, cycle, health, shutdown, LockKept
  <1> QED BY <1>0, <1>1, <1>2, <1>3, TypeSplitNext
       DEF EndCycle, Quiet, Moved, ClosingSteps, registry, shutdown

LEMMA StopQuiet ==
    ASSUME TypeOK, Stop
    PROVE  TypeOK' /\ Quiet(Main)
  <1>t. Main \in Tasks /\ TasksTyped(task) /\ RestTyped
    BY NamedTasks, TypeSplit
  <1>0. task[Main].pc = "run" /\ PcTyped(Main, "stopping")
    BY <1>t, TypedTask, TasksAssumption DEF Stop, At, PcTyped, PollerSteps, SenderSteps, MainSteps, Tasks
  <1>1. Moved(Main, "stopping", task[Main].user, task[Main].client)
    BY <1>t, <1>0, GoMoves, TypedTask, NoneIsNoClient DEF Stop, MaybeClient
  <1>2. LockKept(Main)
    BY <1>t, SameLockKeeps DEF Stop, registry, RestTyped
  <1>3. RestTyped'
    BY <1>t, <1>2, ServicesCount DEF Stop, RestTyped, registry, cycle, health, shutdown, LockKept, Services
  <1> QED BY <1>0, <1>1, <1>2, <1>3, TypeSplitNext
       DEF Stop, Quiet, Moved, ClosingSteps, registry, shutdown

LEMMA StopRaisesQuiet ==
    ASSUME TypeOK, StopRaises
    PROVE  TypeOK' /\ Quiet(Main)
  <1>t. Main \in Tasks /\ TasksTyped(task) /\ RestTyped
    BY NamedTasks, TypeSplit
  <1>0. task[Main].pc = "stopping" /\ PcTyped(Main, "raised")
    BY <1>t, TypedTask, TasksAssumption DEF StopRaises, At, PcTyped, PollerSteps, SenderSteps, MainSteps, Tasks
  <1>1. Moved(Main, "raised", task[Main].user, task[Main].client)
    BY <1>t, <1>0, GoMoves, TypedTask, NoneIsNoClient DEF StopRaises, MaybeClient
  <1>2. LockKept(Main)
    BY <1>t, SameLockKeeps DEF StopRaises, registry, RestTyped
  <1>3. RestTyped'
    BY <1>t, <1>2 DEF StopRaises, RestTyped, registry, cycle, health, shutdown, LockKept
  <1> QED BY <1>0, <1>1, <1>2, <1>3, TypeSplitNext
       DEF StopRaises, Quiet, Moved, ClosingSteps, registry, shutdown

LEMMA StopEndsQuiet ==
    ASSUME TypeOK, StopEnds
    PROVE  TypeOK' /\ Quiet(Main)
  <1>t. Main \in Tasks /\ TasksTyped(task) /\ RestTyped
    BY NamedTasks, TypeSplit
  <1>0. task[Main].pc = "stopping" /\ PcTyped(Main, "closeAll")
    BY <1>t, TypedTask, TasksAssumption DEF StopEnds, At, PcTyped, PollerSteps, SenderSteps, MainSteps, Tasks
  <1>1. Moved(Main, "closeAll", task[Main].user, task[Main].client)
    BY <1>t, <1>0, GoMoves, TypedTask, NoneIsNoClient DEF StopEnds, MaybeClient
  <1>2. LockKept(Main)
    BY <1>t, AcquireKeeps DEF StopEnds, registry, RestTyped
  <1>3. RestTyped'
    BY <1>t, <1>2 DEF StopEnds, RestTyped, registry, cycle, health, shutdown, LockKept
  <1> QED BY <1>0, <1>1, <1>2, <1>3, TypeSplitNext
       DEF StopEnds, Quiet, Moved, ClosingSteps, registry, shutdown

LEMMA MainEndsQuiet ==
    ASSUME TypeOK, MainEnds
    PROVE  TypeOK' /\ Quiet(Main)
  <1>t. Main \in Tasks /\ TasksTyped(task) /\ RestTyped
    BY NamedTasks, TypeSplit
  <1>0. task[Main].pc = "closingAll" /\ PcTyped(Main, "done")
    BY <1>t, TypedTask, TasksAssumption DEF MainEnds, At, PcTyped, PollerSteps, SenderSteps, MainSteps, Tasks
  <1>1. Moved(Main, "done", task[Main].user, task[Main].client)
    BY <1>t, <1>0, GoMoves, TypedTask, NoneIsNoClient DEF MainEnds, MaybeClient
  <1>2. LockKept(Main)
    BY <1>t, SameLockKeeps DEF MainEnds, registry, RestTyped
  <1>3. RestTyped'
    BY <1>t, <1>2 DEF MainEnds, RestTyped, registry, cycle, health, shutdown, LockKept
  <1> QED BY <1>0, <1>1, <1>2, <1>3, TypeSplitNext
       DEF MainEnds, Quiet, Moved, ClosingSteps, registry, shutdown

\* The poll loop ends with the process, or begins a cycle.
LEMMA PollOnceQuiet ==
    ASSUME TypeOK, PollOnce
    PROVE  TypeOK' /\ Quiet(Poller)
  <1>t. Poller \in Tasks /\ TasksTyped(task) /\ RestTyped
    BY NamedTasks, TypeSplit
  <1>0. task[Poller].pc = "sleep" /\ PcTyped(Poller, "begin") /\ PcTyped(Poller, "ended")
    BY <1>t, TasksAssumption DEF PollOnce, At, PcTyped, PollerSteps
  <1>1. \/ Moved(Poller, "begin", task[Poller].user, task[Poller].client)
        \/ Moved(Poller, "ended", task[Poller].user, task[Poller].client)
    BY <1>t, <1>0, GoMoves DEF PollOnce
  <1>2. LockKept(Poller)
    BY <1>t, SameLockKeeps DEF PollOnce, registry, RestTyped
  <1>3. RestTyped'
    BY <1>t DEF PollOnce, RestTyped, registry, cycle, health, shutdown
  <1> QED BY <1>0, <1>1, <1>2, <1>3, TypeSplitNext
       DEF PollOnce, Quiet, Moved, ClosingSteps, registry, shutdown

LEMMA DropUserQuiet ==
    ASSUME TypeOK, DropUser
    PROVE  TypeOK' /\ Quiet(Poller)
  <1>t. Poller \in Tasks /\ TasksTyped(task) /\ RestTyped
    BY NamedTasks, TypeSplit
  <1>0. task[Poller].pc = "visit" /\ PcTyped(Poller, "drop") /\ PcTyped(Poller, "next")
    BY <1>t, TasksAssumption DEF DropUser, At, PcTyped, PollerSteps
  <1>1. \/ Moved(Poller, "drop", task[Poller].user, task[Poller].client)
        \/ Moved(Poller, "next", task[Poller].user, None)
    BY <1>t, <1>0, GoMoves, GoWithMoves DEF DropUser, MaybeClient
  <1>2. LockKept(Poller)
    BY <1>t, AcquireKeeps, SameLockKeeps DEF DropUser, RestTyped
  <1>3. hadFailure' \in BOOLEAN /\ failed' \subseteq Users
    BY <1>t, PollReturnsTyped DEF DropUser, RestTyped
  <1>4. RestTyped'
    BY <1>t, <1>2, <1>3 DEF DropUser, RestTyped, LockKept, health, shutdown
  <1> QED BY <1>0, <1>1, <1>2, <1>4, TypeSplitNext
       DEF DropUser, Quiet, Moved, ClosingSteps, shutdown

LEMMA PollMessagesQuiet ==
    ASSUME TypeOK, PollMessages
    PROVE  TypeOK' /\ Quiet(Poller)
  <1>t. Poller \in Tasks /\ TasksTyped(task) /\ RestTyped
    BY NamedTasks, TypeSplit
  <1>0. task[Poller].pc = "use" /\ PcTyped(Poller, "dirty") /\ PcTyped(Poller, "storm")
    BY <1>t, TasksAssumption DEF PollMessages, At, PcTyped, PollerSteps
  <1>1. \/ Moved(Poller, "dirty", task[Poller].user, task[Poller].client)
        \/ Moved(Poller, "storm", task[Poller].user, task[Poller].client)
    BY <1>t, <1>0, GoMoves DEF PollMessages
  <1>2. LockKept(Poller)
    BY <1>t, AcquireKeeps DEF PollMessages, RestTyped
  <1>3. RestTyped'
    BY <1>t, <1>2, FaultTyped DEF PollMessages, RestTyped, LockKept, cycle, health, shutdown
  <1> QED BY <1>0, <1>1, <1>2, <1>3, TypeSplitNext
       DEF PollMessages, Quiet, Moved, ClosingSteps, shutdown

\* Steps of no task.
Still == UNCHANGED <<task, lock, cached, state, ending>>

LEMMA BindingChangesStill ==
    ASSUME TypeOK, NEW u \in Users, BindingChanges(u)
    PROVE  TypeOK' /\ Still
  <1>1. RestTyped'
    BY TypeSplit, FaultTyped
    DEF BindingChanges, RestTyped, registry, cycle, health, shutdown
  <1> QED BY <1>1, TypeSplit, TypeSplitNext DEF BindingChanges, Still, registry, shutdown

LEMMA HeartbeatAgesStill ==
    ASSUME TypeOK, HeartbeatAges
    PROVE  TypeOK' /\ Still
  <1>1. RestTyped'
    BY TypeSplit DEF HeartbeatAges, RestTyped, registry, cycle, shutdown
  <1> QED BY <1>1, TypeSplit, TypeSplitNext DEF HeartbeatAges, Still, registry, shutdown

LEMMA StopServiceStep ==
    ASSUME TypeOK, NEW u \in Users, StopService(u)
    PROVE  TypeOK' /\ (Quiet(Main) \/ Still)
  <1>t. Main \in Tasks /\ TasksTyped(task) /\ RestTyped
    BY NamedTasks, TypeSplit
  <1>0. task[Main].pc = "stopping" /\ PcTyped(Main, "stop")
    BY <1>t, TasksAssumption DEF StopService, At, PcTyped, MainSteps
  <1>1. CASE service[u] = "used" /\ Acquire(Main) /\ TurnTo(Main, "stop", u)
    <2>1. Moved(Main, "stop", u, task[Main].client)
      BY <1>t, <1>0, <1>1, TurnToMoves
    <2>2. LockKept(Main)
      BY <1>t, <1>1, AcquireKeeps DEF RestTyped
    <2>3. RestTyped'
      BY <1>t, <2>2 DEF StopService, RestTyped, LockKept, cycle, health
    <2> QED BY <1>0, <2>1, <2>2, <2>3, TypeSplitNext
         DEF StopService, Quiet, Moved, ClosingSteps
  <1>2. CASE UNCHANGED <<lock, task>>
    <2>1. RestTyped'
      BY <1>t, <1>2 DEF StopService, RestTyped, cycle, health
    <2> QED BY <1>t, <1>2, <2>1, TypeSplitNext DEF StopService, Still, TasksTyped
  <1> QED BY <1>1, <1>2 DEF StopService

\* Quiet steps keep the registry's invariants.
Registry == StartOK /\ ClosingOK /\ CacheIsExact

LEMMA QuietKeepsRegistry ==
    ASSUME TypeOK, Registry, NEW t \in Tasks, Quiet(t)
    PROVE  Registry'
  <1>1. ASSUME NEW s \in Tasks, task'[s].pc = "start"
        PROVE  s # t /\ task'[s] = task[s] /\ Holds(s)'
    BY <1>1 DEF Quiet, LockKept, Registry, StartOK
  <1>2. StartOK'
    <2>1. \A s \in Tasks : task'[s].pc = "start" =>
            /\ Holds(s)' /\ task'[s].client \in Clients /\ state'[task'[s].client] = "starting"
            /\ task'[s].client[1] = task'[s].user /\ cached'[task'[s].user] = None
      BY <1>1 DEF Quiet, Registry, StartOK
    <2>2. \A c \in Clients : state'[c] = "starting" =>
            \E s \in Tasks : task'[s].pc = "start" /\ task'[s].client = c
      BY DEF Quiet, Registry, StartOK
    <2> QED BY <2>1, <2>2 DEF StartOK
  <1>3. ClosingOK'
    <2>1. \A s \in Tasks : task'[s].pc \in ClosingSteps => task'[s] = task[s]
      BY DEF Quiet
    <2> QED BY <2>1 DEF Quiet, Registry, ClosingOK
  <1>4. CacheIsExact'
    BY DEF Quiet, Registry, CacheIsExact
  <1> QED BY <1>2, <1>3, <1>4 DEF Registry

LEMMA StillKeepsRegistry == ASSUME Registry, Still PROVE Registry'
  BY DEF Still, Registry, StartOK, ClosingOK, CacheIsExact, Holds

-----------------------------------------------------------------------------
(* The steps that start, open or close clients.                            *)

LEMMA StartAlone ==
    ASSUME Registry, NEW t \in Tasks, Holds(t), NEW s \in Tasks, task[s].pc = "start"
    PROVE  s = t
  BY DEF Registry, StartOK, Holds

LEMMA GetClientStep ==
    ASSUME TypeOK, Registry, NEW t \in Tasks, GetClient(t)
    PROVE  TypeOK' /\ Registry'
  <1> DEFINE u == task[t].user
  <1>t. TasksTyped(task) /\ RestTyped /\ u \in Users
    BY TypedTask
  <1>0. /\ ~Ended /\ task[t].pc = "get" /\ PcTyped(t, "start") /\ Holds(t) /\ cached[u] = None
        /\ UNCHANGED <<active, lock, cached, service, cycle, health, shutdown, faults, failed>>
    BY <1>t, TypedTask, TasksAssumption
    DEF GetClient, At, PcTyped, PollerSteps, SenderSteps, MainSteps, Tasks
  <1>1. PICK n \in 1..MaxClients :
           /\ IsFresh(<<u, n>>)
           /\ state' = [state EXCEPT ![<<u, n>>] = "starting"] /\ GoWith(t, "start", <<u, n>>)
    BY DEF GetClient, NewClient
  <1> DEFINE c == <<u, n>>
  <1>2. c \in Clients /\ c[1] = u /\ c \in MaybeClient
    BY <1>t, UserHasClient DEF MaybeClient
  <1>3. Moved(t, "start", u, c)
    BY <1>t, <1>0, <1>1, <1>2, GoWithMoves
  <1>4. /\ state[c] = "closed" /\ \A s \in Tasks : task[s].client # c
        /\ state'[c] = "starting" /\ \A d \in Clients \ {c} : state'[d] = state[d]
    BY <1>t, <1>1, <1>2 DEF IsFresh, RestTyped
  <1>5. TypeOK'
    <2>1. RestTyped'
      BY <1>t, <1>0, <1>1, <1>2 DEF RestTyped, cycle, health, shutdown
    <2> QED BY <1>3, <2>1, TypeSplitNext DEF Moved
  <1>6. \A s \in Tasks : task'[s].pc = "start" => s = t
    BY <1>0, <1>3, StartAlone DEF Moved
  <1>7. StartOK'
    <2>1. \A s \in Tasks : task'[s].pc = "start" =>
            /\ Holds(s)' /\ task'[s].client \in Clients /\ state'[task'[s].client] = "starting"
            /\ task'[s].client[1] = task'[s].user /\ cached'[task'[s].user] = None
      BY <1>0, <1>2, <1>3, <1>4, <1>6 DEF Moved, Holds
    <2>2. \A d \in Clients : state'[d] = "starting" =>
            \E s \in Tasks : task'[s].pc = "start" /\ task'[s].client = d
      <3> SUFFICES ASSUME NEW d \in Clients, state'[d] = "starting"
                   PROVE  \E s \in Tasks : task'[s].pc = "start" /\ task'[s].client = d
        OBVIOUS
      <3>1. CASE d = c
        BY <1>3, <3>1 DEF Moved
      <3>2. CASE d # c
        BY <1>0, <1>4, <3>2, StartAlone DEF Registry, StartOK
      <3> QED BY <3>1, <3>2
    <2> QED BY <2>1, <2>2 DEF StartOK
  <1>8. ClosingOK'
    <2>1. \A s \in Tasks : task'[s].pc \in ClosingSteps => task'[s] = task[s]
      BY <1>3 DEF Moved, ClosingSteps
    <2>2. \A s \in Tasks : task'[s].pc \in ClosingSteps /\ task'[s].client # None =>
            state'[task'[s].client] \in {"closing", "closed"}
      <3> SUFFICES ASSUME NEW s \in Tasks, task'[s].pc \in ClosingSteps, task'[s].client # None
                   PROVE  state'[task'[s].client] \in {"closing", "closed"}
        OBVIOUS
      <3>1. task[s].client \in Clients /\ task[s].client # c
        BY <1>4, <2>1, TypedTask DEF MaybeClient
      <3> QED BY <1>4, <2>1, <3>1 DEF Registry, ClosingOK
    <2>3. \A d \in ending : d # c /\ d \in Clients
      BY <1>t, <1>4 DEF Registry, ClosingOK, RestTyped
    <2>4. \A d \in ending : state'[d] = "closing"
      BY <1>4, <2>3 DEF Registry, ClosingOK
    <2>5. ending' = ending
      BY <1>0 DEF shutdown
    <2>6. \A d \in ending : \A s \in Tasks : task'[s].client = d => task'[s].pc \notin ClosingSteps
      BY <2>1 DEF Registry, ClosingOK
    <2> QED BY <2>2, <2>4, <2>5, <2>6 DEF ClosingOK
  <1>9. CacheIsExact'
    <2>1. \A v \in Users : cached[v] # None => cached[v] # c /\ cached[v] \in Clients
      BY <1>t, <1>4 DEF Registry, CacheIsExact, RestTyped, MaybeClient
    <2> QED BY <1>0, <1>4, <2>1 DEF Registry, CacheIsExact
  <1> QED BY <1>5, <1>7, <1>8, <1>9 DEF Registry

LEMMA StartReadyStep ==
    ASSUME TypeOK, Registry, NEW t \in Tasks, StartReady(t)
    PROVE  TypeOK' /\ Registry'
  <1> DEFINE u == task[t].user
             c == task[t].client
  <1>t. TasksTyped(task) /\ RestTyped /\ u \in Users
    BY TypedTask
  <1>0. task[t].pc = "start" /\ PcTyped(t, "use")
    BY <1>t, TypedTask, TasksAssumption
    DEF StartReady, At, PcTyped, PollerSteps, SenderSteps, MainSteps, Tasks
  <1>1. c \in Clients /\ state[c] = "starting" /\ c[1] = u /\ cached[u] = None /\ Holds(t)
    BY <1>0 DEF Registry, StartOK
  <1>2. Moved(t, "use", u, c)
    BY <1>t, <1>0, GoMoves DEF StartReady
  <1>3. /\ state'[c] = "open" /\ \A d \in Clients \ {c} : state'[d] = state[d]
        /\ cached'[u] = c /\ \A v \in Users \ {u} : cached'[v] = cached[v]
    BY <1>t, <1>1 DEF StartReady, RestTyped
  <1>4. LockKept(t)
    BY <1>t, ReleaseKeeps DEF StartReady, RestTyped
  <1>5. TypeOK'
    <2>1. cached' \in [Users -> MaybeClient]
      BY <1>t, <1>1 DEF StartReady, RestTyped, MaybeClient
    <2>2. state' \in [Clients -> {"closed", "starting", "open", "closing"}]
      BY <1>t, <1>1 DEF StartReady, RestTyped
    <2>3. RestTyped'
      BY <1>t, <1>4, <2>1, <2>2, ServesTyped
      DEF StartReady, RestTyped, LockKept, cycle, health, shutdown
    <2> QED BY <1>2, <2>3, TypeSplitNext DEF Moved
  <1>6. \A s \in Tasks : task'[s].pc # "start"
    BY <1>1, <1>2, StartAlone DEF Moved
  <1>7. \A d \in Clients : state'[d] # "starting"
    BY <1>1, <1>3, StartAlone DEF Registry, StartOK
  <1>8. \A s \in Tasks : task'[s].pc \in ClosingSteps => task'[s] = task[s]
    BY <1>2 DEF Moved, ClosingSteps
  <1>9. ClosingOK'
    <2>1. \A s \in Tasks : task'[s].pc \in ClosingSteps /\ task'[s].client # None =>
            state'[task'[s].client] \in {"closing", "closed"}
      <3> SUFFICES ASSUME NEW s \in Tasks, task'[s].pc \in ClosingSteps, task'[s].client # None
                   PROVE  state'[task'[s].client] \in {"closing", "closed"}
        OBVIOUS
      <3>1. task[s].client \in Clients /\ state[task[s].client] \in {"closing", "closed"}
        BY <1>8, TypedTask DEF MaybeClient, Registry, ClosingOK
      <3> QED BY <1>1, <1>3, <1>8, <3>1
    <2>2. \A d \in ending : d # c /\ d \in Clients
      BY <1>t, <1>1 DEF Registry, ClosingOK, RestTyped
    <2>3. \A d \in ending : state'[d] = "closing"
      BY <1>3, <2>2 DEF Registry, ClosingOK
    <2>4. ending' = ending
      BY DEF StartReady, shutdown
    <2>5. \A d \in ending : \A s \in Tasks : task'[s].client = d => task'[s].pc \notin ClosingSteps
      BY <1>8 DEF Registry, ClosingOK
    <2> QED BY <2>1, <2>3, <2>4, <2>5 DEF ClosingOK
  <1>10. CacheIsExact'
    <2>1. \A d \in Clients : state'[d] = "open" => cached'[d[1]] = d
      <3> SUFFICES ASSUME NEW d \in Clients, state'[d] = "open" PROVE cached'[d[1]] = d
        OBVIOUS
      <3>1. CASE d = c
        BY <1>1, <1>3, <3>1
      <3>2. CASE d # c
        <4>1. cached[d[1]] = d
          BY <1>3, <3>2 DEF Registry, CacheIsExact
        <4>2. d[1] \in Users /\ d[1] # u
          BY <1>1, <4>1, NoneIsNoClient, ClientHasUser
        <4> QED BY <1>3, <4>1, <4>2
      <3> QED BY <3>1, <3>2
    <2>2. \A v \in Users : cached'[v] # None => state'[cached'[v]] = "open" /\ cached'[v][1] = v
      <3> SUFFICES ASSUME NEW v \in Users, cached'[v] # None
                   PROVE  state'[cached'[v]] = "open" /\ cached'[v][1] = v
        OBVIOUS
      <3>1. CASE v = u
        BY <1>1, <1>3, <3>1
      <3>2. CASE v # u
        <4>1. cached'[v] = cached[v] /\ cached[v] \in Clients
          BY <1>t, <1>3, <3>2 DEF RestTyped, MaybeClient
        <4> QED BY <1>1, <1>3, <4>1 DEF Registry, CacheIsExact
      <3> QED BY <3>1, <3>2
    <2> QED BY <2>1, <2>2 DEF CacheIsExact
  <1> QED BY <1>5, <1>6, <1>7, <1>9, <1>10 DEF Registry, StartOK

\* A client that is not running and that close_all() does not know ends.
LEMMA ClientEnds ==
    ASSUME TypeOK, Registry, NEW t \in Tasks, NEW c \in MaybeClient,
           LockKept(t), UNCHANGED <<cached, ending>>,
           state' = IF c = None THEN state ELSE [state EXCEPT ![c] = "closed"],
           task'[t].pc # "start", task'[t].pc \notin ClosingSteps,
           \A s \in Tasks \ {t} : task'[s] = task[s],
           task[t].pc = "start" => c = task[t].client,
           c # None => c \notin ending /\ state[c] # "open",
           c # None /\ state[c] = "starting" => task[t].pc = "start"
    PROVE  Registry'
  <1>t. RestTyped
    BY TypeSplit
  <1>1. /\ \A d \in Clients : d # c => state'[d] = state[d]
        /\ c # None => c \in Clients /\ state'[c] = "closed"
    BY <1>t DEF RestTyped, MaybeClient
  <1>2. \A s \in Tasks : task'[s].pc = "start" => s # t /\ task'[s] = task[s] /\ task[s].client # c
    <2> SUFFICES ASSUME NEW s \in Tasks, task'[s].pc = "start"
                 PROVE  s # t /\ task'[s] = task[s] /\ task[s].client # c
      OBVIOUS
    <2>1. s # t /\ task'[s] = task[s]
      OBVIOUS
    <2>2. /\ task[s].client \in Clients /\ state[task[s].client] = "starting"
          /\ Holds(s)
      BY <2>1 DEF Registry, StartOK
    <2>3. task[t].pc # "start"
      BY <2>1, <2>2, StartAlone
    <2> QED BY <2>1, <2>2, <2>3, NoneIsNoClient
  <1>3. StartOK'
    <2>1. \A s \in Tasks : task'[s].pc = "start" =>
            /\ Holds(s)' /\ task'[s].client \in Clients /\ state'[task'[s].client] = "starting"
            /\ task'[s].client[1] = task'[s].user /\ cached'[task'[s].user] = None
      BY <1>1, <1>2 DEF LockKept, Registry, StartOK
    <2>2. \A d \in Clients : state'[d] = "starting" =>
            \E s \in Tasks : task'[s].pc = "start" /\ task'[s].client = d
      <3> SUFFICES ASSUME NEW d \in Clients, state'[d] = "starting"
                   PROVE  \E s \in Tasks : task'[s].pc = "start" /\ task'[s].client = d
        OBVIOUS
      <3>1. d # c /\ state[d] = "starting"
        BY <1>1, NoneIsNoClient
      <3>2. PICK s \in Tasks : task[s].pc = "start" /\ task[s].client = d
        BY <3>1 DEF Registry, StartOK
      <3> QED BY <3>1, <3>2
    <2> QED BY <2>1, <2>2 DEF StartOK
  <1>4. ClosingOK'
    <2>1. \A s \in Tasks : task'[s].pc \in ClosingSteps => task'[s] = task[s]
      OBVIOUS
    <2>2. \A s \in Tasks : task'[s].pc \in ClosingSteps /\ task'[s].client # None =>
            state'[task'[s].client] \in {"closing", "closed"}
      <3> SUFFICES ASSUME NEW s \in Tasks, task'[s].pc \in ClosingSteps, task'[s].client # None
                   PROVE  state'[task'[s].client] \in {"closing", "closed"}
        OBVIOUS
      <3>1. task[s].client \in Clients /\ state[task[s].client] \in {"closing", "closed"}
        BY <2>1, TypedTask DEF MaybeClient, Registry, ClosingOK
      <3> QED BY <1>1, <2>1, <3>1
    <2>3. \A d \in ending : d \in Clients /\ state'[d] = "closing"
      BY <1>1, <1>t DEF Registry, ClosingOK, RestTyped
    <2>4. \A d \in ending : \A s \in Tasks : task'[s].client = d => task'[s].pc \notin ClosingSteps
      BY <2>1 DEF Registry, ClosingOK
    <2> QED BY <2>2, <2>3, <2>4 DEF ClosingOK
  <1>5. CacheIsExact'
    <2>1. \A d \in Clients : state'[d] = "open" => cached[d[1]] = d
      BY <1>1 DEF Registry, CacheIsExact
    <2>2. \A v \in Users : cached[v] # None => state'[cached[v]] = "open" /\ cached[v][1] = v
      <3> SUFFICES ASSUME NEW v \in Users, cached[v] # None
                   PROVE  state'[cached[v]] = "open" /\ cached[v][1] = v
        OBVIOUS
      <3>1. cached[v] \in Clients /\ state[cached[v]] = "open" /\ cached[v][1] = v
        BY <1>t DEF Registry, CacheIsExact, RestTyped, MaybeClient
      <3>2. cached[v] # c
        BY <3>1, NoneIsNoClient
      <3> QED BY <1>1, <3>1, <3>2
    <2> QED BY <2>1, <2>2 DEF CacheIsExact
  <1> QED BY <1>3, <1>4, <1>5 DEF Registry

LEMMA StartRaisesStep ==
    ASSUME TypeOK, Registry, NEW t \in Tasks, NEW refused \in BOOLEAN, StartRaises(t, refused)
    PROVE  TypeOK' /\ Registry'
  <1> DEFINE c == task[t].client
  <1>t. TasksTyped(task) /\ RestTyped
    BY TypedTask
  <1>0. task[t].pc = "start" /\ PcTyped(t, task[t].pc)
    BY TypedTask DEF StartRaises, At
  <1>1. c \in Clients /\ state[c] = "starting" /\ Holds(t) /\ c # None
    BY <1>0, NoneIsNoClient DEF Registry, StartOK
  <1>2. \E pc \in {"next", "idle"}, u \in Users : Moved(t, pc, u, None)
    <2>1. CASE t = Poller
      <3>1. PcTyped(t, "next")
        BY <2>1, TasksAssumption DEF PcTyped, PollerSteps
      <3> QED BY <1>t, <2>1, <3>1, GoWithMoves, TypedTask DEF StartRaises, MaybeClient
    <2>2. CASE t # Poller
      <3>1. PcTyped(t, "idle")
        BY <1>0, <2>2, TasksAssumption DEF PcTyped, SenderSteps, MainSteps
      <3> QED BY <1>t, <2>2, <3>1, RestMoves, AnyUserIsUser DEF StartRaises
    <2> QED BY <2>1, <2>2
  <1>3. LockKept(t)
    BY <1>t, ReleaseKeeps DEF StartRaises, RestTyped
  <1>4. hadFailure' \in BOOLEAN /\ failed' \subseteq Users
    BY <1>t, PollReturnsTyped DEF StartRaises, RestTyped
  <1>5. RestTyped'
    BY <1>t, <1>1, <1>3, <1>4, FaultTyped DEF StartRaises, RestTyped, LockKept, health, shutdown
  <1>6. TypeOK'
    BY <1>2, <1>5, TypeSplitNext DEF Moved
  <1>7. c \in MaybeClient /\ c \notin ending
    BY <1>1 DEF MaybeClient, Registry, ClosingOK
  <1>8. state' = IF c = None THEN state ELSE [state EXCEPT ![c] = "closed"]
    BY <1>1 DEF StartRaises
  <1>9. /\ task'[t].pc # "start" /\ task'[t].pc \notin ClosingSteps
        /\ \A s \in Tasks \ {t} : task'[s] = task[s]
    BY <1>2 DEF Moved, ClosingSteps
  <1>10. UNCHANGED <<cached, ending>>
    BY DEF StartRaises, shutdown
  <1>11. Registry'
    BY <1>0, <1>1, <1>3, <1>7, <1>8, <1>9, <1>10, ClientEnds
  <1> QED BY <1>6, <1>11

LEMMA CloseClientStep ==
    ASSUME TypeOK, Registry, NEW t \in Tasks, CloseClient(t)
    PROVE  TypeOK' /\ Registry'
  <1> DEFINE c == task[t].client
  <1>t. TasksTyped(task) /\ RestTyped /\ c \in MaybeClient /\ PcTyped(t, task[t].pc)
    BY TypedTask
  <1>0. task[t].pc \in ClosingSteps
    BY DEF CloseClient, IsClosing, At, Closing, ClosingSteps
  <1>1. c # None => c \in Clients /\ c \notin ending /\ state[c] \in {"closing", "closed"}
    BY <1>t, <1>0 DEF Registry, ClosingOK, MaybeClient
  <1>2. \E pc \in {"next", "dead", "stopping", "raised"}, u \in Users : Moved(t, pc, u, None)
    <2>1. CASE task[t].pc \in {"stormed", "dropped"}
      <3>1. PcTyped(t, "next") /\ PcTyped(t, "dead")
        BY <1>t, <2>1, TasksAssumption DEF PcTyped, PollerSteps, SenderSteps, MainSteps
      <3>2. GoWith(t, "next", None) \/ GoWith(t, "dead", None)
        BY <2>1 DEF CloseClient, IsClosing, At, Closing
      <3> QED BY <1>t, <3>1, <3>2, GoWithMoves, TypedTask DEF MaybeClient
    <2>2. CASE task[t].pc = "stopped"
      <3>1. PcTyped(t, "stopping") /\ PcTyped(t, "raised")
        BY <1>t, <2>2, TasksAssumption DEF PcTyped, PollerSteps, SenderSteps, MainSteps
      <3>2. Rest(t, "stopping") \/ Rest(t, "raised")
        BY <2>2 DEF CloseClient, IsClosing, At, Closing
      <3> QED BY <1>t, <3>1, <3>2, RestMoves, AnyUserIsUser
    <2> QED BY <1>0, <2>1, <2>2 DEF ClosingSteps
  <1>3. LockKept(t)
    BY <1>t, SameLockKeeps DEF CloseClient, RestTyped
  <1>4. hadFailure' \in BOOLEAN /\ failed' \subseteq Users
    BY <1>t, PollReturnsTyped DEF CloseClient, RestTyped
  <1>5. RestTyped'
    BY <1>t, <1>1, <1>3, <1>4 DEF CloseClient, RestTyped, LockKept, health, shutdown
  <1>6. TypeOK'
    BY <1>2, <1>5, TypeSplitNext DEF Moved
  <1>7. /\ task'[t].pc # "start" /\ task'[t].pc \notin ClosingSteps
        /\ \A s \in Tasks \ {t} : task'[s] = task[s]
    BY <1>2 DEF Moved, ClosingSteps
  <1>8. /\ UNCHANGED <<cached, ending>>
        /\ state' = IF c = None THEN state ELSE [state EXCEPT ![c] = "closed"]
    BY DEF CloseClient, shutdown
  <1>9. task[t].pc # "start"
    BY <1>0 DEF ClosingSteps
  <1>10. Registry'
    BY <1>t, <1>1, <1>3, <1>7, <1>8, <1>9, ClientEnds
  <1> QED BY <1>6, <1>10

LEMMA CloseUserStep ==
    ASSUME TypeOK, Registry, NEW t \in Tasks, CloseUser(t)
    PROVE  TypeOK' /\ Registry'
  <1> DEFINE u == task[t].user
             c == cached[task[t].user]
  <1>t. TasksTyped(task) /\ RestTyped /\ u \in Users /\ c \in MaybeClient /\ PcTyped(t, task[t].pc)
    BY TypedTask
  <1>0. PICK pc \in DOMAIN Closing :
          /\ task[t].pc = pc /\ Holds(t) /\ Release(t) /\ GoWith(t, Closing[pc], c)
          /\ cached' = [cached EXCEPT ![u] = None]
          /\ state' = IF c = None THEN state ELSE [state EXCEPT ![c] = "closing"]
          /\ UNCHANGED <<active, service, cycle, health, shutdown, faults, failed>>
    BY DEF CloseUser, At
  <1>1. /\ pc \in {"storm", "drop", "stop"} /\ Closing[pc] \in ClosingSteps
        /\ PcTyped(t, Closing[pc])
    BY <1>t, <1>0, TasksAssumption
    DEF Closing, ClosingSteps, PcTyped, PollerSteps, SenderSteps, MainSteps
  <1>2. c # None => c \in Clients /\ state[c] = "open" /\ c[1] = u
    BY <1>t DEF Registry, CacheIsExact, MaybeClient
  <1>3. Moved(t, Closing[pc], u, c)
    BY <1>t, <1>0, <1>1, GoWithMoves
  <1>4. /\ \A d \in Clients : d # c => state'[d] = state[d]
        /\ c # None => state'[c] = "closing"
        /\ cached'[u] = None /\ \A v \in Users \ {u} : cached'[v] = cached[v]
    BY <1>t, <1>0, <1>2 DEF RestTyped
  <1>5. TypeOK'
    <2>1. lock' \in Seq(Tasks)
      BY <1>t, <1>0, ReleaseKeeps DEF RestTyped, LockKept
    <2>2. cached' \in [Users -> MaybeClient]
      BY <1>t, <1>0 DEF RestTyped, MaybeClient
    <2>3. state' \in [Clients -> {"closed", "starting", "open", "closing"}]
      BY <1>t, <1>0, <1>2 DEF RestTyped
    <2>4. RestTyped'
      BY <1>t, <1>0, <2>1, <2>2, <2>3 DEF RestTyped, cycle, health, shutdown
    <2> QED BY <1>3, <2>4, TypeSplitNext DEF Moved
  <1>6. \A s \in Tasks : task'[s].pc # "start"
    <2>1. \A s \in Tasks : task[s].pc = "start" => s = t
      BY <1>0, StartAlone
    <2> QED BY <1>1, <1>3, <2>1 DEF Moved, ClosingSteps
  <1>7. \A d \in Clients : state'[d] # "starting"
    <2>1. \A d \in Clients : state[d] # "starting"
      BY <1>0, <1>1, StartAlone DEF Registry, StartOK
    <2> QED BY <1>4, <2>1, NoneIsNoClient
  <1>8. ClosingOK'
    <2>1. \A s \in Tasks : task'[s].pc \in ClosingSteps /\ task'[s].client # None =>
            state'[task'[s].client] \in {"closing", "closed"}
      <3> SUFFICES ASSUME NEW s \in Tasks, task'[s].pc \in ClosingSteps, task'[s].client # None
                   PROVE  state'[task'[s].client] \in {"closing", "closed"}
        OBVIOUS
      <3>1. CASE s = t
        BY <1>3, <1>4, <3>1 DEF Moved
      <3>2. CASE s # t
        <4>1. task'[s] = task[s]
          BY <1>3, <3>2 DEF Moved
        <4>2. task[s].client \in Clients /\ state[task[s].client] \in {"closing", "closed"}
          BY <4>1, TypedTask DEF MaybeClient, Registry, ClosingOK
        <4>3. task[s].client # c
          BY <1>2, <4>2, NoneIsNoClient
        <4> QED BY <1>4, <4>1, <4>2, <4>3
      <3> QED BY <3>1, <3>2
    <2>2. \A d \in ending : d \in Clients /\ state[d] = "closing" /\ d # c
      BY <1>t, <1>2, NoneIsNoClient DEF Registry, ClosingOK, RestTyped
    <2>3. \A d \in ending : state'[d] = "closing"
      BY <1>4, <2>2
    <2>4. \A d \in ending : \A s \in Tasks : task'[s].client = d => task'[s].pc \notin ClosingSteps
      <3> SUFFICES ASSUME NEW d \in ending, NEW s \in Tasks, task'[s].client = d
                   PROVE  task'[s].pc \notin ClosingSteps
        OBVIOUS
      <3>1. s # t
        BY <1>3, <2>2 DEF Moved
      <3>2. task'[s] = task[s]
        BY <1>3, <3>1 DEF Moved
      <3> QED BY <3>2 DEF Registry, ClosingOK
    <2>5. ending' = ending
      BY <1>0 DEF shutdown
    <2> QED BY <2>1, <2>3, <2>4, <2>5 DEF ClosingOK
  <1>9. CacheIsExact'
    <2>1. \A d \in Clients : state'[d] = "open" => cached'[d[1]] = d
      <3> SUFFICES ASSUME NEW d \in Clients, state'[d] = "open" PROVE cached'[d[1]] = d
        OBVIOUS
      <3>1. d # c /\ state[d] = "open"
        BY <1>4, NoneIsNoClient
      <3>2. cached[d[1]] = d
        BY <3>1 DEF Registry, CacheIsExact
      <3>3. d[1] \in Users /\ d[1] # u
        BY <3>1, <3>2, ClientHasUser
      <3> QED BY <1>4, <3>2, <3>3
    <2>2. \A v \in Users : cached'[v] # None => state'[cached'[v]] = "open" /\ cached'[v][1] = v
      <3> SUFFICES ASSUME NEW v \in Users, cached'[v] # None
                   PROVE  state'[cached'[v]] = "open" /\ cached'[v][1] = v
        OBVIOUS
      <3>1. v # u /\ cached'[v] = cached[v]
        BY <1>4
      <3>2. cached[v] \in Clients /\ state[cached[v]] = "open" /\ cached[v][1] = v
        BY <1>t, <3>1 DEF Registry, CacheIsExact, RestTyped, MaybeClient
      <3>3. cached[v] # c
        BY <1>2, <3>1, <3>2, NoneIsNoClient
      <3> QED BY <1>4, <3>1, <3>2, <3>3
    <2> QED BY <2>1, <2>2 DEF CacheIsExact
  <1> QED BY <1>5, <1>6, <1>7, <1>8, <1>9 DEF Registry, StartOK

LEMMA CloseAllStep ==
    ASSUME TypeOK, Registry, CloseAll
    PROVE  TypeOK' /\ Registry'
  <1>t. TasksTyped(task) /\ RestTyped /\ Main \in Tasks
    BY TypedTask, NamedTasks
  <1>0. task[Main].pc = "closeAll" /\ Holds(Main) /\ PcTyped(Main, "closingAll")
    BY TasksAssumption DEF CloseAll, At, PcTyped, MainSteps
  <1>1. Moved(Main, "closingAll", task[Main].user, task[Main].client)
    BY <1>t, <1>0, GoMoves DEF CloseAll
  <1>2. /\ ending' \subseteq Clients
        /\ \A d \in ending' : state[d] = "open"
        /\ \A d \in Clients : state[d] = "open" => d \in ending'
    <2>1. \A v \in Users : cached[v] # None => cached[v] \in Clients /\ state[cached[v]] = "open"
      BY <1>t DEF Registry, CacheIsExact, RestTyped, MaybeClient
    <2>2. \A d \in Clients : state[d] = "open" => d[1] \in Users /\ cached[d[1]] = d /\ d # None
      BY ClientHasUser, NoneIsNoClient DEF Registry, CacheIsExact
    <2> QED BY <2>1, <2>2 DEF CloseAll
  <1>3. \A d \in Clients : state'[d] = IF d \in ending' THEN "closing" ELSE state[d]
    BY DEF CloseAll
  <1>4. TypeOK'
    <2>1. lock' \in Seq(Tasks)
      BY <1>t, ReleaseKeeps DEF CloseAll, RestTyped, LockKept
    <2>2. cached' \in [Users -> MaybeClient]
      BY DEF CloseAll, MaybeClient
    <2>3. state' \in [Clients -> {"closed", "starting", "open", "closing"}]
      BY <1>t DEF CloseAll, RestTyped
    <2>4. RestTyped'
      BY <1>t, <1>2, <2>1, <2>2, <2>3 DEF CloseAll, RestTyped, cycle, health
    <2> QED BY <1>1, <2>4, TypeSplitNext DEF Moved
  <1>5. \A s \in Tasks : task[s].pc # "start"
    BY <1>t, <1>0, StartAlone
  <1>6. StartOK'
    <2>1. \A s \in Tasks : task'[s].pc # "start"
      BY <1>1, <1>5 DEF Moved
    <2>2. \A d \in Clients : state'[d] # "starting"
      BY <1>3, <1>5 DEF Registry, StartOK
    <2> QED BY <2>1, <2>2 DEF StartOK
  <1>7. ClosingOK'
    <2>1. \A s \in Tasks : task'[s].pc \in ClosingSteps =>
            /\ task'[s] = task[s]
            /\ task[s].client # None => /\ task[s].client \in Clients
                                        /\ state[task[s].client] \in {"closing", "closed"}
      <3>1. \A s \in Tasks : task'[s].pc \in ClosingSteps => task'[s] = task[s]
        BY <1>1 DEF Moved, ClosingSteps
      <3> QED BY <3>1, TypedTask DEF MaybeClient, Registry, ClosingOK
    <2>2. \A s \in Tasks : task'[s].pc \in ClosingSteps /\ task'[s].client # None =>
            state'[task'[s].client] \in {"closing", "closed"}
      BY <1>3, <2>1
    <2>3. \A d \in ending' : state'[d] = "closing"
      BY <1>2, <1>3
    <2>4. \A d \in ending' : \A s \in Tasks : task'[s].client = d => task'[s].pc \notin ClosingSteps
      BY <1>2, <2>1, NoneIsNoClient
    <2> QED BY <2>2, <2>3, <2>4 DEF ClosingOK
  <1>8. CacheIsExact'
    <2>1. \A d \in Clients : state'[d] # "open"
      BY <1>2, <1>3
    <2>2. \A v \in Users : cached'[v] = None
      BY DEF CloseAll
    <2> QED BY <2>1, <2>2 DEF CacheIsExact
  <1> QED BY <1>4, <1>6, <1>7, <1>8 DEF Registry

LEMMA CloseNextStep ==
    ASSUME TypeOK, Registry, NEW c \in Clients, CloseNext(c)
    PROVE  TypeOK' /\ Registry'
  <1>t. TasksTyped(task) /\ RestTyped /\ Main \in Tasks
    BY TypedTask, NamedTasks
  <1>0. task[Main].pc = "closingAll" /\ PcTyped(Main, "raised") /\ PcTyped(Main, "closingAll")
    BY TasksAssumption DEF CloseNext, At, PcTyped, MainSteps
  <1>1. /\ TasksTyped(task') /\ task'[Main].pc \in {"raised", "closingAll"}
        /\ \A s \in Tasks \ {Main} : task'[s] = task[s]
    BY <1>t, <1>0, GoMoves DEF CloseNext, Moved
  <1>2. state[c] = "closing" /\ c \in ending /\ ending' = ending \ {c}
    BY DEF CloseNext, Registry, ClosingOK
  <1>3. state'[c] = "closed" /\ \A d \in Clients \ {c} : state'[d] = state[d]
    BY <1>t DEF CloseNext, RestTyped
  <1>4. RestTyped'
    BY <1>t DEF CloseNext, RestTyped, cycle, health
  <1>5. TypeOK'
    BY <1>1, <1>4, TypeSplitNext
  <1>6. \A s \in Tasks : task'[s].pc \in ClosingSteps \cup {"start"} => task'[s] = task[s]
    BY <1>1 DEF ClosingSteps
  <1>7. StartOK'
    <2>1. \A s \in Tasks : task'[s].pc = "start" =>
            /\ Holds(s)' /\ task'[s].client \in Clients /\ state'[task'[s].client] = "starting"
            /\ task'[s].client[1] = task'[s].user /\ cached'[task'[s].user] = None
      BY <1>2, <1>3, <1>6 DEF CloseNext, Holds, Registry, StartOK
    <2>2. \A d \in Clients : state'[d] = "starting" =>
            \E s \in Tasks : task'[s].pc = "start" /\ task'[s].client = d
      <3> SUFFICES ASSUME NEW d \in Clients, state'[d] = "starting"
                   PROVE  \E s \in Tasks : task'[s].pc = "start" /\ task'[s].client = d
        OBVIOUS
      <3>1. PICK s \in Tasks : task[s].pc = "start" /\ task[s].client = d
        BY <1>3 DEF Registry, StartOK
      <3>2. s # Main
        BY <1>0, <3>1
      <3> QED BY <1>1, <3>1, <3>2
    <2> QED BY <2>1, <2>2 DEF StartOK
  <1>8. ClosingOK'
    <2>1. \A s \in Tasks : task'[s].pc \in ClosingSteps /\ task'[s].client # None =>
            state'[task'[s].client] \in {"closing", "closed"}
      <3> SUFFICES ASSUME NEW s \in Tasks, task'[s].pc \in ClosingSteps, task'[s].client # None
                   PROVE  state'[task'[s].client] \in {"closing", "closed"}
        OBVIOUS
      <3>1. task[s].client \in Clients /\ state[task[s].client] \in {"closing", "closed"}
        BY <1>6, TypedTask DEF MaybeClient, Registry, ClosingOK
      <3> QED BY <1>3, <1>6, <3>1
    <2>2. \A d \in ending' : d \in Clients /\ state'[d] = "closing"
      BY <1>t, <1>2, <1>3 DEF Registry, ClosingOK, RestTyped
    <2>3. \A d \in ending' : \A s \in Tasks : task'[s].client = d => task'[s].pc \notin ClosingSteps
      BY <1>2, <1>6 DEF Registry, ClosingOK
    <2> QED BY <2>1, <2>2, <2>3 DEF ClosingOK
  <1>9. CacheIsExact'
    <2>1. \A d \in Clients : state'[d] = "open" => cached[d[1]] = d
      BY <1>3 DEF Registry, CacheIsExact
    <2>2. \A v \in Users : cached[v] # None => state'[cached[v]] = "open" /\ cached[v][1] = v
      <3> SUFFICES ASSUME NEW v \in Users, cached[v] # None
                   PROVE  state'[cached[v]] = "open" /\ cached[v][1] = v
        OBVIOUS
      <3>1. cached[v] \in Clients /\ state[cached[v]] = "open" /\ cached[v][1] = v
        BY <1>t DEF Registry, CacheIsExact, RestTyped, MaybeClient
      <3> QED BY <1>2, <1>3, <3>1
    <2> QED BY <2>1, <2>2 DEF CacheIsExact, CloseNext
  <1> QED BY <1>5, <1>7, <1>8, <1>9 DEF Registry

-----------------------------------------------------------------------------
(* Every step, and the registry's theorems.                                *)

LEMMA LocalStep ==
    ASSUME TypeOK, Registry, NEW t \in Tasks, Local(t)
    PROVE  TypeOK' /\ Registry'
  <1>1. CASE GetCachedClient(t)
    BY <1>1, GetCachedClientQuiet, QuietKeepsRegistry
  <1>2. CASE GetClient(t)
    BY <1>2, GetClientStep
  <1>3. CASE CloseUser(t)
    BY <1>3, CloseUserStep
  <1>4. CASE CloseClient(t)
    BY <1>4, CloseClientStep
  <1> QED BY <1>1, <1>2, <1>3, <1>4 DEF Local

LEMMA WaitingStep ==
    ASSUME TypeOK, Registry, NEW t \in Tasks, Waiting(t)
    PROVE  TypeOK' /\ Registry'
  BY StartReadyStep, StartRaisesStep DEF Waiting

LEMMA Worklists ==
    ASSUME TypeOK
    PROVE  todo \subseteq Users /\ left \subseteq Users /\ ending \subseteq Clients
  BY DEF TypeOK

LEMMA RegistryStep ==
    ASSUME TypeOK, Registry, [Next]_vars
    PROVE  TypeOK' /\ Registry'
  <1>t. Poller \in Tasks /\ Main \in Tasks /\ Senders \subseteq Tasks
    BY NamedTasks
  <1>1. CASE LocalPoller
    <2>1. CASE Local(Poller)
      BY <1>t, <2>1, LocalStep
    <2>2. CASE PollOnce
      BY <1>t, <2>2, PollOnceQuiet, QuietKeepsRegistry
    <2>3. CASE EndCycle
      BY <1>t, <2>3, EndCycleQuiet, QuietKeepsRegistry
    <2>4. CASE PollChats
      BY <1>t, <2>4, PollChatsQuiet, QuietKeepsRegistry
    <2>5. CASE \E u \in Users : PollUser(u)
      BY <1>t, <2>5, PollUserQuiet, QuietKeepsRegistry
    <2> QED BY <1>1, <2>1, <2>2, <2>3, <2>4, <2>5, Worklists DEF LocalPoller
  <1>2. CASE LocalMain
    <2>1. CASE Local(Main)
      BY <1>t, <2>1, LocalStep
    <2>2. CASE StopRaises
      BY <1>t, <2>2, StopRaisesQuiet, QuietKeepsRegistry
    <2>3. CASE StopEnds
      BY <1>t, <2>3, StopEndsQuiet, QuietKeepsRegistry
    <2>4. CASE CloseAll
      BY <2>4, CloseAllStep
    <2>5. CASE MainEnds
      BY <1>t, <2>5, MainEndsQuiet, QuietKeepsRegistry
    <2>6. CASE \E u \in Users : StopService(u)
      BY <1>t, <2>6, StopServiceStep, QuietKeepsRegistry, StillKeepsRegistry
    <2>7. CASE \E c \in Clients : CloseNext(c)
      BY <2>7, CloseNextStep
    <2> QED BY <1>2, <2>1, <2>2, <2>3, <2>4, <2>5, <2>6, <2>7, Worklists DEF LocalMain
  <1>3. CASE \E t \in Senders : Local(t) \/ MarkChatDirty(t)
    BY <1>t, <1>3, LocalStep, MarkChatDirtyQuiet, QuietKeepsRegistry
  <1>4. CASE HeartbeatAges
    BY <1>4, HeartbeatAgesStill, StillKeepsRegistry
  <1>5. CASE Environment
    <2>1. CASE \E t \in Tasks : Waiting(t)
      BY <2>1, WaitingStep
    <2>2. CASE ServeUser
      BY <1>t, <2>2, ServeUserQuiet, QuietKeepsRegistry
    <2>3. CASE DropUser
      BY <1>t, <2>3, DropUserQuiet, QuietKeepsRegistry
    <2>4. CASE PollMessages
      BY <1>t, <2>4, PollMessagesQuiet, QuietKeepsRegistry
    <2>5. CASE Stop
      BY <1>t, <2>5, StopQuiet, QuietKeepsRegistry
    <2>6. ASSUME NEW t \in Senders, SendMessage(t) \/ SendRaises(t)
          PROVE  TypeOK' /\ Registry'
      BY <1>t, <2>6, SendMessageQuiet, SendRaisesQuiet, QuietKeepsRegistry
    <2>7. ASSUME NEW t \in Senders, NEW u \in Users, Deliver(t, u)
          PROVE  TypeOK' /\ Registry'
      BY <1>t, <2>7, DeliverQuiet, QuietKeepsRegistry
    <2>8. CASE \E u \in Users : BindingChanges(u)
      BY <2>8, BindingChangesStill, StillKeepsRegistry
    <2> QED BY <1>5, <2>1, <2>2, <2>3, <2>4, <2>5, <2>6, <2>7, <2>8 DEF Environment
  <1>6. CASE UNCHANGED vars
    <2>1. RestTyped' /\ TasksTyped(task') /\ Still
      BY <1>6, TypeSplit
      DEF vars, registry, cycle, health, shutdown, RestTyped, TasksTyped, Still
    <2> QED BY <2>1, TypeSplitNext, StillKeepsRegistry
  <1> QED BY <1>1, <1>2, <1>3, <1>4, <1>5, <1>6 DEF Next

LEMMA RegistryInit == Init => TypeOK /\ Registry
  <1> SUFFICES ASSUME Init PROVE TypeOK /\ Registry
    OBVIOUS
  <1>1. \A pc \in Steps : Resting(pc) \in TaskRecord
    BY AnyUserIsUser DEF Resting, TaskRecord, MaybeClient
  <1>2. \A t \in Tasks : /\ task[t] \in TaskRecord
                         /\ task[t].pc = (CASE t = Poller -> "sleep" [] t = Main -> "run"
                                            [] OTHER -> "idle")
    BY <1>1 DEF Init, Resting, Steps, PollerSteps, SenderSteps, MainSteps
  <1>3. TasksTyped(task)
    <2>1. task \in [Tasks -> TaskRecord]
      BY <1>2 DEF Init
    <2>2. task[Poller].pc = "sleep" /\ task[Main].pc = "run" /\ \A t \in Senders : task[t].pc = "idle"
      BY <1>2, NamedTasks, TasksAssumption
    <2> QED BY <2>1, <2>2 DEF TasksTyped, PollerSteps, SenderSteps, MainSteps
  <1>4. RestTyped
    <2>1. lock \in Seq(Tasks)
      BY DEF Init
    <2>2. /\ cached \in [Users -> MaybeClient]
          /\ service \in [Users -> {"none", "new", "used"}]
      BY DEF Init, MaybeClient
    <2>3. state \in [Clients -> {"closed", "starting", "open", "closing"}]
      BY DEF Init
    <2> QED BY <2>1, <2>2, <2>3 DEF Init, RestTyped
  <1>5. TypeOK
    BY <1>3, <1>4, TypeSplit
  <1>6. Registry
    <2>1. \A t \in Tasks : task[t].pc # "start" /\ task[t].pc \notin ClosingSteps
      BY <1>2, TasksAssumption DEF ClosingSteps
    <2> QED BY <2>1 DEF Init, Registry, StartOK, ClosingOK, CacheIsExact
  <1> QED BY <1>5, <1>6

\* The registry's invariant: who starts a client holds the lock, what is about to be
\* closed has left the registry, and the registry is exact (get_client, close_user).
THEOREM RegistryInductive == Spec => [](TypeOK /\ Registry)
  <1>1. Init => TypeOK /\ Registry
    BY RegistryInit
  <1>2. TypeOK /\ Registry /\ [Next]_vars => TypeOK' /\ Registry'
    BY RegistryStep
  <1> QED BY <1>1, <1>2, PTL DEF Spec

\* Every variable keeps its type and every task stays in its own program, with any
\* number of users, handlers and clients.
THEOREM TypeCorrect == Spec => []TypeOK
  BY RegistryInductive, PTL

\* The registry knows every running client and hands out no other.
THEOREM CacheExact == Spec => []CacheIsExact
  <1>1. TypeOK /\ Registry => CacheIsExact
    BY DEF Registry
  <1> QED BY <1>1, RegistryInductive, PTL

-----------------------------------------------------------------------------
(* The marker tells of every failed poll.                                  *)

\* Between users, within the visit of one, or at rest.
Outside == {"sleep", "begin", "next"}

\* No part of the cycle changes.
CycleKept ==
    /\ UNCHANGED <<failed, marker, hadFailure, todo, active>>
    /\ Running' => Running
    /\ task'[Poller].user = task[Poller].user
    /\ \/ task'[Poller].pc = task[Poller].pc
       \/ task[Poller].pc \notin Outside /\ task'[Poller].pc \notin Outside

LEMMA CycleKeptStep == ASSUME HealthOK, CycleKept PROVE HealthOK'
  <1>1. /\ failed' = failed /\ marker' = marker /\ hadFailure' = hadFailure
        /\ todo' = todo /\ active' = active
        /\ Running' => Running
    BY DEF CycleKept
  <1>2. /\ task'[Poller].pc = "sleep" <=> task[Poller].pc = "sleep"
        /\ task'[Poller].pc \in {"begin", "next"} <=> task[Poller].pc \in {"begin", "next"}
        /\ task'[Poller].user = task[Poller].user
    BY DEF CycleKept, Outside
  <1>3. failed' \subseteq active'
    BY <1>1 DEF HealthOK
  <1>4. Running' /\ task'[Poller].pc = "sleep" /\ failed' # {} => marker'
    BY <1>1, <1>2 DEF HealthOK
  <1>5. ASSUME Running', task'[Poller].pc # "sleep", ~hadFailure', NEW v \in failed'
        PROVE  v \in todo' \/ (task'[Poller].pc \notin {"begin", "next"}
                               /\ task'[Poller].user = v)
    BY <1>1, <1>2, <1>5 DEF HealthOK
  <1>6. FailureShows'
    BY <1>1 DEF HealthOK, FailureShows
  <1> QED BY <1>3, <1>4, <1>5, <1>6 DEF HealthOK

LEMMA MainGoesOn ==
    ASSUME TypeOK, NEW t \in Tasks, \A s \in Tasks \ {t} : task'[s] = task[s],
           t = Main => (task'[t].pc = "run" => task[t].pc = "run")
    PROVE  Running' => Running
  BY NamedTasks DEF Running

\* The poll of the visited user returns.
LEMMA PollReturnsHealth ==
    ASSUME TypeOK, HealthOK, NEW ok \in BOOLEAN, PollReturns(ok), UNCHANGED marker,
           task[Poller].pc \notin Outside, task'[Poller].pc = "next",
           UNCHANGED <<active, todo>>, Running' => Running
    PROVE  HealthOK'
  <1> DEFINE u == task[Poller].user
  <1>1. failed' \subseteq active'
    BY DEF HealthOK, PollReturns
  <1>2. ASSUME Running', ~hadFailure', NEW v \in failed' PROVE v \in todo'
    <2>1. ok /\ ~hadFailure /\ failed' = failed \ {u}
      BY <1>2 DEF PollReturns
    <2>2. v \in failed /\ v # u
      BY <1>2, <2>1
    <2> QED BY <1>2, <2>1, <2>2 DEF HealthOK, Outside
  <1>3. FailureShows'
    BY TypeSplit DEF HealthOK, FailureShows, PollReturns, RestTyped
  <1> QED BY <1>1, <1>2, <1>3 DEF HealthOK, Outside

\* A task other than the poller, or the poller within a visit.
LEMMA LocalHealth ==
    ASSUME TypeOK, Registry, HealthOK, NEW t \in Tasks, Local(t) \/ Waiting(t)
    PROVE  HealthOK'
  <1>t. TasksTyped(task) /\ RestTyped /\ PcTyped(t, task[t].pc) /\ Poller \in Tasks
    BY TypedTask, NamedTasks
  <1> DEFINE Inside == {"get", "start", "storm", "drop", "stop"} \cup ClosingSteps
  <1>1. task[t].pc \in Inside
    BY DEF Local, Waiting, GetCachedClient, GetClient, StartReady, StartRaises, CloseUser,
           CloseClient, IsClosing, At, Closing, ClosingSteps
  <1>2. UNCHANGED <<active, todo, marker>>
    BY DEF Local, Waiting, GetCachedClient, GetClient, StartReady, StartRaises, CloseUser,
           CloseClient, cycle, health
  <1>3. \/ /\ \E ok \in BOOLEAN : PollReturns(ok)
           /\ t = Poller /\ GoWith(t, "next", None)
        \/ /\ UNCHANGED <<hadFailure, failed>>
           /\ \/ \E pc \in {"use", "start", "dead"} \cup ClosingSteps, c \in MaybeClient :
                   /\ GoWith(t, pc, c) /\ PcTyped(t, pc)
              \/ Go(t, "use") /\ PcTyped(t, "use")
              \/ t # Poller /\ \E pc \in {"idle", "stopping", "raised"} : Rest(t, pc) /\ PcTyped(t, pc)
    <2>1. CASE GetCachedClient(t)
      <3>1. PcTyped(t, "use")
        BY <1>t, <2>1, TasksAssumption
        DEF GetCachedClient, At, PcTyped, PollerSteps, SenderSteps, MainSteps
      <3> QED BY <2>1, <3>1, TypedTask DEF GetCachedClient, cycle
    <2>2. CASE GetClient(t)
      <3>1. PcTyped(t, "start")
        BY <1>t, <2>2, TasksAssumption
        DEF GetClient, At, PcTyped, PollerSteps, SenderSteps, MainSteps
      <3>2. \A n \in 1..MaxClients : <<task[t].user, n>> \in MaybeClient
        BY TypedTask, UserHasClient DEF MaybeClient
      <3> QED BY <2>2, <3>1, <3>2 DEF GetClient, cycle
    <2>3. CASE StartReady(t)
      <3>1. PcTyped(t, "use")
        BY <1>t, <2>3, TasksAssumption
        DEF StartReady, At, PcTyped, PollerSteps, SenderSteps, MainSteps
      <3> QED BY <2>3, <3>1 DEF StartReady, cycle
    <2>4. CASE \E refused \in BOOLEAN : StartRaises(t, refused)
      <3>1. t # Poller => PcTyped(t, "idle")
        BY <1>t, <2>4, TasksAssumption
        DEF StartRaises, At, PcTyped, PollerSteps, SenderSteps, MainSteps
      <3> QED BY <2>4, <3>1 DEF StartRaises
    <2>5. CASE CloseUser(t)
      <3>1. PICK pc \in DOMAIN Closing :
               task[t].pc = pc /\ GoWith(t, Closing[pc], cached[task[t].user])
        BY <2>5 DEF CloseUser, At
      <3>2. Closing[pc] \in ClosingSteps /\ PcTyped(t, Closing[pc])
        BY <1>t, <3>1, TasksAssumption
        DEF Closing, ClosingSteps, PcTyped, PollerSteps, SenderSteps, MainSteps
      <3> QED BY <2>5, <3>1, <3>2, TypedTask DEF CloseUser, cycle
    <2>6. CASE CloseClient(t)
      <3>1. task[t].pc \in {"stormed", "dropped"} => t = Poller /\ PcTyped(t, "dead")
        BY <1>t, TasksAssumption DEF PcTyped, SenderSteps, MainSteps, PollerSteps, Tasks
      <3>2. task[t].pc = "stopped" => t # Poller /\ PcTyped(t, "stopping") /\ PcTyped(t, "raised")
        BY <1>t, TasksAssumption DEF PcTyped, SenderSteps, MainSteps, PollerSteps, Tasks
      <3> QED BY <2>6, <3>1, <3>2 DEF CloseClient, IsClosing, At, Closing, MaybeClient
    <2> QED BY <2>1, <2>2, <2>3, <2>4, <2>5, <2>6 DEF Local, Waiting
  <1>4. CASE t = Poller /\ GoWith(t, "next", None) /\ \E ok \in BOOLEAN : PollReturns(ok)
    <2>1. Moved(Poller, "next", task[Poller].user, None)
      BY <1>t, <1>4, GoWithMoves, TasksAssumption DEF MaybeClient, PcTyped, PollerSteps
    <2>2. Running' => Running
      BY <2>1, MainGoesOn, <1>t, TasksAssumption DEF Moved
    <2> QED BY <1>1, <1>2, <1>4, <2>1, <2>2, PollReturnsHealth DEF Moved, Outside, ClosingSteps
  <1>5. ASSUME UNCHANGED <<hadFailure, failed>>,
               NEW pc \in {"use", "start", "dead", "idle", "stopping", "raised"} \cup ClosingSteps,
               NEW u \in Users, NEW c \in MaybeClient, Moved(t, pc, u, c),
               t = Poller => u = task[t].user
        PROVE  HealthOK'
    <2>1. Running' => Running
      BY <1>t, <1>5, MainGoesOn DEF Moved, ClosingSteps
    <2>2. CASE t = Poller
      BY <1>1, <1>2, <1>5, <2>1, <2>2, CycleKeptStep DEF CycleKept, Moved, Outside, ClosingSteps
    <2>3. CASE t # Poller
      BY <1>t, <1>2, <1>5, <2>1, <2>3, CycleKeptStep DEF CycleKept, Moved
    <2> QED BY <2>2, <2>3
  <1>6. CASE UNCHANGED <<hadFailure, failed>>
    <2>1. ASSUME NEW pc \in {"use", "start", "dead"} \cup ClosingSteps, NEW c \in MaybeClient,
                 GoWith(t, pc, c), PcTyped(t, pc)
          PROVE  HealthOK'
      BY <1>t, <1>5, <1>6, <2>1, GoWithMoves, TypedTask
    <2>2. CASE Go(t, "use") /\ PcTyped(t, "use")
      BY <1>t, <1>5, <1>6, <2>2, GoMoves, TypedTask
    <2>3. ASSUME t # Poller, NEW pc \in {"idle", "stopping", "raised"}, Rest(t, pc), PcTyped(t, pc)
          PROVE  HealthOK'
      <3>1. Moved(t, pc, AnyUser, None)
        BY <1>t, <2>3, RestMoves
      <3> QED BY <1>5, <1>6, <2>3, <3>1, AnyUserIsUser DEF MaybeClient
    <2>4. CASE t = Poller /\ GoWith(t, "next", None) /\ \E ok \in BOOLEAN : PollReturns(ok)
      BY <1>4, <2>4
    <2> QED BY <1>3, <2>1, <2>2, <2>3, <2>4
  <1> QED BY <1>3, <1>4, <1>6

\* The poller's own steps between the calls that wait for MAX.
LEMMA PollerHealth ==
    ASSUME TypeOK, HealthOK,
           PollOnce \/ EndCycle \/ PollChats \/ (\E u \in Users : PollUser(u))
             \/ ServeUser \/ DropUser \/ PollMessages
    PROVE  HealthOK'
  <1>t. TasksTyped(task) /\ RestTyped /\ Poller \in Tasks
    BY TypeSplit, NamedTasks
  <1>p. \A pc \in PollerSteps : PcTyped(Poller, pc)
    BY TasksAssumption DEF PcTyped
  <1>g. ASSUME NEW pc \in PollerSteps, Go(Poller, pc) \/ GoWith(Poller, pc, None)
        PROVE  /\ task'[Poller].pc = pc /\ task'[Poller].user = task[Poller].user
               /\ Running' => Running
    <2>1. \E c \in MaybeClient : Moved(Poller, pc, task[Poller].user, c)
      BY <1>t, <1>p, <1>g, GoMoves, GoWithMoves, TypedTask DEF MaybeClient
    <2> QED BY <1>t, <2>1, MainGoesOn, TasksAssumption DEF Moved
  <1>1. CASE PollOnce
    <2>1. CASE Go(Poller, "begin") /\ todo' = active /\ hadFailure' = FALSE
      <3>1. task'[Poller].pc = "begin"
        BY <1>g, <2>1 DEF PollerSteps
      <3>2. failed' = failed /\ active' = active
        BY <1>1 DEF PollOnce
      <3>3. marker' = marker /\ Running /\ task[Poller].pc = "sleep"
        BY <1>1, <2>1, <1>g DEF PollOnce, At, health, PollerSteps
      <3> QED BY <2>1, <3>1, <3>2, <3>3 DEF HealthOK, FailureShows
    <2>2. CASE Go(Poller, "ended") /\ ~Running
      <3>1. Running' => Running
        BY <1>g, <2>2 DEF PollerSteps
      <3>2. failed' = failed /\ active' = active
        BY <1>1 DEF PollOnce
      <3> QED BY <2>2, <3>1, <3>2 DEF HealthOK, FailureShows
    <2> QED BY <1>1, <2>1, <2>2 DEF PollOnce
  <1>2. CASE EndCycle
    <2>1. task'[Poller].pc = "sleep" /\ (Running' => Running)
      BY <1>2, <1>g DEF EndCycle, PollerSteps
    <2>2. /\ failed' = failed /\ active' = active /\ marker' = hadFailure
          /\ task[Poller].pc \in {"begin", "next"} /\ (todo = {} \/ ~Running)
      BY <1>2 DEF EndCycle, BetweenUsers, At
    <2>3. Running /\ ~hadFailure => failed = {}
      BY <2>2 DEF HealthOK
    <2>4. failed' \subseteq active'
      BY <2>2 DEF HealthOK
    <2>5. hadFailure \in BOOLEAN
      BY <1>t DEF RestTyped
    <2> QED BY <2>1, <2>2, <2>3, <2>4, <2>5 DEF HealthOK, FailureShows
  <1>3. CASE PollChats
    <2>1. task'[Poller].pc = "next" /\ (Running' => Running)
      BY <1>3, <1>g DEF PollChats, PollerSteps
    <2>2. task[Poller].pc = "dirty" /\ UNCHANGED <<active, todo, marker>>
      BY <1>3 DEF PollChats, At, health
    <2> QED BY <1>3, <2>1, <2>2, PollReturnsHealth DEF PollChats, Outside
  <1>4. ASSUME NEW u \in Users, PollUser(u) PROVE HealthOK'
    <2>1. Moved(Poller, "visit", u, task[Poller].client)
      BY <1>4, <1>t, <1>p, TurnToMoves DEF PollUser, PollerSteps
    <2>2. Running' => Running
      BY <1>t, <2>1, MainGoesOn, TasksAssumption DEF Moved
    <2>3. /\ task[Poller].pc \in {"begin", "next"} /\ todo' = todo \ {u}
          /\ UNCHANGED <<failed, active, hadFailure, marker>>
      BY <1>4 DEF PollUser, BetweenUsers, At, health
    <2>4. task'[Poller].pc = "visit" /\ task'[Poller].user = u
      BY <2>1 DEF Moved
    <2>5. failed' \subseteq active'
      BY <2>3 DEF HealthOK
    <2>6. ASSUME Running', ~hadFailure', NEW v \in failed' PROVE v \in todo' \/ v = u
      BY <2>2, <2>3, <2>6 DEF HealthOK
    <2>7. FailureShows'
      BY <2>2, <2>3 DEF HealthOK, FailureShows
    <2> QED BY <2>4, <2>5, <2>6, <2>7 DEF HealthOK
  <1>5. CASE ServeUser
    <2>1. /\ task'[Poller].pc = "get" /\ task'[Poller].user = task[Poller].user
          /\ Running' => Running
      BY <1>5, <1>g DEF ServeUser, PollerSteps
    <2>2. task[Poller].pc = "visit" /\ UNCHANGED <<failed, marker, hadFailure, todo, active>>
      BY <1>5 DEF ServeUser, At, cycle, health
    <2> QED BY <2>1, <2>2, CycleKeptStep DEF CycleKept, Outside
  <1>6. CASE DropUser
    <2>1. CASE Go(Poller, "drop") /\ UNCHANGED <<hadFailure, failed>>
      <3>1. /\ task'[Poller].pc = "drop" /\ task'[Poller].user = task[Poller].user
            /\ Running' => Running
        BY <2>1, <1>g DEF PollerSteps
      <3>2. task[Poller].pc = "visit" /\ UNCHANGED <<failed, marker, hadFailure, todo, active>>
        BY <1>6, <2>1 DEF DropUser, At, health
      <3> QED BY <3>1, <3>2, CycleKeptStep DEF CycleKept, Outside
    <2>2. CASE GoWith(Poller, "next", None) /\ PollReturns(TRUE)
      <3>1. task'[Poller].pc = "next" /\ (Running' => Running)
        BY <2>2, <1>g DEF PollerSteps
      <3>2. task[Poller].pc = "visit" /\ UNCHANGED <<active, todo, marker>>
        BY <1>6 DEF DropUser, At, health
      <3> QED BY <2>2, <3>1, <3>2, PollReturnsHealth DEF Outside
    <2> QED BY <1>6, <2>1, <2>2 DEF DropUser
  <1>7. CASE PollMessages
    <2>1. PICK pc \in {"dirty", "storm"} : Go(Poller, pc)
      BY <1>7 DEF PollMessages
    <2>2. /\ task'[Poller].pc = pc /\ task'[Poller].user = task[Poller].user
          /\ Running' => Running
      BY <2>1, <1>g DEF PollerSteps
    <2>3. task[Poller].pc = "use" /\ UNCHANGED <<failed, marker, hadFailure, todo, active>>
      BY <1>7 DEF PollMessages, At, cycle, health
    <2> QED BY <2>2, <2>3, CycleKeptStep DEF CycleKept, Outside
  <1> QED BY <1>1, <1>2, <1>3, <1>4, <1>5, <1>6, <1>7

\* Handlers and the shutdown do not touch the cycle.
LEMMA OthersHealth ==
    ASSUME TypeOK, Registry, HealthOK, NEW t \in Tasks \ {Poller}, Quiet(t),
           UNCHANGED <<failed, marker, hadFailure, todo, active>>,
           t = Main => task'[t].pc # "run"
    PROVE  HealthOK'
  <1>1. Running' => Running
    BY MainGoesOn DEF Quiet
  <1>2. task'[Poller] = task[Poller]
    BY NamedTasks DEF Quiet
  <1> QED BY <1>1, <1>2, CycleKeptStep DEF CycleKept

LEMMA StillHealth ==
    ASSUME HealthOK, Still, UNCHANGED <<failed, marker, hadFailure, todo, active>>
    PROVE  HealthOK'
  <1>1. CycleKept
    BY DEF Still, CycleKept, Running
  <1> QED BY <1>1, CycleKeptStep

\* The shutdown's own steps.
LEMMA MainHealth ==
    ASSUME TypeOK, Registry, HealthOK,
           Stop \/ StopRaises \/ StopEnds \/ CloseAll \/ MainEnds
             \/ (\E u \in Users : StopService(u)) \/ (\E c \in Clients : CloseNext(c))
    PROVE  HealthOK'
  <1>t. /\ TasksTyped(task) /\ RestTyped /\ Main \in Tasks \ {Poller}
        /\ \A pc \in MainSteps : PcTyped(Main, pc)
    BY TypeSplit, NamedTasks, TasksAssumption DEF PcTyped
  <1>1. CASE Stop
    <2>1. failed' = {}
      BY <1>1 DEF Stop
    <2> QED BY <2>1 DEF HealthOK, FailureShows
  <1>2. CASE ~Stop
    <2>1. UNCHANGED <<failed, marker, hadFailure, todo, active>>
      BY <1>2 DEF StopRaises, StopEnds, CloseAll, MainEnds, StopService, CloseNext, cycle, health
    <2>2. \/ UNCHANGED task
          \/ \E pc \in MainSteps \ {"run"} : Go(Main, pc)
          \/ \E u \in Users : TurnTo(Main, "stop", u)
      BY <1>2
      DEF StopRaises, StopEnds, CloseAll, MainEnds, StopService, CloseNext, MainSteps
    <2>3. CASE UNCHANGED task
      <3>1. CycleKept
        BY <2>1, <2>3 DEF CycleKept, Running
      <3> QED BY <3>1, CycleKeptStep
    <2>4. ASSUME NEW pc \in MainSteps \ {"run"}, NEW u \in Users, NEW c \in MaybeClient,
                 Moved(Main, pc, u, c)
          PROVE  HealthOK'
      <3>1. ~Running' /\ task'[Poller] = task[Poller]
        BY <1>t, <2>4, NamedTasks DEF Moved, Running
      <3>2. CycleKept
        BY <2>1, <3>1 DEF CycleKept
      <3> QED BY <3>2, CycleKeptStep
    <2>5. ASSUME NEW pc \in MainSteps \ {"run"}, Go(Main, pc) PROVE HealthOK'
      BY <1>t, <2>4, <2>5, GoMoves, TypedTask
    <2>6. ASSUME NEW u \in Users, TurnTo(Main, "stop", u) PROVE HealthOK'
      <3>1. Moved(Main, "stop", u, task[Main].client)
        BY <1>t, <2>6, TurnToMoves DEF MainSteps
      <3> QED BY <1>t, <2>4, <3>1, TypedTask DEF MainSteps
    <2> QED BY <2>2, <2>3, <2>5, <2>6
  <1> QED BY <1>1, <1>2

LEMMA SenderHealth ==
    ASSUME TypeOK, Registry, HealthOK, NEW t \in Senders,
           MarkChatDirty(t) \/ SendMessage(t) \/ SendRaises(t) \/ (\E u \in Users : Deliver(t, u))
    PROVE  HealthOK'
  <1>1. Quiet(t)
    BY MarkChatDirtyQuiet, SendMessageQuiet, SendRaisesQuiet, DeliverQuiet
  <1>2. UNCHANGED <<failed, marker, hadFailure, todo, active>>
    BY DEF MarkChatDirty, SendMessage, SendRaises, Deliver, cycle, health
  <1>3. t \in Tasks \ {Poller} /\ t # Main
    BY NamedTasks, TasksAssumption
  <1> QED BY <1>1, <1>2, <1>3, OthersHealth

LEMMA HealthStep ==
    ASSUME TypeOK, Registry, HealthOK, [Next]_vars
    PROVE  HealthOK'
  <1>t. Poller \in Tasks /\ Main \in Tasks /\ Senders \subseteq Tasks
    BY NamedTasks
  <1>1. CASE LocalPoller
    BY <1>t, <1>1, LocalHealth, PollerHealth, Worklists DEF LocalPoller
  <1>2. CASE LocalMain
    BY <1>t, <1>2, LocalHealth, MainHealth, Worklists DEF LocalMain
  <1>3. CASE \E t \in Senders : Local(t) \/ MarkChatDirty(t)
    BY <1>t, <1>3, LocalHealth, SenderHealth
  <1>4. CASE HeartbeatAges
    <2>1. UNCHANGED <<failed, marker, hadFailure, todo, active>>
      BY <1>4 DEF HeartbeatAges, cycle
    <2> QED BY <1>4, <2>1, HeartbeatAgesStill, StillHealth
  <1>5. CASE Environment
    <2>1. ASSUME NEW u \in Users, BindingChanges(u) PROVE HealthOK'
      <3>1. failed' \subseteq failed /\ failed' \subseteq active' /\ UNCHANGED <<task, todo, hadFailure, marker>>
        BY <2>1 DEF BindingChanges, HealthOK, cycle, health
      <3>2. Running' = Running
        BY <3>1 DEF Running
      <3> QED BY <3>1, <3>2 DEF HealthOK, FailureShows
    <2>2. CASE \E t \in Tasks : Waiting(t)
      BY <2>2, LocalHealth
    <2>3. CASE ServeUser \/ DropUser \/ PollMessages
      BY <2>3, PollerHealth
    <2>4. CASE Stop
      BY <2>4, MainHealth
    <2>5. CASE \E t \in Senders : SendMessage(t) \/ SendRaises(t) \/ \E u \in Users : Deliver(t, u)
      BY <2>5, SenderHealth
    <2> QED BY <1>5, <2>1, <2>2, <2>3, <2>4, <2>5 DEF Environment
  <1>6. CASE UNCHANGED vars
    BY <1>6, StillHealth DEF vars, registry, cycle, health, shutdown, Still
  <1> QED BY <1>1, <1>2, <1>3, <1>4, <1>5, <1>6 DEF Next

\* The invariant as a whole is inductive.
THEOREM Inductive == Spec => [](TypeOK /\ Registry /\ HealthOK)
  <1>1. Init => TypeOK /\ Registry /\ HealthOK
    BY RegistryInit DEF Init, HealthOK, FailureShows
  <1>2. TypeOK /\ Registry /\ HealthOK /\ [Next]_vars => TypeOK' /\ Registry' /\ HealthOK'
    BY RegistryStep, HealthStep
  <1> QED BY <1>1, <1>2, PTL DEF Spec

\* A user whose last poll failed shows in the marker or in the running cycle, whatever
\* the other users' polls return.
THEOREM FailureShown == Spec => []FailureShows
  <1>1. HealthOK => FailureShows
    BY DEF HealthOK
  <1> QED BY <1>1, Inductive, PTL
=============================================================================
