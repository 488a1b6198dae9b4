-------------------------- MODULE ReconcileProofs --------------------------
(***************************************************************************)
(* Proofs about Reconcile for every set of chats and handlers and every    *)
(* bound.  IInv is inductive: TypeStep, ControlStep, RowStep, SnapStep,    *)
(* KnownStep and OnceStep show, action by action, that a step keeps each   *)
(* of its conjuncts.                                                       *)
(***************************************************************************)
EXTENDS Reconcile, FiniteSetTheorems, TLAPS

LEMMA RowType ==
    /\ NoRow \in Rows
    /\ \A r \in Rows, on \in BOOLEAN : [r EXCEPT !.enabled = on] \in Rows
    /\ \A r \in Rows, id \in 0..MaxTopics : [r EXCEPT !.id = id] \in Rows
BY BoundsAssumption DEF NoRow, Rows

LEMMA IdleType == Idle \in TaskType
BY RowType, BoundsAssumption DEF Idle, TaskType

\* What /mute and /unmute write.
LEMMA CommandWrites ==
    ASSUME TypeOK, NEW c \in Chats, NEW on \in BOOLEAN, Command(c, on)
    PROVE  /\ commands' = commands + 1
           /\ row' \in [Chats -> Rows] /\ wish' \in [Chats -> [enabled : BOOLEAN, since : Nat]]
           /\ row'[c].id = row[c].id /\ row'[c].enabled = on /\ wish'[c].enabled = on
           /\ row'[c].since = IF on THEN commands + 1 ELSE row[c].since
           /\ wish'[c].since = IF on THEN commands + 1 ELSE wish[c].since
           /\ \A d \in Chats : d # c => row'[d] = row[d] /\ wish'[d] = wish[d]
<1>. DEFINE now == IF on THEN commands + 1 ELSE row[c].since
            wished == IF on THEN commands + 1 ELSE wish[c].since
<1>1. /\ row \in [Chats -> Rows] /\ wish \in [Chats -> [enabled : BOOLEAN, since : Nat]]
      /\ commands \in Nat
    BY DEF TypeOK
<1>2. row[c] \in Rows /\ wish[c] \in [enabled : BOOLEAN, since : Nat]
    BY <1>1
<1>3. now \in Nat /\ wished \in Nat
    BY <1>1, <1>2 DEF Rows
<1>4. /\ row' = [row EXCEPT ![c] = [row[c] EXCEPT !.enabled = on, !.since = now]]
      /\ wish' = [wish EXCEPT ![c] = [wish[c] EXCEPT !.enabled = on, !.since = wished]]
      /\ commands' = commands + 1
    BY <1>1 DEF Command
<1>. HIDE DEF now, wished
<1>5. /\ [row[c] EXCEPT !.enabled = on, !.since = now] \in Rows
      /\ [wish[c] EXCEPT !.enabled = on, !.since = wished] \in [enabled : BOOLEAN, since : Nat]
    BY <1>2, <1>3 DEF Rows
<1>6. /\ row'[c] = [row[c] EXCEPT !.enabled = on, !.since = now]
      /\ wish'[c] = [wish[c] EXCEPT !.enabled = on, !.since = wished]
      /\ \A d \in Chats : d # c => row'[d] = row[d] /\ wish'[d] = wish[d]
      /\ row' \in [Chats -> Rows] /\ wish' \in [Chats -> [enabled : BOOLEAN, since : Nat]]
    BY <1>1, <1>4, <1>5
<1>7. /\ row'[c].id = row[c].id /\ row'[c].enabled = on /\ wish'[c].enabled = on
      /\ row'[c].since = now /\ wish'[c].since = wished
    BY <1>2, <1>6 DEF Rows
<1>. QED
    BY <1>4, <1>6, <1>7 DEF now, wished

\* What the other writers of the table leave of it.
LEMMA MuteWrites ==
    ASSUME TypeOK, ControlOK, NEW t \in Tasks, MuteDeparted(t)
    PROVE  /\ task[t].chat \in Chats
           /\ row' \in [Chats -> Rows]
           /\ \A d \in Chats : row'[d].id = row[d].id /\ row'[d].since = row[d].since
           /\ \A d \in Chats : d # task[t].chat => row'[d] = row[d]
           /\ \/ row' = row /\ autoMuted' = autoMuted
              \/ autoMuted' = autoMuted \cup {task[t].chat}
<1>. DEFINE c == task[t].chat
<1>1. task[t].chat \in Chats /\ row \in [Chats -> Rows]
    BY DEF TypeOK, ControlOK, MuteDeparted, Step
<1>2. [row[c] EXCEPT !.enabled = FALSE] \in Rows /\ row[c] \in Rows
    BY <1>1, RowType
<1>3. CASE row' = row /\ autoMuted' = autoMuted
    BY <1>1, <1>3
<1>4. CASE /\ row' = [row EXCEPT ![c] = [row[c] EXCEPT !.enabled = FALSE]]
           /\ autoMuted' = autoMuted \cup {c}
    <2>1. row'[c].id = row[c].id /\ row'[c].since = row[c].since
        BY <1>1, <1>2, <1>4 DEF Rows
    <2>. QED
        BY <1>1, <1>2, <1>4, <2>1
<1>. QED
    BY <1>1, <1>3, <1>4 DEF MuteDeparted

LEMMA SaveWrites ==
    ASSUME TypeOK, ControlOK, NEW t \in Tasks, SaveTopic(t)
    PROVE  /\ task[t].chat \in Chats
           /\ row' \in [Chats -> Rows]
           /\ row'[task[t].chat].id = task[t].id /\ task[t].id # 0
           /\ row'[task[t].chat].since = task[t].snap[task[t].chat].since
           /\ row'[task[t].chat].enabled = task[t].snap[task[t].chat].enabled
           /\ \A d \in Chats : d # task[t].chat => row'[d] = row[d]
<1>1. task[t] \in TaskType /\ task[t].chat \in Chats /\ task[t].id # 0
    BY DEF TypeOK, ControlOK, SaveTopic, Step
<1>2. task[t].snap[task[t].chat] \in Rows /\ task[t].id \in 0..MaxTopics
    BY <1>1 DEF TaskType
<1>3. [task[t].snap[task[t].chat] EXCEPT !.id = task[t].id] \in Rows
    BY <1>2, RowType
<1>. QED
    BY <1>1, <1>2, <1>3 DEF TypeOK, SaveTopic, Rows

-----------------------------------------------------------------------------
(* Type correctness.                                                       *)

LEMMA TypeInit == Init => TypeOK
BY IdleType, RowType DEF Init, TypeOK, Ids, NoRow

LEMMA TaskTypeStep ==
    ASSUME TypeOK, IsFiniteSet(topics), NEW t \in Tasks, Work(t)
    PROVE  task' \in [Tasks -> TaskType]
<1>. USE DEF TypeOK
<1>1. task[t] \in TaskType
    OBVIOUS
<1>2. NextChat(t) \in TaskType
    <2>1. 0 \in 0..MaxTopics
        BY BoundsAssumption
    <2>. QED
        BY <1>1, <2>1 DEF NextChat, TaskType
<1>3. CASE ListPersonalChats(t)
    <2>1. PICK listed \in SUBSET member :
             Step(t, "list", IF task[t].target = NoChat \/ Targeted(t, listed) # {}
                             THEN [task[t] EXCEPT !.pc = "read", !.todo = Targeted(t, listed)]
                             ELSE Idle)
        BY <1>3 DEF ListPersonalChats
    <2>2. Targeted(t, listed) \in SUBSET Chats
        BY DEF Targeted
    <2>3. [task[t] EXCEPT !.pc = "read", !.todo = Targeted(t, listed)] \in TaskType
        BY <1>1, <2>2 DEF TaskType
    <2>. QED
        BY <2>1, <2>3, IdleType DEF Step
<1>4. CASE FindTopics(t)
    BY <1>1, <1>4 DEF FindTopics, Step, TaskType
<1>5. ASSUME NEW c \in Chats, ChatState(t, c) PROVE task' \in [Tasks -> TaskType]
    BY <1>1, <1>5 DEF ChatState, Step, TaskType
<1>6. ASSUME NEW c \in Chats, ChatStateFails(t, c) PROVE task' \in [Tasks -> TaskType]
    BY <1>1, <1>6 DEF ChatStateFails, Step, TaskType
<1>7. CASE MuteDeparted(t)
    BY <1>1, <1>7 DEF MuteDeparted, Step, TaskType
<1>8. CASE EndDeparted(t)
    BY <1>1, <1>8 DEF EndDeparted, Step, TaskType
<1>9. ASSUME NEW c \in Chats, CreateTopic(t, c) PROVE task' \in [Tasks -> TaskType]
    <2>1. NextId \in 0..MaxTopics
        BY <1>9, FS_CardinalityType, BoundsAssumption DEF CreateTopic, NextId
    <2>. QED
        BY <1>1, <1>9, <2>1 DEF CreateTopic, Step, TaskType
<1>10. ASSUME NEW c \in Chats, CreateFails(t, c) PROVE task' \in [Tasks -> TaskType]
    BY <1>1, <1>10 DEF CreateFails, Step, TaskType
<1>11. CASE SaveTopic(t)
    BY <1>1, <1>2, <1>11 DEF SaveTopic, Step, TaskType
<1>12. CASE Backfill(t)
    BY <1>2, <1>12 DEF Backfill, Step
<1>13. CASE ReconcileRaises(t)
    BY <1>13, IdleType DEF ReconcileRaises
<1>14. CASE EndReconcile(t)
    BY <1>14, IdleType DEF EndReconcile, Step
<1>. QED
    BY <1>3, <1>4, <1>5, <1>6, <1>7, <1>8, <1>9, <1>10, <1>11, <1>12, <1>13, <1>14 DEF Work

\* Who writes what.
LEMMA NextCases ==
    ASSUME Next
    PROVE  \/ Crash
           \/ \E c \in Chats : Leave(c) \/ Join(c)
           \/ \E c \in Chats, on \in BOOLEAN : Command(c, on)
           \/ \E t \in Tasks, force \in BOOLEAN, target \in Chats \cup {NoChat} :
                Begin(t, force, target)
           \/ \E t \in Tasks : Work(t)
BY DEF Next, Commands, Environment, Mute, Unmute, Tasks

LEMMA WorkFrame ==
    ASSUME NEW t \in Tasks, Work(t)
    PROVE  /\ UNCHANGED <<member, commands, crashes, wish, raced, left>>
           /\ \/ SaveTopic(t) \/ MuteDeparted(t) \/ UNCHANGED row
           /\ \/ MuteDeparted(t) \/ UNCHANGED autoMuted
           /\ \/ \E c \in Chats : CreateTopic(t, c) \/ CreateFails(t, c)
              \/ UNCHANGED topics
BY DEF Work, ListPersonalChats, FindTopics, ChatState, ChatStateFails, MuteDeparted, EndDeparted,
       CreateTopic, CreateFails, SaveTopic, Backfill, ReconcileRaises, EndReconcile, budgets, muting

LEMMA WorkOthers ==
    ASSUME TypeOK, NEW t \in Tasks, Work(t)
    PROVE  \A u \in Tasks : u # t => task'[u] = task[u]
BY DEF TypeOK, Work, ListPersonalChats, FindTopics, ChatState, ChatStateFails, MuteDeparted,
       EndDeparted, CreateTopic, CreateFails, SaveTopic, Backfill, ReconcileRaises, EndReconcile,
       Step

\* How a task goes on to its next chat.
LEMMA NextChatType ==
    ASSUME TypeOK, NEW t \in Tasks
    PROVE  /\ NextChat(t) \in TaskType /\ NextChat(t).pc = "create"
           /\ NextChat(t).todo = task[t].todo /\ NextChat(t).checks = task[t].checks
           /\ NextChat(t).snap = task[t].snap /\ NextChat(t).force = task[t].force
<1>1. task[t] \in TaskType /\ 0 \in 0..MaxTopics
    BY BoundsAssumption DEF TypeOK
<1>. QED
    BY <1>1 DEF NextChat, TaskType

LEMMA BeginStep ==
    ASSUME TypeOK, NEW t \in Tasks, NEW force \in BOOLEAN, NEW target \in Chats \cup {NoChat},
           Begin(t, force, target)
    PROVE  /\ UNCHANGED <<member, topics, row, budgets, muting, left>>
           /\ task' \in [Tasks -> TaskType]
           /\ task'[t].pc = "list" /\ task'[t].todo = {} /\ task'[t].checks = {}
           /\ \A u \in Tasks : u # t => task'[u] = task[u]
<1>. DEFINE r == [Idle EXCEPT !.pc = "list", !.force = force, !.target = target]
<1>1. r \in TaskType /\ r.pc = "list" /\ r.todo = {} /\ r.checks = {}
    BY IdleType DEF TaskType, Idle
<1>. QED
    BY <1>1 DEF TypeOK, Begin, Step

LEMMA TypeStep ==
    ASSUME TypeOK, ControlOK, IsFiniteSet(topics), [Next]_vars
    PROVE  TypeOK'
<1>1. CASE Crash
    BY <1>1, IdleType DEF TypeOK, Crash, muting
<1>2. ASSUME NEW c \in Chats, Leave(c) \/ Join(c) PROVE TypeOK'
    BY <1>2 DEF TypeOK, Leave, Join, budgets, muting
<1>3. ASSUME NEW c \in Chats, NEW on \in BOOLEAN, Command(c, on) PROVE TypeOK'
    <2>1. UNCHANGED <<member, topics, task, crashes, left>>
        BY <1>3 DEF Command
    <2>2. raced' \subseteq Chats /\ autoMuted' \subseteq Chats /\ commands' \in Nat
        BY <1>3 DEF Command, TypeOK
    <2>. QED
        BY <1>3, <2>1, <2>2, CommandWrites DEF TypeOK
<1>4. ASSUME NEW t \in Tasks, NEW force \in BOOLEAN, NEW target \in Chats \cup {NoChat},
             Begin(t, force, target)
      PROVE  TypeOK'
    BY <1>4, BeginStep DEF TypeOK, budgets, muting
<1>5. ASSUME NEW t \in Tasks, Work(t) PROVE TypeOK'
    <2>1. task' \in [Tasks -> TaskType]
        BY <1>5, TaskTypeStep
    <2>2. row' \in [Chats -> Rows]
        BY <1>5, WorkFrame, MuteWrites, SaveWrites DEF TypeOK
    <2>3. autoMuted' \subseteq Chats
        BY <1>5, WorkFrame, MuteWrites DEF TypeOK
    <2>4. topics' \subseteq [id : Ids, chat : Chats, force : BOOLEAN, by : Tasks, life : Nat,
                            known : BOOLEAN]
        <3>1. ASSUME NEW c \in Chats, CreateTopic(t, c) \/ CreateFails(t, c),
                     topics' # topics
              PROVE  topics' \subseteq [id : Ids, chat : Chats, force : BOOLEAN,
                                        by : Tasks, life : Nat, known : BOOLEAN]
            <4>1. NextId \in Ids
                <5>1. NextId <= MaxTopics
                    BY <3>1 DEF CreateTopic, CreateFails
                <5>2. Cardinality(topics) \in Nat
                    BY FS_CardinalityType
                <5>. QED
                    BY <5>1, <5>2, BoundsAssumption DEF NextId, Ids
            <4>2. task[t].force \in BOOLEAN /\ crashes \in Nat
                BY DEF TypeOK, TaskType
            <4>3. PICK known \in BOOLEAN : topics' = Created(t, c, NextId, known)
                BY <3>1 DEF CreateTopic, CreateFails
            <4>. DEFINE new == [id |-> NextId, chat |-> c, force |-> task[t].force, by |-> t,
                                life |-> crashes, known |-> known]
            <4>4. new \in [id : Ids, chat : Chats, force : BOOLEAN, by : Tasks, life : Nat,
                           known : BOOLEAN]
                BY <4>1, <4>2
            <4>5. topics' = topics \cup {new}
                BY <4>3 DEF Created
            <4>. QED
                BY <4>4, <4>5 DEF TypeOK
        <3>. QED
            BY <1>5, <3>1, WorkFrame DEF TypeOK
    <2>. QED
        BY <1>5, <2>1, <2>2, <2>3, <2>4, WorkFrame DEF TypeOK
<1>6. CASE UNCHANGED vars
    BY <1>6 DEF TypeOK, vars, budgets, muting
<1>. QED
    BY <1>1, <1>2, <1>3, <1>4, <1>5, <1>6, NextCases

-----------------------------------------------------------------------------
(* What each program point of a task has in hand.                          *)

LEMMA ControlInit == Init => ControlOK
BY DEF Init, ControlOK, Idle

LEMMA ControlStep ==
    ASSUME TypeOK, ControlOK, IsFiniteSet(topics), [Next]_vars
    PROVE  ControlOK'
<1>1. CASE Crash
    BY <1>1 DEF Crash, ControlOK, Idle
<1>2. ASSUME NEW c \in Chats, Leave(c) \/ Join(c) PROVE ControlOK'
    BY <1>2 DEF Leave, Join, ControlOK
<1>3. ASSUME NEW c \in Chats, NEW on \in BOOLEAN, Command(c, on) PROVE ControlOK'
    BY <1>3 DEF Command, ControlOK
<1>4. ASSUME NEW t \in Tasks, NEW force \in BOOLEAN, NEW target \in Chats \cup {NoChat},
             Begin(t, force, target)
      PROVE  ControlOK'
    BY <1>4, BeginStep DEF ControlOK
<1>5. ASSUME NEW t \in Tasks, Work(t) PROVE ControlOK'
    <2>. SUFFICES /\ task'[t].pc \in {"mute", "save", "backfill"} => task'[t].chat \in Chats
                  /\ task'[t].pc = "save" => task'[t].id # 0
        BY <1>5, WorkOthers DEF ControlOK
    <2>0. task \in [Tasks -> TaskType] /\ task[t] \in TaskType
        BY DEF TypeOK
    <2>1. CASE ListPersonalChats(t)
        <3>1. task'[t].pc \in {"read", "idle"}
            BY <2>0, <2>1, IdleType DEF ListPersonalChats, Step, TaskType, Idle
        <3>. QED
            BY <3>1
    <2>2. CASE FindTopics(t)
        BY <2>0, <2>2 DEF FindTopics, Step, TaskType
    <2>3. ASSUME NEW c \in Chats, ChatState(t, c) \/ ChatStateFails(t, c)
          PROVE  /\ task'[t].pc \in {"mute", "save", "backfill"} => task'[t].chat \in Chats
                 /\ task'[t].pc # "save"
        <3>1. \/ task'[t] = [task[t] EXCEPT !.pc = "mute", !.chat = c, !.checks = @ \ {c}]
              \/ task[t].pc = "depart" /\ task'[t] = [task[t] EXCEPT !.checks = @ \ {c}]
            BY <2>0, <2>3 DEF ChatState, ChatStateFails, Step
        <3>2. CASE task'[t] = [task[t] EXCEPT !.pc = "mute", !.chat = c, !.checks = @ \ {c}]
            BY <2>0, <3>2 DEF TaskType
        <3>3. CASE task[t].pc = "depart" /\ task'[t] = [task[t] EXCEPT !.checks = @ \ {c}]
            BY <2>0, <3>3 DEF TaskType
        <3>. QED
            BY <3>1, <3>2, <3>3
    <2>4. CASE MuteDeparted(t) \/ EndDeparted(t)
        <3>1. CASE MuteDeparted(t)
            BY <2>0, <3>1 DEF MuteDeparted, Step, TaskType
        <3>2. CASE EndDeparted(t)
            BY <2>0, <3>2 DEF EndDeparted, Step, TaskType
        <3>. QED
            BY <2>4, <3>1, <3>2
    <2>5. ASSUME NEW c \in Chats, CreateTopic(t, c)
          PROVE  task'[t].chat \in Chats /\ task'[t].id # 0
        <3>1. NextId # 0
            BY FS_CardinalityType DEF NextId
        <3>. QED
            BY <2>0, <2>5, <3>1 DEF CreateTopic, Step, TaskType
    <2>6. ASSUME NEW c \in Chats, CreateFails(t, c) PROVE task'[t].pc = "create"
        BY <2>0, <2>6 DEF CreateFails, Step, TaskType
    <2>7. CASE SaveTopic(t)
        <3>1. \/ task'[t] = NextChat(t)
              \/ task[t].pc = "save" /\ task'[t] = [task[t] EXCEPT !.pc = "backfill"]
            BY <2>0, <2>7 DEF SaveTopic, Step
        <3>2. CASE task[t].pc = "save" /\ task'[t] = [task[t] EXCEPT !.pc = "backfill"]
            BY <2>0, <3>2 DEF TaskType, ControlOK
        <3>. QED
            BY <3>1, <3>2, NextChatType
    <2>8. CASE Backfill(t)
        BY <2>0, <2>8, NextChatType DEF Backfill, Step
    <2>9. CASE ReconcileRaises(t) \/ EndReconcile(t)
        BY <2>0, <2>9, IdleType DEF ReconcileRaises, EndReconcile, Step, Idle
    <2>. QED
        BY <1>5, <2>1, <2>2, <2>3, <2>4, <2>5, <2>6, <2>7, <2>8, <2>9 DEF Work
<1>6. CASE UNCHANGED vars
    BY <1>6 DEF ControlOK, vars
<1>. QED
    BY <1>1, <1>2, <1>3, <1>4, <1>5, <1>6, NextCases

\* What a task may still write from was so before its step, or was just read.
LEMMA HoldsStep ==
    ASSUME TypeOK, NEW t \in Tasks, NEW c \in Chats, Work(t), Holds(t, c)'
    PROVE  \/ /\ Holds(t, c)
              /\ task'[t].snap = task[t].snap /\ task'[t].force = task[t].force
              /\ c \in task'[t].todo => c \in task[t].todo
           \/ /\ FindTopics(t)
              /\ task'[t].snap = row /\ task'[t].force = task[t].force
              /\ c \in task'[t].todo => ~Mapped(c) \/ task[t].force
<1>. DEFINE Goal == \/ /\ Holds(t, c)
                       /\ task'[t].snap = task[t].snap /\ task'[t].force = task[t].force
                       /\ c \in task'[t].todo => c \in task[t].todo
                    \/ /\ FindTopics(t)
                       /\ task'[t].snap = row /\ task'[t].force = task[t].force
                       /\ c \in task'[t].todo => ~Mapped(c) \/ task[t].force
<1>0. task \in [Tasks -> TaskType] /\ task[t] \in TaskType
    BY DEF TypeOK
<1>1. task'[t].pc \notin {"idle", "list", "read"}
    BY DEF Holds
<1>2. CASE ListPersonalChats(t) \/ ReconcileRaises(t) \/ EndReconcile(t)
    <2>1. task'[t].pc \in {"read", "idle"}
        <3>1. CASE ListPersonalChats(t)
            BY <1>0, <3>1, IdleType DEF ListPersonalChats, Step, TaskType, Idle
        <3>2. CASE ReconcileRaises(t) \/ EndReconcile(t)
            BY <1>0, <3>2, IdleType DEF ReconcileRaises, EndReconcile, Step, Idle
        <3>. QED
            BY <1>2, <3>1, <3>2
    <2>. QED
        BY <1>1, <2>1
<1>3. CASE FindTopics(t)
    <2>1. /\ task'[t].snap = row /\ task'[t].force = task[t].force
          /\ task'[t].todo = {d \in task[t].todo : ~Mapped(d) \/ task[t].force}
        BY <1>0, <1>3 DEF FindTopics, Step, TaskType
    <2>. QED
        BY <1>3, <2>1
<1>4. ASSUME NEW d \in Chats, ChatState(t, d) \/ ChatStateFails(t, d) PROVE Goal
    <2>1. /\ task[t].pc = "depart"
          /\ \/ task'[t] = [task[t] EXCEPT !.pc = "mute", !.chat = d, !.checks = @ \ {d}]
             \/ task'[t] = [task[t] EXCEPT !.checks = @ \ {d}]
        BY <1>0, <1>4 DEF ChatState, ChatStateFails, Step
    <2>2. /\ task'[t].snap = task[t].snap /\ task'[t].force = task[t].force
          /\ task'[t].todo = task[t].todo /\ task'[t].pc \in {"mute", "depart"}
        BY <1>0, <2>1 DEF TaskType
    <2>. QED
        BY <2>1, <2>2 DEF Holds
<1>5. CASE MuteDeparted(t) \/ EndDeparted(t)
    <2>1. /\ task[t].pc \in {"mute", "depart"}
          /\ \/ task'[t] = [task[t] EXCEPT !.pc = "depart", !.chat = NoChat]
             \/ task'[t] = [task[t] EXCEPT !.pc = "create"]
        BY <1>0, <1>5 DEF MuteDeparted, EndDeparted, Step
    <2>2. /\ task'[t].snap = task[t].snap /\ task'[t].force = task[t].force
          /\ task'[t].todo = task[t].todo /\ task'[t].pc \in {"depart", "create"}
        BY <1>0, <2>1 DEF TaskType
    <2>. QED
        BY <2>1, <2>2 DEF Holds
<1>6. ASSUME NEW d \in Chats, CreateTopic(t, d) PROVE Goal
    <2>1. /\ task[t].pc = "create" /\ d \in task[t].todo
          /\ task'[t].snap = task[t].snap /\ task'[t].force = task[t].force
          /\ task'[t].todo = task[t].todo \ {d} /\ task'[t].chat = d
        BY <1>0, <1>6 DEF CreateTopic, Step, TaskType
    <2>. QED
        BY <2>1 DEF Holds
<1>7. ASSUME NEW d \in Chats, CreateFails(t, d) PROVE Goal
    <2>1. /\ task[t].pc = "create"
          /\ task'[t].snap = task[t].snap /\ task'[t].force = task[t].force
          /\ task'[t].todo = task[t].todo \ {d} /\ task'[t].pc = "create"
        BY <1>0, <1>7 DEF CreateFails, Step, TaskType
    <2>. QED
        BY <2>1 DEF Holds
<1>8. CASE SaveTopic(t) \/ Backfill(t)
    <2>1. /\ task[t].pc \in {"save", "backfill"}
          /\ task'[t] = NextChat(t) \/ task'[t] = [task[t] EXCEPT !.pc = "backfill"]
        BY <1>0, <1>8 DEF SaveTopic, Backfill, Step
    <2>2. /\ task'[t].snap = task[t].snap /\ task'[t].force = task[t].force
          /\ task'[t].todo = task[t].todo /\ task'[t].pc \in {"create", "backfill"}
        BY <1>0, <2>1, NextChatType DEF TaskType
    <2>. QED
        BY <2>1, <2>2 DEF Holds
<1>. QED
    BY <1>2, <1>3, <1>4, <1>5, <1>6, <1>7, <1>8 DEF Work

LEMMA HoldsOthers ==
    ASSUME TypeOK, NEW t \in Tasks, NEW u \in Tasks, u # t, NEW c \in Chats,
           task'[u] = task[u]
    PROVE  Holds(u, c)' <=> Holds(u, c)
BY DEF Holds

-----------------------------------------------------------------------------
(* The commands stand.                                                     *)

LEMMA CommandsInit == Init => RowOK /\ SnapOK
<1>. SUFFICES ASSUME Init PROVE RowOK /\ SnapOK
    OBVIOUS
<1>1. \A c \in Chats : /\ row[c].since = 0 /\ row[c].enabled = TRUE
                       /\ wish[c].since = 0 /\ wish[c].enabled = TRUE
    BY DEF Init, NoRow
<1>2. \A t \in Tasks, c \in Chats : ~Holds(t, c)
    BY DEF Init, Idle, Holds
<1>. QED
    BY <1>1, <1>2 DEF RowOK, SnapOK

LEMMA RowStep ==
    ASSUME TypeOK, ControlOK, RowOK, SnapOK, [Next]_vars
    PROVE  RowOK'
<1>1. CASE Crash
    BY <1>1 DEF Crash, muting, RowOK
<1>2. ASSUME NEW c \in Chats, Leave(c) \/ Join(c) PROVE RowOK'
    BY <1>2 DEF Leave, Join, muting, RowOK
<1>3. ASSUME NEW c \in Chats, NEW on \in BOOLEAN, Command(c, on) PROVE RowOK'
    <2>1. /\ \A d \in Chats : d # c => /\ d \in raced <=> d \in raced'
                                       /\ d \in autoMuted <=> d \in autoMuted'
          /\ c \notin raced' /\ ~on => c \notin raced
        BY <1>3 DEF Command
    <2>2. /\ \A d \in Chats : d # c => row'[d] = row[d] /\ wish'[d] = wish[d]
          /\ row'[c].enabled = wish'[c].enabled
          /\ row'[c].since = wish'[c].since \/ (~on /\ row'[c].since = row[c].since
                                                   /\ wish'[c].since = wish[c].since)
        BY <1>3, CommandWrites
    <2>3. ASSUME NEW d \in Chats \ raced'
          PROVE  /\ row'[d].since = wish'[d].since
                 /\ row'[d].enabled = wish'[d].enabled \/ d \in autoMuted'
        <3>1. CASE d = c
            BY <2>1, <2>2, <3>1 DEF RowOK
        <3>2. CASE d # c
            BY <2>1, <2>2, <3>2 DEF RowOK
        <3>. QED
            BY <3>1, <3>2
    <2>. QED
        BY <2>3 DEF RowOK
<1>4. ASSUME NEW t \in Tasks, NEW force \in BOOLEAN, NEW target \in Chats \cup {NoChat},
             Begin(t, force, target)
      PROVE  RowOK'
    BY <1>4 DEF Begin, muting, RowOK
<1>5. ASSUME NEW t \in Tasks, Work(t) PROVE RowOK'
    <2>0. UNCHANGED <<wish, raced>>
        BY <1>5, WorkFrame
    <2>1. CASE UNCHANGED <<row, autoMuted>>
        BY <2>0, <2>1 DEF RowOK
    <2>2. CASE MuteDeparted(t)
        BY <2>0, <2>2, MuteWrites DEF RowOK, MuteDeparted, TypeOK
    <2>3. CASE SaveTopic(t)
        <3>1. Holds(t, task[t].chat) /\ UNCHANGED autoMuted
            BY <2>3 DEF SaveTopic, Step, Holds, muting
        <3>. QED
            BY <2>0, <2>3, <3>1, SaveWrites DEF RowOK, SnapOK
    <2>. QED
        BY <1>5, <2>1, <2>2, <2>3, WorkFrame
<1>6. CASE UNCHANGED vars
    BY <1>6 DEF RowOK, vars, muting
<1>. QED
    BY <1>1, <1>2, <1>3, <1>4, <1>5, <1>6, NextCases

LEMMA SnapStep ==
    ASSUME TypeOK, ControlOK, RowOK, SnapOK, [Next]_vars
    PROVE  SnapOK'
<1>1. CASE Crash
    BY <1>1 DEF Crash, SnapOK, Holds, Idle
<1>2. ASSUME NEW c \in Chats, Leave(c) \/ Join(c) PROVE SnapOK'
    BY <1>2 DEF Leave, Join, muting, SnapOK, Holds
<1>3. ASSUME NEW c \in Chats, NEW on \in BOOLEAN, Command(c, on) PROVE SnapOK'
    <2>1. /\ \A d \in Chats : d # c => /\ d \in raced <=> d \in raced'
                                       /\ d \in autoMuted <=> d \in autoMuted'
          /\ c \notin raced' => \A u \in Tasks : ~Holds(u, c)
          /\ UNCHANGED task
        BY <1>3 DEF Command
    <2>2. \A u \in Tasks, d \in Chats : Holds(u, d)' <=> Holds(u, d)
        BY <2>1 DEF Holds
    <2>3. \A d \in Chats : d # c => wish'[d] = wish[d]
        BY <1>3, CommandWrites
    <2>4. ASSUME NEW u \in Tasks, NEW d \in Chats \ raced', Holds(u, d)'
          PROVE  /\ task'[u].snap[d].since = wish'[d].since
                 /\ task'[u].snap[d].enabled = wish'[d].enabled \/ d \in autoMuted'
        <3>1. Holds(u, d) /\ d # c
            BY <2>1, <2>2, <2>4
        <3>2. task' = task /\ d \notin raced /\ wish'[d] = wish[d]
            BY <2>1, <2>3, <3>1
        <3>. QED
            BY <2>1, <3>1, <3>2 DEF SnapOK
    <2>. QED
        BY <2>4 DEF SnapOK
<1>4. ASSUME NEW t \in Tasks, NEW force \in BOOLEAN, NEW target \in Chats \cup {NoChat},
             Begin(t, force, target)
      PROVE  SnapOK'
    <2>1. UNCHANGED <<wish, raced, autoMuted>>
        BY <1>4 DEF Begin, muting
    <2>2. \A c \in Chats : ~Holds(t, c)'
        BY <1>4, BeginStep DEF Holds
    <2>3. \A u \in Tasks, c \in Chats : u # t => task'[u] = task[u] /\ (Holds(u, c)' <=> Holds(u, c))
        BY <1>4, BeginStep, HoldsOthers
    <2>. QED
        BY <2>1, <2>2, <2>3 DEF SnapOK
<1>5. ASSUME NEW t \in Tasks, Work(t) PROVE SnapOK'
    <2>1. UNCHANGED <<wish, raced>> /\ autoMuted \subseteq autoMuted'
        BY <1>5, WorkFrame, MuteWrites
    <2>2. ASSUME NEW u \in Tasks, NEW c \in Chats \ raced', Holds(u, c)'
          PROVE  /\ task'[u].snap[c].since = wish'[c].since
                 /\ task'[u].snap[c].enabled = wish'[c].enabled \/ c \in autoMuted'
        <3>1. CASE u = t
            <4>1. \/ Holds(t, c) /\ task'[t].snap = task[t].snap
                  \/ task'[t].snap = row
                BY <1>5, <2>2, <3>1, HoldsStep
            <4>. QED
                BY <2>1, <3>1, <4>1 DEF RowOK, SnapOK
        <3>2. CASE u # t
            BY <1>5, <2>1, <2>2, <3>2, WorkOthers, HoldsOthers DEF SnapOK
        <3>. QED
            BY <3>1, <3>2
    <2>. QED
        BY <2>2 DEF SnapOK
<1>6. CASE UNCHANGED vars
    BY <1>6 DEF SnapOK, Holds, vars, muting
<1>. QED
    BY <1>1, <1>2, <1>3, <1>4, <1>5, <1>6, NextCases

-----------------------------------------------------------------------------
(* The chats the bridge knows, and those it mutes by itself.               *)

LEMMA KnownInit == Init => KnownOK /\ OnlyDepartedAutoMuted
BY DEF Init, KnownOK, Known, Mapped, NoRow, Idle, OnlyDepartedAutoMuted

LEMMA KnownTask ==
    ASSUME TypeOK, KnownOK, NEW t \in Tasks, Work(t)
    PROVE  /\ task'[t].todo \subseteq Known /\ task'[t].checks \subseteq Known
           /\ task'[t].pc = "save" => task'[t].chat \in Known
           /\ task'[t].pc = "mute" => task'[t].chat \in Channels \cap left
<1>. DEFINE Goal == /\ task'[t].todo \subseteq Known /\ task'[t].checks \subseteq Known
                    /\ task'[t].pc = "save" => task'[t].chat \in Known
                    /\ task'[t].pc = "mute" => task'[t].chat \in Channels \cap left
<1>0. /\ task \in [Tasks -> TaskType] /\ task[t] \in TaskType
      /\ task[t].todo \subseteq Known /\ task[t].checks \subseteq Known
    BY DEF TypeOK, KnownOK
<1>1. CASE ListPersonalChats(t)
    <2>1. PICK listed \in SUBSET member :
             Step(t, "list", IF task[t].target = NoChat \/ Targeted(t, listed) # {}
                             THEN [task[t] EXCEPT !.pc = "read", !.todo = Targeted(t, listed)]
                             ELSE Idle)
        BY <1>1 DEF ListPersonalChats
    <2>2. Targeted(t, listed) \subseteq Known
        BY DEF Targeted, Known
    <2>3. \/ task'[t] = [task[t] EXCEPT !.pc = "read", !.todo = Targeted(t, listed)]
          \/ task'[t] = Idle
        BY <1>0, <2>1 DEF Step
    <2>4. /\ task'[t].todo \subseteq Known /\ task'[t].checks \subseteq Known
          /\ task'[t].pc \in {"read", "idle"}
        <3>1. CASE task'[t] = [task[t] EXCEPT !.pc = "read", !.todo = Targeted(t, listed)]
            BY <1>0, <2>2, <3>1 DEF TaskType
        <3>2. CASE task'[t] = Idle
            BY <3>2 DEF Idle
        <3>. QED
            BY <2>3, <3>1, <3>2
    <2>. QED
        BY <2>4
<1>2. CASE FindTopics(t)
    <2>1. /\ task'[t].pc \in {"depart", "create"} /\ task'[t].todo \subseteq task[t].todo
          /\ task'[t].checks \subseteq {c \in Chats : Mapped(c)}
        BY <1>0, <1>2 DEF FindTopics, Step, TaskType
    <2>. QED
        BY <1>0, <2>1 DEF KnownOK
<1>3. ASSUME NEW c \in Chats, ChatState(t, c) PROVE Goal
    <2>1. /\ c \in task[t].checks /\ task[t].pc = "depart"
          /\ \/ /\ c \in Channels /\ c \notin member
                /\ task'[t] = [task[t] EXCEPT !.pc = "mute", !.chat = c, !.checks = @ \ {c}]
             \/ task'[t] = [task[t] EXCEPT !.checks = @ \ {c}]
        BY <1>0, <1>3 DEF ChatState, Step
    <2>2. /\ task'[t].todo = task[t].todo /\ task'[t].checks \subseteq task[t].checks
          /\ \/ c \in Channels /\ c \notin member /\ task'[t].pc = "mute" /\ task'[t].chat = c
             \/ task'[t].pc = "depart"
        <3>1. CASE /\ c \in Channels /\ c \notin member
                   /\ task'[t] = [task[t] EXCEPT !.pc = "mute", !.chat = c, !.checks = @ \ {c}]
            BY <1>0, <3>1 DEF TaskType
        <3>2. CASE task'[t] = [task[t] EXCEPT !.checks = @ \ {c}]
            BY <1>0, <2>1, <3>2 DEF TaskType
        <3>. QED
            BY <2>1, <3>1, <3>2
    <2>3. c \in Known
        BY <1>0, <2>1
    <2>. QED
        BY <1>0, <2>2, <2>3 DEF Known
<1>4. ASSUME NEW c \in Chats, ChatStateFails(t, c) PROVE Goal
    <2>1. /\ task'[t].todo = task[t].todo /\ task'[t].checks \subseteq task[t].checks
          /\ task'[t].pc = "depart"
        BY <1>0, <1>4 DEF ChatStateFails, Step, TaskType
    <2>. QED
        BY <1>0, <2>1
<1>5. CASE MuteDeparted(t) \/ EndDeparted(t)
    <2>1. \/ task'[t] = [task[t] EXCEPT !.pc = "depart", !.chat = NoChat]
          \/ task'[t] = [task[t] EXCEPT !.pc = "create"]
        BY <1>0, <1>5 DEF MuteDeparted, EndDeparted, Step
    <2>2. /\ task'[t].todo = task[t].todo /\ task'[t].checks = task[t].checks
          /\ task'[t].pc \in {"depart", "create"}
        BY <1>0, <2>1 DEF TaskType
    <2>. QED
        BY <1>0, <2>2
<1>6. ASSUME NEW c \in Chats, CreateTopic(t, c) PROVE Goal
    <2>1. /\ c \in task[t].todo /\ task'[t].chat = c /\ task'[t].pc = "save"
          /\ task'[t].todo = task[t].todo \ {c} /\ task'[t].checks = task[t].checks
        BY <1>0, <1>6 DEF CreateTopic, Step, TaskType
    <2>. QED
        BY <1>0, <2>1
<1>7. ASSUME NEW c \in Chats, CreateFails(t, c) PROVE Goal
    <2>1. /\ task'[t].todo = task[t].todo \ {c} /\ task'[t].checks = task[t].checks
          /\ task'[t].pc = "create"
        BY <1>0, <1>7 DEF CreateFails, Step, TaskType
    <2>. QED
        BY <1>0, <2>1
<1>8. CASE SaveTopic(t) \/ Backfill(t)
    <2>1. task'[t] = NextChat(t) \/ task'[t] = [task[t] EXCEPT !.pc = "backfill"]
        BY <1>0, <1>8 DEF SaveTopic, Backfill, Step
    <2>2. /\ task'[t].todo = task[t].todo /\ task'[t].checks = task[t].checks
          /\ task'[t].pc \in {"create", "backfill"}
        BY <1>0, <2>1, NextChatType DEF TaskType
    <2>. QED
        BY <1>0, <2>2
<1>9. CASE ReconcileRaises(t) \/ EndReconcile(t)
    BY <1>0, <1>9 DEF ReconcileRaises, EndReconcile, Step, Idle
<1>. QED
    BY <1>1, <1>2, <1>3, <1>4, <1>5, <1>6, <1>7, <1>8, <1>9 DEF Work

LEMMA KnownStep ==
    ASSUME TypeOK, ControlOK, KnownOK, OnlyDepartedAutoMuted, [Next]_vars
    PROVE  KnownOK' /\ OnlyDepartedAutoMuted'
<1>. DEFINE Goal == KnownOK' /\ OnlyDepartedAutoMuted'
<1>1. CASE Crash
    BY <1>1 DEF Crash, muting, KnownOK, OnlyDepartedAutoMuted, Known, Mapped, Idle
<1>2. ASSUME NEW c \in Chats, Leave(c) \/ Join(c) PROVE Goal
    <2>1. /\ left \subseteq left' /\ Known \subseteq Known'
          /\ UNCHANGED <<row, task, autoMuted>>
        BY <1>2 DEF Leave, Join, Known, muting
    <2>. QED
        BY <2>1 DEF KnownOK, OnlyDepartedAutoMuted, Mapped
<1>3. ASSUME NEW c \in Chats, NEW on \in BOOLEAN, Command(c, on) PROVE Goal
    <2>1. UNCHANGED <<member, left, task>> /\ autoMuted' \subseteq autoMuted
        BY <1>3 DEF Command
    <2>2. \A d \in Chats : row'[d].id = row[d].id
        BY <1>3, CommandWrites
    <2>3. (\A d \in Chats : Mapped(d)' <=> Mapped(d)) /\ Known' = Known
        BY <2>1, <2>2 DEF Mapped, Known
    <2>. QED
        BY <2>1, <2>3 DEF KnownOK, OnlyDepartedAutoMuted
<1>4. ASSUME NEW t \in Tasks, NEW force \in BOOLEAN, NEW target \in Chats \cup {NoChat},
             Begin(t, force, target)
      PROVE  Goal
    <2>1. UNCHANGED <<row, autoMuted, left>> /\ Known' = Known
        BY <1>4 DEF Begin, muting, Known
    <2>. QED
        BY <1>4, <2>1, BeginStep DEF KnownOK, OnlyDepartedAutoMuted, Mapped
<1>5. ASSUME NEW t \in Tasks, Work(t) PROVE Goal
    <2>1. UNCHANGED left /\ Known' = Known
        BY <1>5, WorkFrame DEF Known
    <2>2. autoMuted' \subseteq Channels \cap left
        <3>1. CASE MuteDeparted(t)
            <4>1. task[t].chat \in Channels \cap left
                BY <3>1 DEF MuteDeparted, Step, KnownOK
            <4>. QED
                BY <3>1, <4>1, MuteWrites DEF OnlyDepartedAutoMuted
        <3>. QED
            BY <1>5, <3>1, WorkFrame DEF OnlyDepartedAutoMuted
    <2>3. \A c \in Chats : Mapped(c)' => c \in Known
        <3>1. CASE UNCHANGED row
            BY <3>1 DEF Mapped, KnownOK
        <3>2. CASE MuteDeparted(t)
            BY <3>2, MuteWrites DEF Mapped, KnownOK
        <3>3. CASE SaveTopic(t)
            <4>1. task[t].chat \in Known
                BY <3>3 DEF SaveTopic, Step, KnownOK
            <4>. QED
                BY <3>3, <4>1, SaveWrites DEF Mapped, KnownOK
        <3>. QED
            BY <1>5, <3>1, <3>2, <3>3, WorkFrame
    <2>. QED
        BY <1>5, <2>1, <2>2, <2>3, KnownTask, WorkOthers DEF KnownOK, OnlyDepartedAutoMuted
<1>6. CASE UNCHANGED vars
    BY <1>6 DEF vars, muting, KnownOK, OnlyDepartedAutoMuted, Known, Mapped
<1>. QED
    BY <1>1, <1>2, <1>3, <1>4, <1>5, <1>6, NextCases

-----------------------------------------------------------------------------
(* An answered creation of a missing topic is its task's last in the        *)
(* process's life.                                                         *)

LEMMA OnceInit == Init => OnceOK /\ DuplicatesDoNotPileUp
<1>. SUFFICES ASSUME Init PROVE OnceOK /\ DuplicatesDoNotPileUp
    OBVIOUS
<1>1. topics = {}
    BY DEF Init
<1>2. IsFiniteSet(topics)
    BY <1>1, FS_EmptySet
<1>. QED
    BY <1>1, <1>2 DEF OnceOK, DuplicatesDoNotPileUp, Missing

\* A step that leaves the topics and the process alone.
LEMMA OnceFrame ==
    ASSUME TypeOK, OnceOK, DuplicatesDoNotPileUp, UNCHANGED <<topics, crashes>>,
           \A t \in Tasks, c \in Chats :
              Missing(t, c) # {} =>
                 \/ Mapped(c)'
                 \/ task'[t].pc = "save" /\ task'[t].chat = c,
           \A t \in Tasks, c \in Chats :
              ~task'[t].force /\ Holds(t, c)' /\ c \in task'[t].todo => Missing(t, c) = {}
    PROVE  OnceOK' /\ DuplicatesDoNotPileUp'
<1>1. \A t \in Tasks, c \in Chats : Missing(t, c)' = Missing(t, c)
    BY DEF Missing
<1>. QED
    BY <1>1 DEF OnceOK, DuplicatesDoNotPileUp

\* A task leaves the save of a topic by saving it.
LEMMA LeavesSave ==
    ASSUME TypeOK, ControlOK, NEW t \in Tasks, Work(t), task[t].pc = "save"
    PROVE  row'[task[t].chat].id # 0
<1>1. SaveTopic(t)
    BY DEF Work, ListPersonalChats, FindTopics, ChatState, ChatStateFails, MuteDeparted,
           EndDeparted, CreateTopic, CreateFails, Backfill, ReconcileRaises, EndReconcile, Step
<1>. QED
    BY <1>1, SaveWrites

LEMMA MappedStays ==
    ASSUME TypeOK, ControlOK, NEW t \in Tasks, Work(t), NEW c \in Chats, Mapped(c)
    PROVE  Mapped(c)'
BY WorkFrame, MuteWrites, SaveWrites DEF Mapped

\* A task adds a topic for a chat it has to do, and leaves the chat's other topics behind.
LEMMA TopicAdded ==
    ASSUME TypeOK, OnceOK, DuplicatesDoNotPileUp, NEW t \in Tasks, NEW c \in Chats,
           NEW known \in BOOLEAN, topics' = Created(t, c, NextId, known),
           ~task[t].force => Missing(t, c) = {}
    PROVE  /\ IsFiniteSet(topics') /\ DuplicatesDoNotPileUp'
           /\ \A x \in topics' : x.life <= crashes /\ x.id <= Cardinality(topics')
           /\ \A x \in topics' \ topics : x.chat = c /\ x.by = t /\ x.known = known
<1>. DEFINE new == [id |-> NextId, chat |-> c, force |-> task[t].force, by |-> t,
                    life |-> crashes, known |-> known]
<1>1. topics' = topics \cup {new}
    BY DEF Created
<1>2. crashes \in Nat /\ Cardinality(topics) \in Nat /\ \A x \in topics : x.id \in Nat
    BY FS_CardinalityType DEF TypeOK, OnceOK, Ids
<1>3. /\ new.id = Cardinality(topics) + 1 /\ new.chat = c /\ new.by = t
      /\ new.force = task[t].force /\ new.life = crashes /\ new.known = known
    BY DEF NextId
<1>. HIDE DEF new
<1>4. \A x \in topics : x.id <= Cardinality(topics) /\ x.life <= crashes
    BY DEF OnceOK
<1>5. new \notin topics
    BY <1>2, <1>3, <1>4
<1>6. IsFiniteSet(topics') /\ Cardinality(topics') = Cardinality(topics) + 1
    BY <1>1, <1>5, FS_AddElement DEF OnceOK
<1>7. \A x \in topics' : x.life <= crashes /\ x.id <= Cardinality(topics')
    BY <1>1, <1>2, <1>3, <1>4, <1>6
<1>8. DuplicatesDoNotPileUp'
    <2>. SUFFICES ASSUME NEW x \in topics', NEW y \in topics', x.chat = y.chat, x.by = y.by,
                         x.life = y.life, ~x.force, ~y.force, x.known
                  PROVE  x = y \/ y.id < x.id
        BY DEF DuplicatesDoNotPileUp
    <2>1. CASE x \in topics /\ y \in topics
        BY <2>1 DEF DuplicatesDoNotPileUp
    <2>2. CASE x = new /\ y \in topics
        BY <1>2, <1>3, <1>4, <2>2
    <2>3. CASE x \in topics /\ y = new
        BY <1>3, <2>3 DEF Missing
    <2>. QED
        BY <1>1, <2>1, <2>2, <2>3
<1>. QED
    BY <1>1, <1>3, <1>6, <1>7, <1>8

LEMMA OnceCreate ==
    ASSUME TypeOK, OnceOK, DuplicatesDoNotPileUp, NEW t \in Tasks, NEW c \in Chats,
           NEW known \in BOOLEAN, topics' = Created(t, c, NextId, known),
           IF known THEN CreateTopic(t, c) ELSE CreateFails(t, c)
    PROVE  OnceOK' /\ DuplicatesDoNotPileUp'
<1>0. /\ task \in [Tasks -> TaskType] /\ task[t] \in TaskType
      /\ UNCHANGED <<row, crashes>>
    BY DEF TypeOK, CreateTopic, CreateFails, budgets
<1>1. /\ task[t].pc = "create" /\ c \in task[t].todo
      /\ task'[t].force = task[t].force /\ task'[t].todo = task[t].todo \ {c}
      /\ known => task'[t].pc = "save" /\ task'[t].chat = c
      /\ \A u \in Tasks : u # t => task'[u] = task[u]
    <2>1. CASE known
        <3>. DEFINE r == [task[t] EXCEPT !.pc = "save", !.chat = c, !.id = NextId,
                                         !.todo = @ \ {c}]
        <3>1. task[t].pc = "create" /\ c \in task[t].todo /\ task' = [task EXCEPT ![t] = r]
            BY <2>1 DEF CreateTopic, Step
        <3>2. /\ r.force = task[t].force /\ r.todo = task[t].todo \ {c}
              /\ r.pc = "save" /\ r.chat = c
            BY <1>0 DEF TaskType
        <3>. HIDE DEF r
        <3>. QED
            BY <1>0, <3>1, <3>2
    <2>2. CASE ~known
        <3>1. /\ task[t].pc = "create" /\ c \in task[t].todo
              /\ task' = [task EXCEPT ![t] = [task[t] EXCEPT !.todo = @ \ {c}]]
            BY <2>2 DEF CreateFails, Step
        <3>2. [task[t] EXCEPT !.todo = @ \ {c}].force = task[t].force
            BY <1>0 DEF TaskType
        <3>3. [task[t] EXCEPT !.todo = @ \ {c}].todo = task[t].todo \ {c}
            BY <1>0 DEF TaskType
        <3>. QED
            BY <1>0, <2>2, <3>1, <3>2, <3>3
    <2>. QED
        BY <2>1, <2>2
<1>2. ~task[t].force => Missing(t, c) = {}
    BY <1>1 DEF OnceOK, Holds
<1>3. /\ IsFiniteSet(topics') /\ DuplicatesDoNotPileUp'
      /\ \A x \in topics' : x.life <= crashes /\ x.id <= Cardinality(topics')
      /\ \A x \in topics' \ topics : x.chat = c /\ x.by = t /\ x.known = known
      /\ topics \subseteq topics'
    BY <1>2, TopicAdded DEF Created
<1>4. \A u \in Tasks, d \in Chats : u # t \/ d # c \/ ~known => Missing(u, d)' = Missing(u, d)
    BY <1>0, <1>3 DEF Missing
<1>5. ASSUME NEW u \in Tasks, NEW d \in Chats, Missing(u, d)' # {}
      PROVE  Mapped(d)' \/ (task'[u].pc = "save" /\ task'[u].chat = d)
    <2>1. CASE u = t /\ d = c /\ known
        BY <1>1, <2>1
    <2>2. CASE ~(u = t /\ d = c /\ known)
        BY <1>0, <1>1, <1>4, <1>5, <2>2 DEF OnceOK, Mapped
    <2>. QED
        BY <2>1, <2>2
<1>6. ASSUME NEW u \in Tasks, NEW d \in Chats,
             ~task'[u].force, Holds(u, d)', d \in task'[u].todo
      PROVE  Missing(u, d)' = {}
    <2>1. CASE u = t
        BY <1>1, <1>4, <1>6, <2>1 DEF OnceOK, Holds
    <2>2. CASE u # t
        BY <1>1, <1>4, <1>6, <2>2 DEF OnceOK, Holds
    <2>. QED
        BY <2>1, <2>2
<1>. QED
    BY <1>0, <1>3, <1>5, <1>6 DEF OnceOK

LEMMA OnceStep ==
    ASSUME TypeOK, ControlOK, OnceOK, DuplicatesDoNotPileUp, [Next]_vars
    PROVE  OnceOK' /\ DuplicatesDoNotPileUp'
<1>. DEFINE Goal == OnceOK' /\ DuplicatesDoNotPileUp'
<1>1. CASE Crash
    <2>1. topics' = topics /\ crashes' = crashes + 1 /\ crashes \in Nat
        BY <1>1 DEF Crash, TypeOK
    <2>2. \A x \in topics : x.life \in Nat /\ x.life <= crashes /\ x.id <= Cardinality(topics)
        BY DEF TypeOK, OnceOK
    <2>3. \A t \in Tasks, c \in Chats : Missing(t, c)' = {}
        BY <2>1, <2>2 DEF Missing
    <2>4. \A x \in topics' : x.life <= crashes' /\ x.id <= Cardinality(topics')
        BY <2>1, <2>2
    <2>. QED
        BY <2>1, <2>3, <2>4 DEF OnceOK, DuplicatesDoNotPileUp
<1>2. ASSUME NEW c \in Chats, Leave(c) \/ Join(c) PROVE Goal
    <2>1. UNCHANGED <<topics, row, task, crashes>>
        BY <1>2 DEF Leave, Join, budgets
    <2>2. \A t \in Tasks, d \in Chats : (Holds(t, d)' <=> Holds(t, d)) /\ (Mapped(d)' <=> Mapped(d))
        BY <2>1 DEF Holds, Mapped
    <2>. QED
        BY <2>1, <2>2, OnceFrame DEF OnceOK
<1>3. ASSUME NEW c \in Chats, NEW on \in BOOLEAN, Command(c, on) PROVE Goal
    <2>1. UNCHANGED <<topics, task, crashes>>
        BY <1>3 DEF Command
    <2>2. \A d \in Chats : row'[d].id = row[d].id
        BY <1>3, CommandWrites
    <2>3. \A t \in Tasks, d \in Chats : (Holds(t, d)' <=> Holds(t, d)) /\ (Mapped(d)' <=> Mapped(d))
        BY <2>1, <2>2 DEF Holds, Mapped
    <2>. QED
        BY <2>1, <2>3, OnceFrame DEF OnceOK
<1>4. ASSUME NEW t \in Tasks, NEW force \in BOOLEAN, NEW target \in Chats \cup {NoChat},
             Begin(t, force, target)
      PROVE  Goal
    <2>1. UNCHANGED <<topics, row, crashes>> /\ task[t].pc = "idle"
        BY <1>4 DEF Begin, Step, budgets
    <2>2. \A d \in Chats : ~Holds(t, d)' /\ (Mapped(d)' <=> Mapped(d))
        BY <1>4, <2>1, BeginStep DEF Holds, Mapped
    <2>3. \A u \in Tasks, d \in Chats : u # t => task'[u] = task[u] /\ (Holds(u, d)' <=> Holds(u, d))
        BY <1>4, BeginStep, HoldsOthers
    <2>. QED
        BY <2>1, <2>2, <2>3, OnceFrame DEF OnceOK
<1>5. ASSUME NEW t \in Tasks, Work(t) PROVE Goal
    <2>1. CASE UNCHANGED topics
        <3>1. crashes' = crashes
            BY <1>5, WorkFrame
        <3>2. ASSUME NEW u \in Tasks, NEW c \in Chats, Missing(u, c) # {}
              PROVE  Mapped(c)' \/ (task'[u].pc = "save" /\ task'[u].chat = c)
            <4>1. CASE Mapped(c)
                BY <1>5, <4>1, MappedStays
            <4>2. CASE u = t /\ task[u].pc = "save" /\ task[u].chat = c
                BY <1>5, <4>2, LeavesSave DEF Mapped
            <4>3. CASE u # t /\ task[u].pc = "save" /\ task[u].chat = c
                BY <1>5, <4>3, WorkOthers
            <4>. QED
                BY <3>2, <4>1, <4>2, <4>3 DEF OnceOK
        <3>3. ASSUME NEW u \in Tasks, NEW c \in Chats,
                     ~task'[u].force, Holds(u, c)', c \in task'[u].todo
              PROVE  Missing(u, c) = {}
            <4>1. CASE u # t
                BY <1>5, <3>3, <4>1, WorkOthers, HoldsOthers DEF OnceOK
            <4>2. CASE u = t /\ FindTopics(t) /\ ~Mapped(c)
                BY <4>2 DEF FindTopics, Step, OnceOK
            <4>3. CASE u = t /\ Holds(t, c) /\ c \in task[t].todo /\ ~task[t].force
                BY <4>3 DEF OnceOK
            <4>. QED
                BY <1>5, <3>3, <4>1, <4>2, <4>3, HoldsStep
        <3>. QED
            BY <2>1, <3>1, <3>2, <3>3, OnceFrame
    <2>2. ASSUME NEW c \in Chats, CreateTopic(t, c) \/ CreateFails(t, c), topics' # topics
          PROVE  Goal
        <3>1. PICK known \in BOOLEAN : /\ topics' = Created(t, c, NextId, known)
                                      /\ IF known THEN CreateTopic(t, c) ELSE CreateFails(t, c)
            BY <2>2 DEF CreateTopic, CreateFails
        <3>. QED
            BY <3>1, OnceCreate
    <2>. QED
        BY <1>5, <2>1, <2>2, WorkFrame
<1>6. CASE UNCHANGED vars
    <2>1. UNCHANGED <<topics, row, task, crashes>>
        BY <1>6 DEF vars, budgets
    <2>2. \A t \in Tasks, d \in Chats : (Holds(t, d)' <=> Holds(t, d)) /\ (Mapped(d)' <=> Mapped(d))
        BY <2>1 DEF Holds, Mapped
    <2>. QED
        BY <2>1, <2>2, OnceFrame DEF OnceOK
<1>. QED
    BY <1>1, <1>2, <1>3, <1>4, <1>5, <1>6, NextCases

-----------------------------------------------------------------------------
(* The theorems.                                                           *)

\* The strengthened invariant holds of every behaviour of the reconciling tasks
\* and the commands beside them.
THEOREM Inductive == Spec => []IInv
<1>1. Init => IInv
    BY TypeInit, ControlInit, CommandsInit, KnownInit, OnceInit DEF IInv
<1>2. ASSUME IInv, [Next]_vars PROVE IInv'
    <2>1. IsFiniteSet(topics)
        BY <1>2 DEF IInv, OnceOK
    <2>. QED
        BY <1>2, <2>1, TypeStep, ControlStep, RowStep, SnapStep, KnownStep, OnceStep DEF IInv
<1>. QED
    BY <1>1, <1>2, PTL DEF Spec

\* Every reachable state is well typed; a topic's id is one Telegram gave.
THEOREM TypeCorrect == Spec => []TypeOK
<1>1. IInv => TypeOK
    BY DEF IInv
<1>. QED
    BY <1>1, Inductive, PTL

\* /mute and /unmute stand in the table through any number of overlapping
\* reconciles, unless the command met one that had read the topic
\* (_create_topic_with_backfill).
THEOREM CommandsStandAlways == Spec => []CommandsStand
<1>1. IInv => CommandsStand
    BY DEF IInv, RowOK, CommandsStand
<1>. QED
    BY <1>1, Inductive, PTL

\* A topic is muted by reconcile only for a channel the user had left
\* (_mute_departed_channels).
THEOREM AutoMuteIsForDeparted == Spec => []OnlyDepartedAutoMuted
<1>1. IInv => OnlyDepartedAutoMuted
    BY DEF IInv
<1>. QED
    BY <1>1, Inductive, PTL

\* Between two crashes, a creation of a missing topic that was answered is the last its
\* task makes for the chat; those before it raised, whatever they left in Telegram
\* (_reconcile).
THEOREM OneMissingTopicPerTask == Spec => []DuplicatesDoNotPileUp
<1>1. IInv => DuplicatesDoNotPileUp
    BY DEF IInv
<1>. QED
    BY <1>1, Inductive, PTL
=============================================================================
