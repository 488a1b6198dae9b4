----------------------------- MODULE Reconcile -----------------------------
(***************************************************************************)
(* The topics of one bridged user under reconcile: the poller's hourly     *)
(* run, /start and /resync are tasks that interleave at every await with   *)
(* each other and with /mute and /unmute.  A task works on the topics it   *)
(* read when it began; the topic table is written row by row.              *)
(*                                                                         *)
(* Messages, backfills and cursors are InboundSync's.                      *)
(* MAX and Telegram are external: what a call returns is chosen freely     *)
(* within what the code relies on.                                         *)
(***************************************************************************)
EXTENDS Naturals, FiniteSets

CONSTANTS
    Chats,         \* the MAX chats the user may be in
    Channels,      \* those that are channels
    Handlers,      \* running /start and /resync handlers
    Poller,        \* the background poller's reconcile
    MaxTopics,     \* bound: topics Telegram lets the user have
    MaxCommands,   \* bound: /mute and /unmute commands
    MaxCrashes,    \* bound: process crashes
    NoChat

ASSUME ChatsAssumption ==
    IsFiniteSet(Chats) /\ Channels \subseteq Chats /\ NoChat \notin Chats
ASSUME TasksAssumption == IsFiniteSet(Handlers) /\ Poller \notin Handlers
ASSUME BoundsAssumption ==
    /\ MaxTopics \in Nat /\ MaxCommands \in Nat /\ MaxCrashes \in Nat

Tasks == Handlers \cup {Poller}

VARIABLES
    member,                                        \* chats the user is in
    topics,                                        \* what Telegram has created
    row,                                           \* the table telegram_topics
    task,                                          \* the running reconciles
    commands, crashes,                             \* environment bounds
    wish, raced, autoMuted, left                   \* what was observed

budgets == <<commands, crashes>>
muting  == <<wish, raced, autoMuted>>
vars    == <<member, topics, row, task, budgets, muting, left>>

Ids   == 1..MaxTopics
NoRow == [id |-> 0, enabled |-> TRUE, since |-> 0]
Rows  == [id : 0..MaxTopics, enabled : BOOLEAN, since : Nat]
Idle  == [pc |-> "idle", force |-> FALSE, target |-> NoChat, todo |-> {}, checks |-> {},
          chat |-> NoChat, id |-> 0, snap |-> [c \in Chats |-> NoRow]]

Mapped(c) == row[c].id # 0

\* t has read the row of c and may still write one made from what it read.
Holds(t, c) ==
    \/ task[t].pc \notin {"idle", "list", "read"} /\ c \in task[t].todo
    \/ task[t].pc = "save" /\ c = task[t].chat

Init ==
    /\ member \in SUBSET Chats /\ topics = {}
    /\ row = [c \in Chats |-> NoRow]
    /\ task = [t \in Tasks |-> Idle]
    /\ commands = 0 /\ crashes = 0
    /\ wish = [c \in Chats |-> [enabled |-> TRUE, since |-> 0]]
    /\ raced = {} /\ autoMuted = {} /\ left = {}

-----------------------------------------------------------------------------
(* The user, in MAX and in Telegram.                                       *)

Leave(c) ==
    /\ c \in member
    /\ member' = member \ {c} /\ left' = left \cup {c}
    /\ UNCHANGED <<topics, row, task, budgets, muting>>

Join(c) ==
    /\ c \notin member
    /\ member' = member \cup {c}
    /\ UNCHANGED <<topics, row, task, budgets, muting, left>>

\* set_inbound_enabled, sent in the mapped topic; the commands count as the clock
\* of inbound_since_ms.
Command(c, on) ==
    /\ Mapped(c) /\ commands < MaxCommands /\ commands' = commands + 1
    /\ row' = [row EXCEPT ![c].enabled = on, ![c].since = IF on THEN commands + 1 ELSE @]
    /\ wish' = [wish EXCEPT ![c].enabled = on, ![c].since = IF on THEN commands + 1 ELSE @]
    /\ raced' = IF \E t \in Tasks : Holds(t, c) THEN raced \cup {c}
                ELSE IF on THEN raced \ {c} ELSE raced
    /\ autoMuted' = autoMuted \ {c}
    /\ UNCHANGED <<member, topics, task, crashes, left>>

Mute(c)   == Command(c, FALSE)
Unmute(c) == Command(c, TRUE)

Crash ==
    /\ crashes < MaxCrashes /\ crashes' = crashes + 1
    /\ task' = [t \in Tasks |-> Idle]
    /\ UNCHANGED <<member, topics, row, commands, muting, left>>

-----------------------------------------------------------------------------
(* _reconcile: what the task reads.                                        *)

Step(t, from, r) == task[t].pc = from /\ task' = [task EXCEPT ![t] = r]

Begin(t, force, target) ==
    /\ Step(t, "idle", [Idle EXCEPT !.pc = "list", !.force = force, !.target = target])
    /\ UNCHANGED <<member, topics, row, budgets, muting, left>>

\* _resolve_target_chats: a chat id, or a user id that only one chat answers to.
Targeted(t, listed) == IF task[t].target = NoChat THEN listed ELSE listed \cap {task[t].target}

\* fetch_chats may leave out chats the user is in; a target that is not listed
\* is refused.
ListPersonalChats(t) ==
    /\ \E listed \in SUBSET member :
         LET found == Targeted(t, listed) IN
         Step(t, "list", IF task[t].target = NoChat \/ found # {}
                         THEN [task[t] EXCEPT !.pc = "read", !.todo = found]
                         ELSE Idle)
    /\ UNCHANGED <<member, topics, row, budgets, muting, left>>

\* Mutant of FindTopics: topics that exist are created again.
FindTopicsForgets(t) ==
    /\ Step(t, "read", [task[t] EXCEPT !.pc = "create", !.snap = row])
    /\ UNCHANGED <<member, topics, row, budgets, muting, left>>

\* Only a full reconcile looks at the enabled topics of unlisted chats.
FindTopics(t) ==
    /\ LET listed == task[t].todo IN
       Step(t, "read",
            [task[t] EXCEPT
               !.pc     = IF task[t].target = NoChat THEN "depart" ELSE "create",
               !.snap   = row,
               !.checks = IF task[t].target # NoChat THEN {}
                          ELSE {c \in Chats \ listed : Mapped(c) /\ row[c].enabled},
               !.todo   = {c \in listed : ~Mapped(c) \/ task[t].force}])
    /\ UNCHANGED <<member, topics, row, budgets, muting, left>>

-----------------------------------------------------------------------------
(* _mute_departed_channels.                                                *)

\* Mutant of ChatState: a channel that is not listed is taken for left.
ChatStateUnread(t, c) ==
    /\ c \in task[t].checks
    /\ Step(t, "depart", IF c \in Channels
                         THEN [task[t] EXCEPT !.pc = "mute", !.chat = c, !.checks = @ \ {c}]
                         ELSE [task[t] EXCEPT !.checks = @ \ {c}])
    /\ UNCHANGED <<member, topics, row, budgets, muting, left>>

\* The fresh lookup: a channel whose participants do not include the user.
ChatState(t, c) ==
    /\ c \in task[t].checks
    /\ Step(t, "depart", IF c \in Channels /\ c \notin member
                         THEN [task[t] EXCEPT !.pc = "mute", !.chat = c, !.checks = @ \ {c}]
                         ELSE [task[t] EXCEPT !.checks = @ \ {c}])
    /\ UNCHANGED <<member, topics, row, budgets, muting, left>>

ChatStateFails(t, c) ==
    /\ c \in task[t].checks
    /\ Step(t, "depart", [task[t] EXCEPT !.checks = @ \ {c}])
    /\ UNCHANGED <<member, topics, row, budgets, muting, left>>

\* The update names the topic the task read; a topic replaced since is left alone.
MuteDeparted(t) ==
    /\ Step(t, "mute", [task[t] EXCEPT !.pc = "depart", !.chat = NoChat])
    /\ LET c == task[t].chat IN
       IF row[c].id = task[t].snap[c].id
       THEN row' = [row EXCEPT ![c].enabled = FALSE] /\ autoMuted' = autoMuted \cup {c}
       ELSE UNCHANGED <<row, autoMuted>>
    /\ UNCHANGED <<member, topics, budgets, wish, raced, left>>

EndDeparted(t) ==
    /\ task[t].checks = {}
    /\ Step(t, "depart", [task[t] EXCEPT !.pc = "create"])
    /\ UNCHANGED <<member, topics, row, budgets, muting, left>>

-----------------------------------------------------------------------------
(* _create_topic_with_backfill.                                            *)

\* What Telegram holds after t asked it for a topic; known: the answer came back.
Created(t, c, id, known) ==
    topics \cup {[id |-> id, chat |-> c, force |-> task[t].force, by |-> t,
                  life |-> crashes, known |-> known]}
NextId == Cardinality(topics) + 1

\* Mutant of CreateTopic: the new topic gets the id of the topic before it.
CreateTopicShifted(t, c) ==
    /\ c \in task[t].todo /\ Cardinality(topics) <= MaxTopics
    /\ topics' = Created(t, c, Cardinality(topics), TRUE)
    /\ Step(t, "create", [task[t] EXCEPT !.pc = "save", !.chat = c, !.id = Cardinality(topics),
                                         !.todo = @ \ {c}])
    /\ UNCHANGED <<member, row, budgets, muting, left>>

CreateTopic(t, c) ==
    /\ c \in task[t].todo /\ NextId <= MaxTopics
    /\ topics' = Created(t, c, NextId, TRUE)
    /\ Step(t, "create", [task[t] EXCEPT !.pc = "save", !.chat = c, !.id = NextId,
                                         !.todo = @ \ {c}])
    /\ UNCHANGED <<member, row, budgets, muting, left>>

\* The call raises.  Telegram may have created the topic all the same: nobody saves it.
CreateFails(t, c) ==
    /\ c \in task[t].todo
    /\ \/ UNCHANGED topics
       \/ NextId <= MaxTopics /\ topics' = Created(t, c, NextId, FALSE)
    /\ Step(t, "create", [task[t] EXCEPT !.todo = @ \ {c}])
    /\ UNCHANGED <<member, row, budgets, muting, left>>

NextChat(t) == [task[t] EXCEPT !.pc = "create", !.chat = NoChat, !.id = 0]

\* Mutant of SaveTopic: the new row starts unmuted and without a window.
SaveTopicAfresh(t) ==
    /\ Step(t, "save", [task[t] EXCEPT !.pc = "backfill"])
    /\ row' = [row EXCEPT ![task[t].chat] = [NoRow EXCEPT !.id = task[t].id]]
    /\ UNCHANGED <<member, topics, budgets, muting, left>>

\* The new row keeps the mute and the window of the row the task read.
SaveTopic(t) ==
    LET old == task[t].snap[task[t].chat] IN
    /\ Step(t, "save", IF old.enabled THEN [task[t] EXCEPT !.pc = "backfill"] ELSE NextChat(t))
    /\ row' = [row EXCEPT ![task[t].chat] = [old EXCEPT !.id = task[t].id]]
    /\ UNCHANGED <<member, topics, budgets, muting, left>>

\* The backfill and its cursor are InboundSync's: here the time they take.
Backfill(t) ==
    /\ Step(t, "backfill", NextChat(t))
    /\ UNCHANGED <<member, topics, row, budgets, muting, left>>

\* The session fails at start or in the chat list, or is lost while a backfill
\* fetches: the reconcile ends with the chats that were left.
ReconcileRaises(t) ==
    /\ task[t].pc \in {"list", "backfill"}
    /\ task' = [task EXCEPT ![t] = Idle]
    /\ UNCHANGED <<member, topics, row, budgets, muting, left>>

EndReconcile(t) ==
    /\ task[t].todo = {} /\ Step(t, "create", Idle)
    /\ UNCHANGED <<member, topics, row, budgets, muting, left>>

-----------------------------------------------------------------------------
\* /start reconciles like the poller; /resync forces, with or without a target.
Commands ==
    \/ Begin(Poller, FALSE, NoChat)
    \/ \E t \in Handlers : Begin(t, FALSE, NoChat)
    \/ \E t \in Handlers, target \in Chats \cup {NoChat} : Begin(t, TRUE, target)

Environment ==
    \/ \E c \in Chats : Leave(c) \/ Join(c) \/ Mute(c) \/ Unmute(c)
    \/ Crash

Work(t) ==
    \/ ListPersonalChats(t) \/ FindTopics(t)
    \/ \E c \in Chats : ChatState(t, c) \/ ChatStateFails(t, c)
    \/ MuteDeparted(t) \/ EndDeparted(t)
    \/ \E c \in Chats : CreateTopic(t, c) \/ CreateFails(t, c)
    \/ SaveTopic(t) \/ Backfill(t) \/ ReconcileRaises(t) \/ EndReconcile(t)

Next == Commands \/ Environment \/ \E t \in Tasks : Work(t)

Spec == Init /\ [][Next]_vars

-----------------------------------------------------------------------------
(* Properties.                                                             *)

TaskType ==
    [pc : {"idle", "list", "read", "depart", "mute", "create", "save", "backfill"},
     force : BOOLEAN, target : Chats \cup {NoChat}, todo : SUBSET Chats,
     checks : SUBSET Chats, chat : Chats \cup {NoChat}, id : 0..MaxTopics,
     snap : [Chats -> Rows]]

\* Every variable keeps its type.
TypeOK ==
    /\ member \subseteq Chats /\ left \subseteq Chats
    /\ topics \subseteq [id : Ids, chat : Chats, force : BOOLEAN, by : Tasks, life : Nat,
                  known : BOOLEAN]
    /\ row \in [Chats -> Rows]
    /\ task \in [Tasks -> TaskType]
    /\ commands \in Nat /\ crashes \in Nat
    /\ wish \in [Chats -> [enabled : BOOLEAN, since : Nat]]
    /\ raced \subseteq Chats /\ autoMuted \subseteq Chats

\* A topic's mute and its window are what the user's commands last made them,
\* whatever was recreated since, unless a command met a reconcile that had
\* already read the topic, or the topic was muted for leaving the channel
\* (_create_topic_with_backfill passes both on from the topics it read).
CommandsStand ==
    \A c \in Chats : Mapped(c) /\ c \notin raced =>
        /\ row[c].since = wish[c].since
        /\ row[c].enabled = wish[c].enabled \/ c \in autoMuted

\* Reconcile mutes only channels the user had left, however short the chat list
\* it was given (_mute_departed_channels, get_chat_state).
OnlyDepartedAutoMuted == autoMuted \subseteq Channels \cap left

\* Overlapping reconciles may create a chat's missing topic twice, and a creation that
\* raised may leave a topic nobody saves and be tried again, so RECONCILE-03 ("existing
\* chats do not duplicate topics") is not promised.  But it ends there: between two
\* crashes, a creation of a missing topic that was answered is the last that its task
\* makes for the chat, whatever the other tasks do (_reconcile).
DuplicatesDoNotPileUp ==
    \A x, y \in topics :
        x.chat = y.chat /\ x.by = y.by /\ x.life = y.life /\ ~x.force /\ ~y.force /\ x.known
        => x = y \/ y.id < x.id

\* The design of /mute: a manually muted topic is never automatically unmuted.
MuteSurvivesResync == \A c \in Chats : ~wish[c].enabled => ~row[c].enabled

-----------------------------------------------------------------------------
(* The inductive strengthening of the proofs (ReconcileProofs).            *)

\* What each program point of a task has in hand.
ControlOK ==
    \A t \in Tasks :
        /\ task[t].pc \in {"mute", "save", "backfill"} => task[t].chat \in Chats
        /\ task[t].pc = "save" => task[t].id # 0

\* The commands stand in the table, and in what a task may still write from.
RowOK ==
    \A c \in Chats \ raced :
        row[c].since = wish[c].since /\ (row[c].enabled = wish[c].enabled \/ c \in autoMuted)
SnapOK ==
    \A t \in Tasks, c \in Chats \ raced : Holds(t, c) =>
        /\ task[t].snap[c].since = wish[c].since
        /\ task[t].snap[c].enabled = wish[c].enabled \/ c \in autoMuted

\* Every chat the bridge knows is one the user is in or left.
Known == member \cup left
KnownOK ==
    /\ \A c \in Chats : Mapped(c) => c \in Known
    /\ \A t \in Tasks : /\ task[t].todo \subseteq Known /\ task[t].checks \subseteq Known
                        /\ task[t].pc = "save" => task[t].chat \in Known
                        /\ task[t].pc = "mute" => task[t].chat \in Channels \cap left

\* A missing topic whose creation was answered in this life of the process is saved, or
\* about to be, and its creator has it no longer to do.
Missing(t, c) ==
    {x \in topics : x.chat = c /\ x.by = t /\ x.life = crashes /\ ~x.force /\ x.known}
OnceOK ==
    /\ IsFiniteSet(topics)
    /\ \A x \in topics : x.life <= crashes /\ x.id <= Cardinality(topics)
    /\ \A t \in Tasks, c \in Chats : Missing(t, c) # {} =>
          \/ Mapped(c)
          \/ task[t].pc = "save" /\ task[t].chat = c
    /\ \A t \in Tasks, c \in Chats :
          ~task[t].force /\ Holds(t, c) /\ c \in task[t].todo => Missing(t, c) = {}

IInv ==
    /\ TypeOK /\ ControlOK /\ RowOK /\ SnapOK /\ KnownOK
    /\ OnlyDepartedAutoMuted /\ OnceOK /\ DuplicatesDoNotPileUp
=============================================================================
