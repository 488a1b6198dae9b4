---------------------------- MODULE SharedTables ----------------------------
(***************************************************************************)
(* Several bridged users over one SQLite file.  A dialogue between two of  *)
(* them, or a group both are in, has one MAX id, and the tables differ in  *)
(* what they are keyed by: a topic belongs to a user and a chat; a chat    *)
(* row and a cursor row to a chat alone, so the last writer owns it; a     *)
(* link to a message, whoever it was delivered to.  One poller task serves *)
(* the users in turn and reconciles them; the /start or /resync of each    *)
(* user may run beside it, and beside the others'.                         *)
(*                                                                         *)
(* What InboundSync and Reconcile model of one user (mutes, dirty chats,   *)
(* reconnects, calls other than sends that fail) is left out here.         *)
(***************************************************************************)
EXTENDS Naturals, Sequences, FiniteSets

CONSTANTS
    Users, Chats,
    MaxMessages,   \* bound: texts a chat ever holds
    HistoryLimit,  \* fetch_history depth of a poll (50 in the code)
    BackfillCount, \* messages backfilled into a new topic
    MaxCommands,   \* bound: /start and /resync commands
    MaxFaults,     \* bound: sends and backfills that fail
    MaxCrashes,    \* bound: process crashes
    Nobody

ASSUME NobodyAssumption == Nobody \notin Users \cup Chats
ASSUME BoundsAssumption ==
    /\ MaxMessages \in Nat /\ HistoryLimit \in Nat \ {0} /\ BackfillCount \in Nat \ {0}
    /\ MaxCommands \in Nat /\ MaxFaults \in Nat /\ MaxCrashes \in Nat

VARIABLES
    members,                        \* the bridged users who are in a chat
    posted,                         \* MAX: the texts of a chat are 1..posted[c]
    pushed,                         \* texts in the live buffer of each user's client
    p, rec,                         \* the poller, and the reconciles
    chatRow, topic, cursor, linked, \* SQLite: the last saver of a row is its owner
    got, sends, failures, passed,   \* what was observed
    commands, faults, crashes        \* environment bounds

env      == <<commands, faults, crashes>>
tables   == <<chatRow, topic, cursor, linked>>
observed == <<got, sends, failures, passed>>
vars     == <<members, posted, pushed, p, rec, tables, observed, env>>

Owners == Users \cup {Nobody}
Msgs   == Chats \X (1..MaxMessages)
Min2(a, b) == IF a < b THEN a ELSE b

\* get_messages: the texts above the cursor among the newest n, oldest first.
Fetched(c, above, n) ==
    LET lo == IF above + n < posted[c] THEN posted[c] - n ELSE Min2(above, posted[c]) IN
    [i \in 1..(posted[c] - lo) |-> <<c, lo + i>>]

\* sync_cursors.get finds the row only for the user who wrote it last.
CursorOf(u, c) == IF cursor[c].owner = u THEN cursor[c].last ELSE 0

Ready   == [pc |-> "idle", user |-> Nobody, chat |-> Nobody, batch |-> <<>>,
            above |-> 0, latest |-> 0]
Resting == [pc |-> "idle", force |-> FALSE, chats |-> {}, todo |-> {}, chat |-> Nobody]
Current == p.batch[1]

\* The reconciles: one per user for his commands, and the one the poller waits for.
Runners    == Users \cup {Nobody}
UserOf(r)  == IF r = Nobody THEN p.user ELSE r
ChatsOf(u) == {c \in Chats : u \in members[c]}
Listed(chats, force) ==
    [pc |-> "save", force |-> force, chats |-> chats, todo |-> chats, chat |-> Nobody]

Init ==
    /\ members \in [Chats -> SUBSET Users \ {{}}]
    /\ posted = [c \in Chats |-> 0] /\ pushed = [u \in Users |-> {}]
    /\ p = Ready /\ rec = [r \in Runners |-> Resting]
    /\ chatRow = [c \in Chats |-> Nobody]
    /\ topic = [u \in Users |-> [c \in Chats |-> Nobody]]
    /\ cursor = [c \in Chats |-> [owner |-> Nobody, last |-> 0]] /\ linked = {}
    /\ got = [u \in Users |-> {}]
    /\ sends = [m \in Msgs |-> 0] /\ failures = [m \in Msgs |-> 0]
    /\ passed = [u \in Users |-> {}]
    /\ commands = 0 /\ faults = 0 /\ crashes = 0

Fault == faults < MaxFaults /\ faults' = faults + 1 /\ UNCHANGED <<commands, crashes>>

-----------------------------------------------------------------------------
(* MAX, and crashes.                                                       *)

\* A text written in a chat is pushed to those members whose socket is up.
Post(c) ==
    /\ posted[c] < MaxMessages
    /\ posted' = [posted EXCEPT ![c] = @ + 1]
    /\ \E online \in SUBSET members[c] :
         pushed' = [u \in Users |-> IF u \in online THEN pushed[u] \cup {<<c, posted[c] + 1>>}
                                                    ELSE pushed[u]]
    /\ UNCHANGED <<members, p, rec, tables, observed, env>>

Crash ==
    /\ crashes < MaxCrashes /\ crashes' = crashes + 1
    /\ pushed' = [u \in Users |-> {}]
    /\ p' = Ready /\ rec' = [r \in Runners |-> Resting]
    /\ UNCHANGED <<members, posted, tables, observed, commands, faults>>

-----------------------------------------------------------------------------
(* The poller: live messages, polls of a chat, and their delivery.         *)

\* The hourly catch-up of a user reconciles before it polls his topics.
CatchUpUser(u) ==
    /\ p.pc = "idle"
    /\ p' = [p EXCEPT !.pc = "reconcile", !.user = u]
    /\ rec' = [rec EXCEPT ![Nobody] = Listed(ChatsOf(u), FALSE)]
    /\ UNCHANGED <<members, posted, pushed, tables, observed, env>>

\* A live message of a chat without a topic is dropped and makes him reconcile too.
LiveUnmapped(u, m) ==
    /\ m \in pushed[u] /\ topic[u][m[1]] = Nobody /\ p.pc = "idle"
    /\ pushed' = [pushed EXCEPT ![u] = @ \ {m}]
    /\ p' = [p EXCEPT !.pc = "reconcile", !.user = u]
    /\ rec' = [rec EXCEPT ![Nobody] = Listed(ChatsOf(u), FALSE)]
    /\ UNCHANGED <<members, posted, tables, observed, env>>

LiveMessage(u, m) ==
    /\ p.pc = "idle" /\ m \in pushed[u] /\ topic[u][m[1]] # Nobody
    /\ pushed' = [pushed EXCEPT ![u] = @ \ {m}]
    /\ p' = [p EXCEPT !.pc = "deliver", !.user = u, !.chat = m[1], !.batch = <<m>>]
    /\ UNCHANGED <<members, posted, rec, tables, observed, env>>

\* The topic and the cursor are read before the history is fetched.
PollChat(u, c) ==
    /\ p.pc = "idle" /\ topic[u][c] # Nobody
    /\ p' = [p EXCEPT !.pc = "fetch", !.user = u, !.chat = c, !.above = CursorOf(u, c)]
    /\ UNCHANGED <<members, posted, pushed, rec, tables, observed, env>>

GetMessages ==
    /\ p.pc = "fetch"
    /\ p' = [p EXCEPT !.pc = "deliver", !.above = 0,
                      !.batch = Fetched(p.chat, p.above, HistoryLimit)]
    /\ UNCHANGED <<members, posted, pushed, rec, tables, observed, env>>

Delivering == p.pc = "deliver" /\ p.batch # <<>>
Passed     == [p EXCEPT !.pc = "deliver", !.batch = Tail(@), !.latest = Current[2]]

\* A link counts as delivered, whoever the message was delivered to.
AlreadyLinked ==
    /\ Delivering /\ Current \in linked
    /\ passed' = [passed EXCEPT ![p.user] = @ \cup {Current}]
    /\ p' = Passed
    /\ UNCHANGED <<members, posted, pushed, rec, tables, got, sends, failures, env>>

\* Mutant of SendMessageToTelegram: the link is not looked up.
SendUnchecked ==
    /\ Delivering
    /\ got' = [got EXCEPT ![p.user] = @ \cup {Current}]
    /\ sends' = [sends EXCEPT ![Current] = @ + 1]
    /\ p' = [p EXCEPT !.pc = "link"]
    /\ UNCHANGED <<members, posted, pushed, rec, tables, failures, passed, env>>

SendMessageToTelegram ==
    /\ Delivering /\ Current \notin linked
    /\ got' = [got EXCEPT ![p.user] = @ \cup {Current}]
    /\ sends' = [sends EXCEPT ![Current] = @ + 1]
    /\ p' = [p EXCEPT !.pc = "link"]
    /\ UNCHANGED <<members, posted, pushed, rec, tables, failures, passed, env>>

\* Mutant of SendFails: a text whose delivery raised counts as delivered.
SendFailsLinked ==
    /\ (Delivering /\ Current \notin linked) \/ p.pc = "link"
    /\ Fault
    /\ failures' = [failures EXCEPT ![Current] = @ + 1]
    /\ linked' = linked \cup {Current}
    /\ p' = [p EXCEPT !.pc = "deliver", !.batch = Tail(@)]
    /\ UNCHANGED <<members, posted, pushed, rec, chatRow, topic, cursor, got, sends, passed>>

\* The call raises, before or after Telegram accepted something; no link is saved.
SendFails ==
    /\ (Delivering /\ Current \notin linked) \/ p.pc = "link"
    /\ Fault
    /\ failures' = [failures EXCEPT ![Current] = @ + 1]
    /\ p' = [p EXCEPT !.pc = "deliver", !.batch = Tail(@)]
    /\ UNCHANGED <<members, posted, pushed, rec, tables, got, sends, passed>>

SaveMessageLink ==
    /\ p.pc = "link"
    /\ linked' = linked \cup {Current}
    /\ passed' = [passed EXCEPT ![p.user] = @ \cup {Current}]
    /\ p' = Passed
    /\ UNCHANGED <<members, posted, pushed, rec, chatRow, topic, cursor, got, sends, failures, env>>

\* The one cursor row of the chat is replaced, owner and all.
UpsertCursor ==
    /\ p.pc = "deliver" /\ p.batch = <<>>
    /\ cursor' = IF p.latest = 0 THEN cursor
                 ELSE [cursor EXCEPT ![p.chat] = [owner |-> p.user, last |-> p.latest]]
    /\ p' = Ready
    /\ UNCHANGED <<members, posted, pushed, rec, chatRow, topic, linked, observed, env>>

-----------------------------------------------------------------------------
(* Reconcile.                                                              *)

Command == commands < MaxCommands /\ commands' = commands + 1 /\ UNCHANGED <<faults, crashes>>

Start(u) ==
    /\ rec[u].pc = "idle" /\ Command
    /\ rec' = [rec EXCEPT ![u] = Listed(ChatsOf(u), FALSE)]
    /\ UNCHANGED <<members, posted, pushed, p, tables, observed>>

\* Forced: of the chat he names, or of all, whether they have a topic or not.
Resync(u) ==
    /\ rec[u].pc = "idle" /\ Command
    /\ \E chats \in {ChatsOf(u)} \cup {{c} : c \in ChatsOf(u)} :
         rec' = [rec EXCEPT ![u] = Listed(chats, TRUE)]
    /\ UNCHANGED <<members, posted, pushed, p, tables, observed>>

\* The row of the chat takes the owner and the title of whoever saves it last.
SaveChat(r, c) ==
    /\ rec[r].pc = "save" /\ c \in rec[r].todo
    /\ chatRow' = [chatRow EXCEPT ![c] = UserOf(r)]
    /\ rec' = [rec EXCEPT ![r].todo = @ \ {c}]
    /\ UNCHANGED <<members, posted, pushed, p, topic, cursor, linked, observed, env>>

\* Mutant of FindTopics: topics are created for every chat the database knows.
FindTopicsAll(r) ==
    /\ rec[r].pc = "save" /\ rec[r].todo = {}
    /\ rec' = [rec EXCEPT ![r].pc = "create",
                          ![r].todo = {c \in Chats : chatRow[c] # Nobody /\ topic[UserOf(r)][c] = Nobody}]
    /\ UNCHANGED <<members, posted, pushed, p, tables, observed, env>>

FindTopics(r) ==
    /\ rec[r].pc = "save" /\ rec[r].todo = {}
    /\ rec' = [rec EXCEPT ![r].pc = "create",
                          ![r].todo = {c \in rec[r].chats :
                                         rec[r].force \/ topic[UserOf(r)][c] = Nobody}]
    /\ UNCHANGED <<members, posted, pushed, p, tables, observed, env>>

\* A topic id numbers the topics of one Telegram chat, and the table is keyed by it
\* alone: the new row may replace the row of another user.
Replaced(v, d, u) == IF v = u THEN topic ELSE [topic EXCEPT ![v][d] = Nobody]

\* The topic is named after the row, which another user may have saved meanwhile.
CreateTopic(r, c) ==
    LET u == UserOf(r) IN
    /\ rec[r].pc = "create" /\ c \in rec[r].todo
    /\ \E v \in Users : \E d \in Chats :
         topic' = [Replaced(v, d, u) EXCEPT ![u][c] = chatRow[c]]
    /\ rec' = [rec EXCEPT ![r].pc = "backfill", ![r].todo = @ \ {c}, ![r].chat = c]
    /\ UNCHANGED <<members, posted, pushed, p, chatRow, cursor, linked, observed, env>>

\* A backfill sends the newest texts and links none; a failure, of a text shown all the
\* same or not, costs it the cursor.
Backfill(r) ==
    LET c == rec[r].chat
        newest == {<<c, i>> : i \in {j \in 1..posted[c] : j + BackfillCount > posted[c]}} IN
    /\ rec[r].pc = "backfill"
    /\ \E shown \in SUBSET newest :
         /\ got' = [got EXCEPT ![UserOf(r)] = @ \cup shown]
         /\ \/ shown = newest /\ rec' = [rec EXCEPT ![r].pc = "cursor"] /\ UNCHANGED env
            \/ rec' = [rec EXCEPT ![r].pc = "create"] /\ Fault
    /\ UNCHANGED <<members, posted, pushed, p, tables, sends, failures, passed>>

\* Mutant of BackfillCursor: the cursor is set behind the newest text.
BackfillCursorNext(r) ==
    LET c == rec[r].chat IN
    /\ rec[r].pc = "cursor"
    /\ cursor' = IF posted[c] = 0 THEN cursor
                 ELSE [cursor EXCEPT ![c] = [owner |-> UserOf(r), last |-> posted[c] + 1]]
    /\ rec' = [rec EXCEPT ![r].pc = "create"]
    /\ UNCHANGED <<members, posted, pushed, p, chatRow, topic, linked, observed, env>>

\* The history is read again: what came during the backfill is under the cursor too.
BackfillCursor(r) ==
    LET c == rec[r].chat IN
    /\ rec[r].pc = "cursor"
    /\ cursor' = IF posted[c] = 0 THEN cursor
                 ELSE [cursor EXCEPT ![c] = [owner |-> UserOf(r), last |-> posted[c]]]
    /\ rec' = [rec EXCEPT ![r].pc = "create"]
    /\ UNCHANGED <<members, posted, pushed, p, chatRow, topic, linked, observed, env>>

EndReconcile(r) ==
    /\ rec[r].pc = "create" /\ rec[r].todo = {}
    /\ rec' = [rec EXCEPT ![r] = Resting]
    /\ p' = IF r = Nobody THEN Ready ELSE p
    /\ UNCHANGED <<members, posted, pushed, tables, observed, env>>

Poll ==
    \/ \E u \in Users : \/ CatchUpUser(u) \/ \E c \in Chats : PollChat(u, c)
                        \/ \E m \in pushed[u] : LiveUnmapped(u, m) \/ LiveMessage(u, m)
    \/ GetMessages \/ AlreadyLinked \/ SendMessageToTelegram \/ SendFails
    \/ SaveMessageLink \/ UpsertCursor

Reconcile(r) ==
    \/ \E c \in Chats : SaveChat(r, c) \/ CreateTopic(r, c)
    \/ FindTopics(r) \/ Backfill(r) \/ BackfillCursor(r) \/ EndReconcile(r)

Next ==
    \/ Crash \/ Poll
    \/ \E c \in Chats : Post(c)
    \/ \E u \in Users : Start(u) \/ Resync(u)
    \/ \E r \in Runners : Reconcile(r)

Spec == Init /\ [][Next]_vars

-----------------------------------------------------------------------------
(* Properties.                                                             *)

PollerType == [pc : {"idle", "fetch", "deliver", "link", "reconcile"}, user : Owners,
               chat : Chats \cup {Nobody}, batch : Seq(Msgs), above : 0..MaxMessages,
               latest : 0..MaxMessages]
RunnerType == [pc : {"idle", "save", "create", "backfill", "cursor"}, force : BOOLEAN,
               chats : SUBSET Chats, todo : SUBSET Chats, chat : Chats \cup {Nobody}]

\* Every variable keeps its type; a cursor is a position of its chat.
TypeOK ==
    /\ members \in [Chats -> SUBSET Users]
    /\ posted \in [Chats -> 0..MaxMessages] /\ pushed \in [Users -> SUBSET Msgs]
    /\ p \in PollerType /\ rec \in [Runners -> RunnerType]
    /\ chatRow \in [Chats -> Owners] /\ topic \in [Users -> [Chats -> Owners]]
    /\ cursor \in [Chats -> [owner : Owners, last : 0..MaxMessages]]
    /\ linked \subseteq Msgs
    /\ got \in [Users -> SUBSET Msgs] /\ sends \in [Msgs -> Nat]
    /\ failures \in [Msgs -> Nat] /\ passed \in [Users -> SUBSET Msgs]
    /\ commands \in Nat /\ faults \in Nat /\ crashes \in Nat

\* However the users share chats and tables, the sends and links of all of them
\* together are what Delivery promises: a text recorded for one is sent to none again.
Promise == INSTANCE Delivery WITH
    Messages <- Msgs, done <- linked, flight <- IF p.pc = "link" THEN {Current} ELSE {},
    count <- sends, fails <- failures
DeliversAsPromised == Promise!Spec

\* A user is shown texts only of chats he is in, by a poll or by a backfill, the rows
\* that hold him as owner are those of such chats, and his topics bear titles that
\* somebody in the chat knows it by (the README's isolation).
OnlyMembersAreServed ==
    /\ \A u \in Users : \A m \in got[u] : u \in members[m[1]]
    /\ \A c \in Chats : /\ chatRow[c] \in members[c] \cup {Nobody}
                        /\ cursor[c].owner \in members[c] \cup {Nobody}
                        /\ \A u \in Users : topic[u][c] \in members[c] \cup {Nobody}

\* A text passed over as delivered for a user was sent to one of the chat's members.
PassedReachedAMember ==
    \A u \in Users : \A m \in passed[u] : \E v \in members[m[1]] : m \in got[v]

\* README.md: one bot serves several users, "isolated from each other".
Isolated == \A u \in Users : passed[u] \subseteq got[u]

-----------------------------------------------------------------------------
(* The inductive strengthening of the proofs (SharedTablesProofs).         *)

\* The poller works for a member of the chat in its hands, on texts of that chat, and
\* the reconcile it waits for is the only use of its own runner.
PollerServesMember ==
    /\ p.pc \in {"fetch", "deliver", "link"} =>
         /\ p.chat \in Chats /\ p.user \in members[p.chat]
         /\ \A i \in DOMAIN p.batch : p.batch[i][1] = p.chat
    /\ p.pc = "idle" => p.batch = <<>>
    /\ p.pc = "link" => p.batch # <<>>
    /\ p.pc = "reconcile" => p.user \in Users
    /\ p.pc # "reconcile" => rec[Nobody] = Resting

\* A reconcile handles its user's chats, and a chat it backfills is one of them.
RunnersServeMember ==
    \A r \in Runners :
        /\ \A c \in rec[r].todo \cup rec[r].chats : UserOf(r) \in members[c]
        /\ rec[r].pc \in {"backfill", "cursor"} =>
             rec[r].chat \in Chats /\ UserOf(r) \in members[rec[r].chat]

\* Only members are pushed a chat's texts and have a topic for it.
MembersOnly ==
    \A u \in Users : /\ \A m \in pushed[u] : u \in members[m[1]]
                     /\ \A c \in Chats : topic[u][c] # Nobody => u \in members[c]

\* What is linked, or about to be, was shown to a member; what is about to be is not
\* linked yet; only what is linked is passed.
LinksOK ==
    /\ \A m \in linked : \E v \in members[m[1]] : m \in got[v]
    /\ p.pc = "link" => Current \in got[p.user] \ linked
    /\ \A u \in Users : passed[u] \subseteq linked

Serving == PollerServesMember /\ RunnersServeMember /\ MembersOnly
IInv == TypeOK /\ Serving /\ OnlyMembersAreServed /\ LinksOK

=============================================================================
