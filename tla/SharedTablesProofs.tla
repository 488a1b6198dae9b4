------------------------- MODULE SharedTablesProofs -------------------------
(***************************************************************************)
(* Proofs about SharedTables for every set of users and chats and every    *)
(* bound.  IInv is inductive: the type, who is served by the poller and by *)
(* the reconciles, what the rows hold and what a link means are each kept  *)
(* by every step.  The refinement of Delivery follows.                     *)
(***************************************************************************)
EXTENDS SharedTables, TLAPS

LEMMA EmptyBatch == <<>> \in Seq(Msgs) /\ Len(<<>>) = 0
OBVIOUS

LEMMA RestTypes == Ready \in PollerType /\ Resting \in RunnerType
BY EmptyBatch, BoundsAssumption DEF Ready, Resting, PollerType, RunnerType, Owners

\* A fetch returns texts of the fetched chat.
LEMMA FetchedType ==
    ASSUME TypeOK, NEW c \in Chats, NEW above \in Nat, NEW n \in Nat
    PROVE  /\ Fetched(c, above, n) \in Seq(Msgs)
           /\ \A i \in DOMAIN Fetched(c, above, n) : Fetched(c, above, n)[i][1] = c
<1>. DEFINE lo   == IF above + n < posted[c] THEN posted[c] - n ELSE Min2(above, posted[c])
            size == posted[c] - lo
<1>1. posted[c] \in Nat /\ posted[c] <= MaxMessages
    BY BoundsAssumption DEF TypeOK
<1>2. lo \in Nat /\ size \in Nat
    BY <1>1 DEF Min2
<1>3. \A i \in 1..size : <<c, lo + i>> \in Msgs
    BY <1>1, <1>2, BoundsAssumption DEF Msgs
<1>4. Fetched(c, above, n) = [i \in 1..size |-> <<c, lo + i>>]
    BY DEF Fetched
<1>. HIDE DEF lo, size
<1>5. [i \in 1..size |-> <<c, lo + i>>] \in [1..size -> Msgs]
    BY <1>3
<1>6. Fetched(c, above, n) \in Seq(Msgs)
    <2>1. Fetched(c, above, n) \in [1..size -> Msgs]
        BY <1>4, <1>5
    <2>. QED
        BY <1>2, <2>1
<1>7. \A i \in DOMAIN Fetched(c, above, n) : Fetched(c, above, n)[i][1] = c
    BY <1>4
<1>. QED
    BY <1>6, <1>7

\* The text in hand and what is left after it.
LEMMA InHand ==
    ASSUME TypeOK, p.batch # <<>>
    PROVE  /\ Current \in Msgs /\ Current[1] \in Chats /\ Current[2] \in 1..MaxMessages
           /\ Tail(p.batch) \in Seq(Msgs)
           /\ Current = p.batch[1] /\ 1 \in DOMAIN p.batch
           /\ \A i \in DOMAIN Tail(p.batch) : \E j \in DOMAIN p.batch :
                 Tail(p.batch)[i] = p.batch[j]
<1>1. p.batch \in Seq(Msgs) /\ Len(p.batch) \in Nat /\ Len(p.batch) > 0
    BY DEF TypeOK, PollerType
<1>2. \A i \in DOMAIN Tail(p.batch) : i + 1 \in DOMAIN p.batch /\ Tail(p.batch)[i] = p.batch[i + 1]
    BY <1>1
<1>. QED
    BY <1>1, <1>2 DEF Current, Msgs

\* What a step of the poller may do to its record.
LEMMA PollerSteps ==
    ASSUME NEW q \in PollerType, NEW batch \in Seq(Msgs),
           NEW above \in 0..MaxMessages, NEW latest \in 0..MaxMessages
    PROVE  /\ [q EXCEPT !.pc = "link"] \in PollerType
           /\ [q EXCEPT !.pc = "deliver", !.batch = batch] \in PollerType
           /\ [q EXCEPT !.pc = "deliver", !.batch = batch, !.latest = latest] \in PollerType
           /\ [q EXCEPT !.pc = "deliver", !.above = above, !.batch = batch] \in PollerType
<1>1. [q EXCEPT !.pc = "link"] \in PollerType
    BY DEF PollerType
<1>2. [q EXCEPT !.pc = "deliver", !.batch = batch] \in PollerType
    BY DEF PollerType
<1>3. [q EXCEPT !.pc = "deliver", !.batch = batch, !.latest = latest] \in PollerType
    BY DEF PollerType
<1>4. [q EXCEPT !.pc = "deliver", !.above = above, !.batch = batch] \in PollerType
    BY DEF PollerType
<1>. QED
    BY <1>1, <1>2, <1>3, <1>4

\* A set of texts kept for each user grows by a text.
LEMMA Grows ==
    ASSUME NEW f \in [Users -> SUBSET Msgs], NEW u \in Users, NEW m \in Msgs
    PROVE  [f EXCEPT ![u] = @ \cup {m}] \in [Users -> SUBSET Msgs]
OBVIOUS

LEMMA ListedType ==
    \A chats \in SUBSET Chats : \A force \in BOOLEAN : Listed(chats, force) \in RunnerType
BY DEF Listed, RunnerType

LEMMA ChatsOfType ==
    ASSUME NEW u
    PROVE  ChatsOf(u) \in SUBSET Chats /\ \A c \in ChatsOf(u) : u \in members[c]
BY DEF ChatsOf

\* A command lists chats of the user who gave it.
LEMMA CommandLists ==
    ASSUME NEW u \in Users, Start(u) \/ Resync(u)
    PROVE  \E chats \in SUBSET Chats : \E force \in BOOLEAN :
               /\ rec' = [rec EXCEPT ![u] = Listed(chats, force)]
               /\ \A c \in chats : u \in members[c]
<1>1. CASE Start(u)
    BY <1>1, ChatsOfType DEF Start
<1>2. CASE Resync(u)
    <2>1. PICK chats \in {ChatsOf(u)} \cup {{c} : c \in ChatsOf(u)} :
             rec' = [rec EXCEPT ![u] = Listed(chats, TRUE)]
        BY <1>2 DEF Resync
    <2>2. chats \in SUBSET Chats /\ \A c \in chats : u \in members[c]
        BY ChatsOfType
    <2>. QED
        BY <2>1, <2>2
<1>. QED
    BY <1>1, <1>2

\* Whom the poller serves, and the chat in its hands.
LEMMA Served ==
    ASSUME TypeOK, Serving, p.pc \in {"fetch", "deliver", "link"}
    PROVE  p.chat \in Chats /\ p.user \in Users /\ p.user \in members[p.chat]
<1>1. p.chat \in Chats /\ p.user \in members[p.chat]
    BY DEF Serving, PollerServesMember
<1>2. members[p.chat] \subseteq Users
    BY <1>1 DEF TypeOK
<1>. QED
    BY <1>1, <1>2

LEMMA UserOfRunner ==
    ASSUME TypeOK, Serving, NEW r \in Runners, rec[r].pc # "idle"
    PROVE  /\ UserOf(r) \in Users
           /\ r = Nobody => p.pc = "reconcile"
BY DEF TypeOK, Serving, PollerServesMember, Resting, UserOf, Runners

\* A creation adds the user's row under the title of the chat's row, and may drop a row.
LEMMA TopicsAfter ==
    ASSUME TypeOK, NEW r \in Runners, NEW c \in Chats, CreateTopic(r, c), UserOf(r) \in Users
    PROVE  /\ topic' \in [Users -> [Chats -> Owners]]
           /\ topic'[UserOf(r)][c] = chatRow[c]
           /\ \A u \in Users, d \in Chats :
                 <<u, d>> # <<UserOf(r), c>> => topic'[u][d] \in {topic[u][d], Nobody}
<1>. DEFINE u == UserOf(r)
<1>1. PICK v \in Users, d \in Chats : topic' = [Replaced(v, d, u) EXCEPT ![u][c] = chatRow[c]]
    BY DEF CreateTopic
<1>2. topic \in [Users -> [Chats -> Owners]] /\ chatRow[c] \in Owners /\ Nobody \in Owners
    BY DEF TypeOK, Owners
<1>3. /\ Replaced(v, d, u) \in [Users -> [Chats -> Owners]]
      /\ \A w \in Users, e \in Chats : Replaced(v, d, u)[w][e] \in {topic[w][e], Nobody}
    BY <1>2 DEF Replaced
<1>. HIDE DEF u
<1>. QED
    BY <1>1, <1>2, <1>3 DEF u

-----------------------------------------------------------------------------
(* Type correctness.                                                       *)

LEMMA TypeInit == Init => TypeOK
BY RestTypes, BoundsAssumption DEF Init, TypeOK, Owners

LEMMA TypeStep == TypeOK /\ Serving /\ [Next]_vars => TypeOK'
<1>. SUFFICES ASSUME TypeOK, Serving, [Next]_vars
              PROVE  TypeOK'
    OBVIOUS
<1>. USE BoundsAssumption, RestTypes
<1>1. CASE UNCHANGED vars
    BY <1>1 DEF vars, tables, observed, env, TypeOK
<1>2. CASE Crash
    BY <1>2 DEF Crash, tables, observed, TypeOK
<1>3. ASSUME NEW c \in Chats, Post(c)
      PROVE  TypeOK'
    <2>1. posted' \in [Chats -> 0..MaxMessages] /\ <<c, posted[c] + 1>> \in Msgs
        BY <1>3 DEF Post, TypeOK, Msgs
    <2>2. pushed' \in [Users -> SUBSET Msgs]
        <3>1. pushed \in [Users -> SUBSET Msgs]
            BY DEF TypeOK
        <3>2. PICK online \in SUBSET members[c] :
                 pushed' = [u \in Users |-> IF u \in online THEN pushed[u] \cup {<<c, posted[c] + 1>>}
                                                           ELSE pushed[u]]
            BY <1>3 DEF Post
        <3>. QED
            BY <2>1, <3>1, <3>2
    <2>. QED
        BY <1>3, <2>1, <2>2 DEF Post, tables, observed, env, TypeOK
<1>4. ASSUME NEW u \in Users, Start(u) \/ Resync(u)
      PROVE  TypeOK'
    <2>1. rec' \in [Runners -> RunnerType]
        <3>1. PICK chats \in SUBSET Chats, force \in BOOLEAN :
                 rec' = [rec EXCEPT ![u] = Listed(chats, force)]
            BY <1>4, CommandLists
        <3>2. Listed(chats, force) \in RunnerType
            BY ListedType
        <3>3. rec \in [Runners -> RunnerType]
            BY DEF TypeOK
        <3>. QED
            BY <3>1, <3>2, <3>3
    <2>2. Command /\ UNCHANGED <<members, posted, pushed, p, tables, observed>>
        BY <1>4 DEF Start, Resync
    <2>. QED
        BY <2>1, <2>2 DEF Command, tables, observed, TypeOK
<1>5. ASSUME NEW u \in Users,
             CatchUpUser(u) \/ \E m \in pushed[u] : LiveUnmapped(u, m)
      PROVE  TypeOK'
    <2>1. rec' \in [Runners -> RunnerType]
        <3>1. Listed(ChatsOf(u), FALSE) \in RunnerType
            BY ListedType, ChatsOfType
        <3>. QED
            BY <1>5, <3>1 DEF CatchUpUser, LiveUnmapped, TypeOK, Runners
    <2>2. p' \in PollerType
        BY <1>5 DEF CatchUpUser, LiveUnmapped, TypeOK, PollerType, Owners
    <2>3. pushed' \in [Users -> SUBSET Msgs]
        <3>1. pushed \in [Users -> SUBSET Msgs]
            BY DEF TypeOK
        <3>2. pushed' = pushed \/ \E m \in pushed[u] : pushed' = [pushed EXCEPT ![u] = @ \ {m}]
            BY <1>5 DEF CatchUpUser, LiveUnmapped
        <3>. QED
            BY <3>1, <3>2
    <2>. QED
        BY <1>5, <2>1, <2>2, <2>3 DEF CatchUpUser, LiveUnmapped, tables, observed, env, TypeOK
<1>6. ASSUME NEW u \in Users, NEW m \in pushed[u], LiveMessage(u, m)
      PROVE  TypeOK'
    <2>1. m \in Msgs /\ m[1] \in Chats /\ <<m>> \in Seq(Msgs)
        BY DEF TypeOK, Msgs
    <2>2. p' \in PollerType
        BY <1>6, <2>1 DEF LiveMessage, TypeOK, PollerType, Owners
    <2>3. pushed' \in [Users -> SUBSET Msgs]
        BY <1>6 DEF LiveMessage, TypeOK
    <2>. QED
        BY <1>6, <2>2, <2>3 DEF LiveMessage, tables, observed, env, TypeOK
<1>7. ASSUME NEW u \in Users, NEW c \in Chats, PollChat(u, c)
      PROVE  TypeOK'
    <2>1. CursorOf(u, c) \in 0..MaxMessages
        BY DEF CursorOf, TypeOK
    <2>2. p' \in PollerType
        BY <1>7, <2>1 DEF PollChat, TypeOK, PollerType, Owners
    <2>. QED
        BY <1>7, <2>2 DEF PollChat, tables, observed, env, TypeOK
<1>8. CASE GetMessages
    <2>1. p.chat \in Chats /\ p.above \in Nat
        <3>1. p.pc = "fetch"
            BY <1>8 DEF GetMessages
        <3>2. p.above \in 0..MaxMessages
            BY DEF TypeOK, PollerType
        <3>. QED
            BY <3>1, <3>2, Served
    <2>2. Fetched(p.chat, p.above, HistoryLimit) \in Seq(Msgs)
        BY <2>1, FetchedType
    <2>3. p' \in PollerType
        <3>1. PICK batch \in Seq(Msgs) :
                 p' = [p EXCEPT !.pc = "deliver", !.above = 0, !.batch = batch]
            BY <1>8, <2>2 DEF GetMessages
        <3>2. p \in PollerType /\ 0 \in 0..MaxMessages
            BY DEF TypeOK
        <3>. QED
            BY <3>1, <3>2, PollerSteps
    <2>. QED
        BY <1>8, <2>3 DEF GetMessages, tables, observed, env, TypeOK
<1>9. CASE AlreadyLinked \/ SendMessageToTelegram \/ SendFails \/ SaveMessageLink
    <2>0. p.pc \in {"deliver", "link"} /\ p.batch # <<>>
        BY <1>9 DEF AlreadyLinked, SendMessageToTelegram, SendFails, SaveMessageLink, Delivering,
                    Serving, PollerServesMember
    <2>1. p.batch # <<>> /\ p.user \in Users
        BY <2>0, Served
    <2>2. Current \in Msgs /\ Current[2] \in 1..MaxMessages /\ Tail(p.batch) \in Seq(Msgs)
        BY <2>1, InHand
    <2>3. p' \in PollerType
        <3>1. p \in PollerType /\ Current[2] \in 0..MaxMessages
            BY <2>2 DEF TypeOK
        <3>2. \/ p' = [p EXCEPT !.pc = "deliver", !.batch = Tail(p.batch), !.latest = Current[2]]
              \/ p' = [p EXCEPT !.pc = "link"]
              \/ p' = [p EXCEPT !.pc = "deliver", !.batch = Tail(p.batch)]
            BY <1>9 DEF AlreadyLinked, SendMessageToTelegram, SendFails, SaveMessageLink, Passed
        <3>. QED
            <4>1. /\ [p EXCEPT !.pc = "link"] \in PollerType
                  /\ [p EXCEPT !.pc = "deliver", !.batch = Tail(p.batch)] \in PollerType
                  /\ [p EXCEPT !.pc = "deliver", !.batch = Tail(p.batch), !.latest = Current[2]]
                       \in PollerType
                BY <2>2, <3>1, PollerSteps
            <4>. QED
                BY <3>2, <4>1
    <2>4. /\ linked' \subseteq Msgs /\ got' \in [Users -> SUBSET Msgs]
          /\ sends' \in [Msgs -> Nat] /\ passed' \in [Users -> SUBSET Msgs]
          /\ failures' \in [Msgs -> Nat]
        <3>1. /\ linked \subseteq Msgs /\ got \in [Users -> SUBSET Msgs]
              /\ sends \in [Msgs -> Nat] /\ passed \in [Users -> SUBSET Msgs]
              /\ failures \in [Msgs -> Nat]
            BY DEF TypeOK
        <3>2. /\ linked' = linked \/ linked' = linked \cup {Current}
              /\ got' = got \/ got' = [got EXCEPT ![p.user] = @ \cup {Current}]
              /\ sends' = sends \/ sends' = [sends EXCEPT ![Current] = @ + 1]
              /\ passed' = passed \/ passed' = [passed EXCEPT ![p.user] = @ \cup {Current}]
              /\ failures' = failures \/ failures' = [failures EXCEPT ![Current] = @ + 1]
            BY <1>9 DEF AlreadyLinked, SendMessageToTelegram, SendFails, SaveMessageLink,
                        tables, observed
        <3>3. linked' \subseteq Msgs
            BY <2>2, <3>1, <3>2
        <3>4. got' \in [Users -> SUBSET Msgs]
            BY <2>1, <2>2, <3>1, <3>2, Grows
        <3>5. sends' \in [Msgs -> Nat]
            <4>1. [sends EXCEPT ![Current] = @ + 1] \in [Msgs -> Nat]
                BY <2>2, <3>1
            <4>. QED
                BY <3>1, <3>2, <4>1
        <3>6. passed' \in [Users -> SUBSET Msgs]
            BY <2>1, <2>2, <3>1, <3>2, Grows
        <3>7. failures' \in [Msgs -> Nat]
            <4>1. [failures EXCEPT ![Current] = @ + 1] \in [Msgs -> Nat]
                BY <2>2, <3>1
            <4>. QED
                BY <3>1, <3>2, <4>1
        <3>. QED
            BY <3>3, <3>4, <3>5, <3>6, <3>7
    <2>5. /\ UNCHANGED <<members, posted, pushed, rec, chatRow, topic, cursor, commands, crashes>>
          /\ faults' \in Nat
        BY <1>9 DEF AlreadyLinked, SendMessageToTelegram, SendFails, SaveMessageLink, Fault,
                    tables, env, TypeOK
    <2>. QED
        BY <2>3, <2>4, <2>5 DEF TypeOK
<1>10. CASE UpsertCursor
    <2>1. p.chat \in Chats /\ p.user \in Owners /\ p.latest \in 0..MaxMessages
        BY <1>10 DEF UpsertCursor, Serving, PollerServesMember, TypeOK, PollerType
    <2>2. cursor' \in [Chats -> [owner : Owners, last : 0..MaxMessages]]
        BY <1>10, <2>1 DEF UpsertCursor, TypeOK
    <2>. QED
        BY <1>10, <2>2 DEF UpsertCursor, observed, env, TypeOK
<1>11. ASSUME NEW r \in Runners, Reconcile(r)
       PROVE  TypeOK'
    <2>0. rec[r] \in RunnerType
        BY DEF TypeOK
    <2>1. rec[r].pc # "idle" => UserOf(r) \in Users
        BY UserOfRunner
    <2>2. ASSUME NEW c \in Chats, SaveChat(r, c)
          PROVE  TypeOK'
        <3>1. rec' \in [Runners -> RunnerType]
            BY <2>0, <2>2 DEF SaveChat, TypeOK, RunnerType
        <3>2. chatRow' \in [Chats -> Owners]
            BY <2>1, <2>2 DEF SaveChat, TypeOK, Owners
        <3>. QED
            BY <2>2, <3>1, <3>2 DEF SaveChat, observed, env, TypeOK
    <2>3. ASSUME NEW c \in Chats, CreateTopic(r, c)
          PROVE  TypeOK'
        <3>1. rec' \in [Runners -> RunnerType]
            BY <2>0, <2>3 DEF CreateTopic, TypeOK, RunnerType
        <3>2. topic' \in [Users -> [Chats -> Owners]]
            BY <2>0, <2>1, <2>3, TopicsAfter DEF CreateTopic
        <3>. QED
            BY <2>3, <3>1, <3>2 DEF CreateTopic, observed, env, TypeOK
    <2>4. CASE FindTopics(r)
        <3>1. rec' \in [Runners -> RunnerType]
            BY <2>0, <2>4 DEF FindTopics, TypeOK, RunnerType
        <3>. QED
            BY <2>4, <3>1 DEF FindTopics, tables, observed, env, TypeOK
    <2>5. CASE Backfill(r)
        <3>1. rec' \in [Runners -> RunnerType]
            <4>1. \A pc \in {"cursor", "create"} : [rec[r] EXCEPT !.pc = pc] \in RunnerType
                BY <2>0 DEF RunnerType
            <4>2. PICK pc \in {"cursor", "create"} : rec' = [rec EXCEPT ![r].pc = pc]
                BY <2>5 DEF Backfill
            <4>. QED
                BY <4>1, <4>2 DEF TypeOK
        <3>2. rec[r].chat \in Chats
            BY <2>5 DEF Backfill, Serving, RunnersServeMember
        <3>3. posted[rec[r].chat] \in 0..MaxMessages
            BY <3>2 DEF TypeOK
        <3>4. \A j \in 1..posted[rec[r].chat] : <<rec[r].chat, j>> \in Msgs
            BY <3>2, <3>3 DEF Msgs
        <3>5. got' \in [Users -> SUBSET Msgs]
            BY <2>1, <2>5, <3>4 DEF Backfill, TypeOK
        <3>6. faults' \in Nat /\ UNCHANGED <<commands, crashes>>
            BY <2>5 DEF Backfill, Fault, env, TypeOK
        <3>. QED
            BY <2>5, <3>1, <3>5, <3>6 DEF Backfill, tables, TypeOK
    <2>6. CASE BackfillCursor(r)
        <3>1. rec' \in [Runners -> RunnerType]
            BY <2>0, <2>6 DEF BackfillCursor, TypeOK, RunnerType
        <3>2. rec[r].chat \in Chats
            BY <2>6 DEF BackfillCursor, Serving, RunnersServeMember
        <3>3. cursor' \in [Chats -> [owner : Owners, last : 0..MaxMessages]]
            BY <2>1, <2>6, <3>2 DEF BackfillCursor, TypeOK, Owners
        <3>. QED
            BY <2>6, <3>1, <3>3 DEF BackfillCursor, observed, env, TypeOK
    <2>7. CASE EndReconcile(r)
        BY <2>7 DEF EndReconcile, tables, observed, env, TypeOK
    <2>. QED
        BY <1>11, <2>2, <2>3, <2>4, <2>5, <2>6, <2>7 DEF Reconcile
<1>. QED
    BY <1>1, <1>2, <1>3, <1>4, <1>5, <1>6, <1>7, <1>8, <1>9, <1>10, <1>11 DEF Next, Poll

-----------------------------------------------------------------------------
(* Who is served.                                                          *)

\* A reconcile keeps its chats while neither it nor its user changes.
LEMMA RunnersFrame ==
    ASSUME TypeOK, Serving, rec' = rec, members' = members, p' = p \/ p.pc # "reconcile"
    PROVE  RunnersServeMember'
<1>. SUFFICES ASSUME NEW r \in Runners
              PROVE  /\ \A c \in rec[r].todo \cup rec[r].chats : UserOf(r)' \in members[c]
                     /\ rec[r].pc \in {"backfill", "cursor"} =>
                          rec[r].chat \in Chats /\ UserOf(r)' \in members[rec[r].chat]
    BY DEF RunnersServeMember
<1>1. CASE r = Nobody /\ p.pc # "reconcile"
    BY <1>1 DEF Serving, PollerServesMember, Resting
<1>2. CASE r # Nobody \/ p' = p
    BY <1>2 DEF Serving, RunnersServeMember, UserOf
<1>. QED
    BY <1>1, <1>2

\* A poller at rest, or in a reconcile of a user, holds nothing of a chat.
LEMMA PollerRests ==
    ASSUME TypeOK, rec' = rec, p' = Ready, rec[Nobody] = Resting
    PROVE  PollerServesMember'
BY DEF PollerServesMember, Ready

\* A step of the poller through the texts of its chat.
LEMMA PollerMoves ==
    ASSUME TypeOK, Serving, rec' = rec, members' = members, p.pc # "reconcile",
           p'.pc \in {"fetch", "deliver", "link"}, p'.chat = p.chat, p'.user = p.user,
           p.pc \in {"fetch", "deliver", "link"},
           p'.pc # "fetch", p'.pc = "link" => p'.batch # <<>>,
           \A i \in DOMAIN p'.batch : p'.batch[i][1] = p.chat
    PROVE  PollerServesMember'
BY DEF Serving, PollerServesMember

LEMMA MembersFrame ==
    ASSUME MembersOnly, members' = members, topic' = topic,
           \A u \in Users : pushed'[u] \subseteq pushed[u]
    PROVE  MembersOnly'
BY DEF MembersOnly

LEMMA ServingInit == Init => Serving
<1>. SUFFICES ASSUME Init PROVE Serving
    OBVIOUS
<1>1. PollerServesMember
    BY DEF Init, PollerServesMember, Ready, Runners
<1>2. RunnersServeMember
    BY DEF Init, RunnersServeMember, Resting
<1>3. MembersOnly
    BY DEF Init, MembersOnly
<1>. QED
    BY <1>1, <1>2, <1>3 DEF Serving

LEMMA ServingStep == TypeOK /\ Serving /\ [Next]_vars => Serving'
<1>. SUFFICES ASSUME TypeOK, Serving, [Next]_vars
              PROVE  Serving'
    OBVIOUS
<1>0. /\ PollerServesMember /\ RunnersServeMember /\ MembersOnly
      /\ p \in PollerType /\ rec \in [Runners -> RunnerType] /\ Nobody \in Runners
      /\ Users \subseteq Runners /\ Nobody \notin Users
    BY NobodyAssumption DEF Serving, TypeOK, Runners
<1>1. CASE UNCHANGED vars
    <2>1. PollerServesMember'
        BY <1>0, <1>1 DEF vars, PollerServesMember
    <2>. QED
        BY <1>0, <1>1, <2>1, RunnersFrame, MembersFrame DEF vars, tables, Serving
<1>2. CASE Crash
    <2>1. p' = Ready /\ rec' = [r \in Runners |-> Resting] /\ members' = members /\ topic' = topic
          /\ pushed' = [u \in Users |-> {}]
        BY <1>2 DEF Crash, tables
    <2>2. PollerServesMember'
        BY <1>0, <2>1 DEF PollerServesMember, Ready
    <2>3. RunnersServeMember'
        BY <2>1 DEF RunnersServeMember, Resting
    <2>. QED
        BY <1>0, <2>1, <2>2, <2>3, MembersFrame DEF Serving
<1>3. ASSUME NEW c \in Chats, Post(c)
      PROVE  Serving'
    <2>1. p' = p /\ rec' = rec /\ members' = members /\ topic' = topic
        BY <1>3 DEF Post, tables
    <2>2. PollerServesMember'
        BY <1>0, <2>1 DEF PollerServesMember
    <2>3. PICK online \in SUBSET members[c] :
             pushed' = [u \in Users |-> IF u \in online THEN pushed[u] \cup {<<c, posted[c] + 1>>}
                                                       ELSE pushed[u]]
        BY <1>3 DEF Post
    <2>4. MembersOnly'
        BY <1>0, <2>1, <2>3 DEF MembersOnly
    <2>. QED
        BY <2>1, <2>2, <2>4, RunnersFrame DEF Serving
<1>4. ASSUME NEW u \in Users, Start(u) \/ Resync(u)
      PROVE  Serving'
    <2>0. PICK chats \in SUBSET Chats, force \in BOOLEAN :
             /\ rec' = [rec EXCEPT ![u] = Listed(chats, force)]
             /\ \A c \in chats : u \in members[c]
        BY <1>4, CommandLists
    <2>1. p' = p /\ members' = members /\ topic' = topic /\ pushed' = pushed
        BY <1>4 DEF Start, Resync, tables
    <2>2. PollerServesMember'
        BY <1>0, <2>0, <2>1 DEF PollerServesMember
    <2>3. RunnersServeMember'
        BY <1>0, <2>0, <2>1 DEF RunnersServeMember, Listed, UserOf
    <2>. QED
        BY <1>0, <2>1, <2>2, <2>3, MembersFrame DEF Serving
<1>5. ASSUME NEW u \in Users,
             CatchUpUser(u) \/ \E m \in pushed[u] : LiveUnmapped(u, m)
      PROVE  Serving'
    <2>1. /\ p.pc = "idle" /\ p' = [p EXCEPT !.pc = "reconcile", !.user = u]
          /\ rec' = [rec EXCEPT ![Nobody] = Listed(ChatsOf(u), FALSE)]
          /\ members' = members /\ topic' = topic
        BY <1>5 DEF CatchUpUser, LiveUnmapped, tables
    <2>5. \A v \in Users : pushed'[v] \subseteq pushed[v]
        <3>1. pushed' = pushed \/ \E m \in pushed[u] : pushed' = [pushed EXCEPT ![u] = @ \ {m}]
            BY <1>5 DEF CatchUpUser, LiveUnmapped
        <3>2. pushed \in [Users -> SUBSET Msgs]
            BY DEF TypeOK
        <3>. QED
            BY <3>1, <3>2
    <2>2. p'.pc = "reconcile" /\ p'.user = u
        BY <1>0, <2>1 DEF PollerType
    <2>3. PollerServesMember'
        BY <2>2 DEF PollerServesMember
    <2>4. RunnersServeMember'
        BY <1>0, <2>1, <2>2 DEF RunnersServeMember, Listed, ChatsOf, UserOf
    <2>. QED
        BY <1>0, <2>1, <2>3, <2>4, <2>5, MembersFrame DEF Serving
<1>6. ASSUME NEW u \in Users, NEW m \in pushed[u], LiveMessage(u, m)
      PROVE  Serving'
    <2>1. /\ p.pc = "idle" /\ topic[u][m[1]] # Nobody
          /\ p' = [p EXCEPT !.pc = "deliver", !.user = u, !.chat = m[1], !.batch = <<m>>]
          /\ rec' = rec /\ members' = members /\ topic' = topic
          /\ \A v \in Users : pushed'[v] \subseteq pushed[v]
        BY <1>6 DEF LiveMessage, tables, TypeOK
    <2>2. m[1] \in Chats /\ u \in members[m[1]]
        BY <1>0 DEF MembersOnly, TypeOK, Msgs
    <2>3. p'.pc = "deliver" /\ p'.user = u /\ p'.chat = m[1] /\ p'.batch = <<m>>
        BY <1>0, <2>1 DEF PollerType
    <2>4. PollerServesMember'
        BY <1>0, <2>1, <2>2, <2>3 DEF PollerServesMember
    <2>. QED
        BY <1>0, <2>1, <2>4, RunnersFrame, MembersFrame DEF Serving
<1>7. ASSUME NEW u \in Users, NEW c \in Chats, PollChat(u, c)
      PROVE  Serving'
    <2>1. /\ p.pc = "idle" /\ topic[u][c] # Nobody
          /\ p' = [p EXCEPT !.pc = "fetch", !.user = u, !.chat = c, !.above = CursorOf(u, c)]
          /\ rec' = rec /\ members' = members /\ topic' = topic /\ pushed' = pushed
        BY <1>7 DEF PollChat, tables
    <2>2. p'.pc = "fetch" /\ p'.user = u /\ p'.chat = c /\ p'.batch = <<>>
        BY <1>0, <2>1 DEF PollerType, PollerServesMember
    <2>3. PollerServesMember'
        <3>1. u \in members[c] /\ c \in Chats
            BY <1>0, <2>1 DEF MembersOnly
        <3>2. rec'[Nobody] = Resting /\ \A i \in DOMAIN p'.batch : FALSE
            BY <1>0, <2>1, <2>2, EmptyBatch DEF PollerServesMember
        <3>. QED
            BY <2>1, <2>2, <3>1, <3>2 DEF PollerServesMember
    <2>. QED
        BY <1>0, <2>1, <2>3, RunnersFrame, MembersFrame DEF Serving
<1>8. CASE GetMessages
    <2>1. p.pc = "fetch" /\ rec' = rec /\ members' = members /\ topic' = topic /\ pushed' = pushed
        BY <1>8 DEF GetMessages, tables
    <2>2. p.chat \in Chats /\ p.above \in Nat
        BY <1>0, <2>1 DEF PollerServesMember, PollerType
    <2>3. \A i \in DOMAIN Fetched(p.chat, p.above, HistoryLimit) :
             Fetched(p.chat, p.above, HistoryLimit)[i][1] = p.chat
        BY <2>2, FetchedType, BoundsAssumption
    <2>4. /\ p'.pc = "deliver" /\ p'.user = p.user /\ p'.chat = p.chat
          /\ p'.batch = Fetched(p.chat, p.above, HistoryLimit)
        BY <1>0, <1>8 DEF GetMessages, PollerType
    <2>5. PollerServesMember'
        BY <2>1, <2>3, <2>4, PollerMoves
    <2>. QED
        BY <1>0, <2>1, <2>5, RunnersFrame, MembersFrame DEF Serving
<1>9. CASE AlreadyLinked \/ SendMessageToTelegram \/ SendFails \/ SaveMessageLink
    <2>1. /\ p.pc \in {"deliver", "link"} /\ p.batch # <<>>
          /\ rec' = rec /\ members' = members /\ topic' = topic /\ pushed' = pushed
        BY <1>0, <1>9 DEF AlreadyLinked, SendMessageToTelegram, SendFails, SaveMessageLink,
                          Delivering, PollerServesMember, tables
    <2>2. /\ p'.pc \in {"deliver", "link"} /\ p'.user = p.user /\ p'.chat = p.chat
          /\ \/ p'.batch = Tail(p.batch) /\ p'.pc = "deliver"
             \/ p'.batch = p.batch
        BY <1>0, <1>9 DEF AlreadyLinked, SendMessageToTelegram, SendFails, SaveMessageLink,
                          Delivering, Passed, PollerType
    <2>3. \A i \in DOMAIN p'.batch : p'.batch[i][1] = p.chat
        <3>1. \A i \in DOMAIN p.batch : p.batch[i][1] = p.chat
            BY <1>0, <2>1 DEF PollerServesMember
        <3>. QED
            <4>1. CASE p'.batch = p.batch
                BY <3>1, <4>1
            <4>2. CASE p'.batch = Tail(p.batch)
                <5>1. \A i \in DOMAIN Tail(p.batch) : \E j \in DOMAIN p.batch :
                         Tail(p.batch)[i] = p.batch[j]
                    BY <2>1, InHand
                <5>. QED
                    BY <3>1, <4>2, <5>1
            <4>. QED
                BY <2>2, <4>1, <4>2
    <2>4. PollerServesMember'
        BY <2>1, <2>2, <2>3, PollerMoves
    <2>. QED
        BY <1>0, <2>1, <2>4, RunnersFrame, MembersFrame DEF Serving
<1>10. CASE UpsertCursor
    <2>1. /\ p.pc = "deliver" /\ p' = Ready
          /\ rec' = rec /\ members' = members /\ topic' = topic /\ pushed' = pushed
        BY <1>10 DEF UpsertCursor
    <2>2. PollerServesMember'
        BY <1>0, <2>1, PollerRests DEF PollerServesMember
    <2>. QED
        BY <1>0, <2>1, <2>2, RunnersFrame, MembersFrame DEF Serving
<1>11. ASSUME NEW r \in Runners, Reconcile(r)
       PROVE  Serving'
    <2>0. /\ rec[r] \in RunnerType /\ members' = members /\ pushed' = pushed
          /\ rec[r].pc # "idle"
        BY <1>0, <1>11 DEF Reconcile, SaveChat, CreateTopic, FindTopics, Backfill, BackfillCursor,
                           EndReconcile
    <2>1. UserOf(r) \in Users /\ (r = Nobody => p.pc = "reconcile")
        BY <2>0, UserOfRunner
    <2>2. ASSUME p' = p, NEW s \in RunnerType, rec' = [rec EXCEPT ![r] = s],
                 \A c \in s.todo \cup s.chats : UserOf(r) \in members[c],
                 s.pc \in {"backfill", "cursor"} =>
                     s.chat \in Chats /\ UserOf(r) \in members[s.chat]
          PROVE  PollerServesMember' /\ RunnersServeMember'
        <3>1. PollerServesMember'
            BY <1>0, <2>0, <2>1, <2>2 DEF PollerServesMember
        <3>2. RunnersServeMember'
            BY <1>0, <2>0, <2>2 DEF RunnersServeMember, UserOf
        <3>. QED
            BY <3>1, <3>2
    <2>3. ASSUME NEW c \in Chats, SaveChat(r, c)
          PROVE  Serving'
        <3>. DEFINE s == [rec[r] EXCEPT !.todo = @ \ {c}]
        <3>1. /\ s \in RunnerType /\ s.todo = rec[r].todo \ {c} /\ s.pc = "save"
              /\ s.chats = rec[r].chats
            BY <2>0, <2>3 DEF SaveChat, RunnerType
        <3>2. rec' = [rec EXCEPT ![r] = s] /\ p' = p /\ topic' = topic
            BY <2>3 DEF SaveChat
        <3>3. \A d \in s.todo \cup s.chats : UserOf(r) \in members[d]
            BY <1>0, <3>1 DEF RunnersServeMember
        <3>. HIDE DEF s
        <3>. QED
            BY <1>0, <2>0, <2>2, <3>1, <3>2, <3>3, MembersFrame DEF Serving
    <2>4. ASSUME NEW c \in Chats, CreateTopic(r, c)
          PROVE  Serving'
        <3>. DEFINE s == [rec[r] EXCEPT !.pc = "backfill", !.todo = @ \ {c}, !.chat = c]
        <3>1. /\ s \in RunnerType /\ s.todo = rec[r].todo \ {c} /\ s.chat = c
              /\ s.chats = rec[r].chats
            BY <2>0 DEF RunnerType
        <3>2. rec' = [rec EXCEPT ![r] = s] /\ p' = p /\ c \in rec[r].todo
            BY <2>4 DEF CreateTopic
        <3>3. /\ \A d \in s.todo \cup s.chats : UserOf(r) \in members[d]
              /\ UserOf(r) \in members[c]
            BY <1>0, <3>1, <3>2 DEF RunnersServeMember
        <3>4. MembersOnly'
          <4>1. \A u \in Users, d \in Chats :
                   <<u, d>> # <<UserOf(r), c>> => topic'[u][d] \in {topic[u][d], Nobody}
              BY <2>1, <2>4, TopicsAfter
          <4>. QED
              BY <1>0, <2>0, <3>3, <4>1 DEF MembersOnly
        <3>. HIDE DEF s
        <3>. QED
            BY <2>2, <3>1, <3>2, <3>3, <3>4 DEF Serving
    <2>5. CASE FindTopics(r)
        <3>. DEFINE s == [rec[r] EXCEPT !.pc = "create",
                            !.todo = {c \in rec[r].chats :
                                        rec[r].force \/ topic[UserOf(r)][c] = Nobody}]
        <3>1. /\ s \in RunnerType /\ s.pc = "create" /\ s.chats = rec[r].chats
              /\ s.todo \subseteq rec[r].chats
            BY <2>0 DEF RunnerType
        <3>3. \A d \in s.todo \cup s.chats : UserOf(r) \in members[d]
            BY <1>0, <3>1 DEF RunnersServeMember
        <3>2. rec' = [rec EXCEPT ![r] = s] /\ p' = p /\ topic' = topic
            BY <2>5 DEF FindTopics, tables
        <3>. HIDE DEF s
        <3>. QED
            BY <1>0, <2>0, <2>2, <3>1, <3>2, <3>3, MembersFrame DEF Serving
    <2>6. CASE Backfill(r) \/ BackfillCursor(r)
        <3>1. PICK pc \in {"cursor", "create"} : rec' = [rec EXCEPT ![r].pc = pc]
            BY <2>6 DEF Backfill, BackfillCursor
        <3>2. p' = p /\ topic' = topic /\ rec[r].pc \in {"backfill", "cursor"}
            BY <2>6 DEF Backfill, BackfillCursor, tables
        <3>. DEFINE s == [rec[r] EXCEPT !.pc = pc]
        <3>3. /\ s \in RunnerType /\ s.todo = rec[r].todo /\ s.chat = rec[r].chat
              /\ s.chats = rec[r].chats
            BY <2>0 DEF RunnerType
        <3>4. /\ \A d \in s.todo \cup s.chats : UserOf(r) \in members[d]
              /\ s.chat \in Chats /\ UserOf(r) \in members[s.chat]
            BY <1>0, <3>2, <3>3 DEF RunnersServeMember
        <3>5. rec' = [rec EXCEPT ![r] = s]
            BY <3>1
        <3>. HIDE DEF s
        <3>. QED
            BY <1>0, <2>0, <2>2, <3>2, <3>3, <3>4, <3>5, MembersFrame DEF Serving
    <2>7. CASE EndReconcile(r)
        <3>1. rec' = [rec EXCEPT ![r] = Resting] /\ topic' = topic
              /\ p' = IF r = Nobody THEN Ready ELSE p
            BY <2>7 DEF EndReconcile, tables
        <3>2. PollerServesMember'
            <4>1. CASE r = Nobody
                BY <1>0, <3>1, <4>1 DEF PollerServesMember, Ready
            <4>2. CASE r # Nobody
                BY <1>0, <2>0, <3>1, <4>2 DEF PollerServesMember
            <4>. QED
                BY <4>1, <4>2
        <3>3. RunnersServeMember'
            BY <1>0, <2>0, <3>1 DEF RunnersServeMember, Resting, UserOf
        <3>. QED
            BY <1>0, <2>0, <3>1, <3>2, <3>3, MembersFrame DEF Serving
    <2>. QED
        BY <1>11, <2>3, <2>4, <2>5, <2>6, <2>7 DEF Reconcile
<1>. QED
    BY <1>1, <1>2, <1>3, <1>4, <1>5, <1>6, <1>7, <1>8, <1>9, <1>10, <1>11 DEF Next, Poll

-----------------------------------------------------------------------------
(* What the rows and the links say.                                        *)

LEMMA RestInit == Init => OnlyMembersAreServed /\ LinksOK
BY DEF Init, OnlyMembersAreServed, LinksOK, Ready

LEMMA ServedStep == TypeOK /\ Serving /\ OnlyMembersAreServed /\ [Next]_vars => OnlyMembersAreServed'
<1>. SUFFICES ASSUME TypeOK, Serving, OnlyMembersAreServed, [Next]_vars
              PROVE  OnlyMembersAreServed'
    OBVIOUS
<1>0. /\ PollerServesMember /\ RunnersServeMember
      /\ got \in [Users -> SUBSET Msgs] /\ chatRow \in [Chats -> Owners]
      /\ cursor \in [Chats -> [owner : Owners, last : 0..MaxMessages]]
    BY DEF Serving, TypeOK
<1>1. CASE UNCHANGED <<members, got, chatRow, topic, cursor>>
    BY <1>1 DEF OnlyMembersAreServed
<1>2. CASE SendMessageToTelegram
    <2>1. p.pc = "deliver" /\ p.batch # <<>> /\ Current = p.batch[1] /\ 1 \in DOMAIN p.batch
        BY <1>2, InHand DEF SendMessageToTelegram, Delivering
    <2>2. p.user \in members[Current[1]]
        BY <1>0, <2>1 DEF PollerServesMember
    <2>3. /\ got' = [got EXCEPT ![p.user] = @ \cup {Current}]
          /\ members' = members /\ chatRow' = chatRow /\ cursor' = cursor /\ topic' = topic
        BY <1>2 DEF SendMessageToTelegram, tables
    <2>. QED
        BY <1>0, <2>2, <2>3 DEF OnlyMembersAreServed
<1>3. CASE UpsertCursor
    <2>1. p.chat \in Chats /\ p.user \in members[p.chat]
        BY <1>0, <1>3 DEF UpsertCursor, PollerServesMember
    <2>2. /\ members' = members /\ chatRow' = chatRow /\ got' = got /\ topic' = topic
          /\ \/ cursor' = cursor
             \/ cursor' = [cursor EXCEPT ![p.chat] = [owner |-> p.user, last |-> p.latest]]
        BY <1>3 DEF UpsertCursor, observed
    <2>. QED
        BY <1>0, <2>1, <2>2 DEF OnlyMembersAreServed
<1>4. ASSUME NEW r \in Runners, Reconcile(r)
      PROVE  OnlyMembersAreServed'
    <2>1. ASSUME NEW c \in Chats, SaveChat(r, c)
          PROVE  OnlyMembersAreServed'
        <3>1. /\ members' = members /\ got' = got /\ cursor' = cursor /\ topic' = topic
              /\ chatRow' = [chatRow EXCEPT ![c] = UserOf(r)]
            BY <2>1 DEF SaveChat, observed
        <3>2. UserOf(r) \in members[c]
            BY <1>0, <2>1 DEF SaveChat, RunnersServeMember
        <3>. QED
            BY <1>0, <3>1, <3>2 DEF OnlyMembersAreServed
    <2>2. CASE Backfill(r)
        <3>1. rec[r].chat \in Chats /\ UserOf(r) \in members[rec[r].chat]
            BY <1>0, <2>2 DEF Backfill, RunnersServeMember
        <3>. DEFINE newest == {<<rec[r].chat, i>> : i \in {j \in 1..posted[rec[r].chat] :
                                                           j + BackfillCount > posted[rec[r].chat]}}
        <3>4. \A m \in newest : m[1] = rec[r].chat
            OBVIOUS
        <3>5. PICK shown \in SUBSET newest : got' = [got EXCEPT ![UserOf(r)] = @ \cup shown]
            BY <2>2, Zenon DEF Backfill
        <3>2. \A m \in shown : m[1] = rec[r].chat
            BY <3>4, <3>5
        <3>3. members' = members /\ chatRow' = chatRow /\ cursor' = cursor /\ topic' = topic
            BY <2>2 DEF Backfill, tables
        <3>. QED
            BY <1>0, <3>1, <3>2, <3>3, <3>5 DEF OnlyMembersAreServed
    <2>3. CASE BackfillCursor(r)
        <3>1. rec[r].chat \in Chats /\ UserOf(r) \in members[rec[r].chat]
            BY <1>0, <2>3 DEF BackfillCursor, RunnersServeMember
        <3>2. /\ members' = members /\ chatRow' = chatRow /\ got' = got /\ topic' = topic
              /\ \/ cursor' = cursor
                 \/ cursor' = [cursor EXCEPT ![rec[r].chat] =
                                 [owner |-> UserOf(r), last |-> posted[rec[r].chat]]]
            BY <2>3 DEF BackfillCursor, observed
        <3>. QED
            BY <1>0, <3>1, <3>2 DEF OnlyMembersAreServed
    <2>4. ASSUME NEW c \in Chats, CreateTopic(r, c)
          PROVE  OnlyMembersAreServed'
        <3>1. /\ members' = members /\ got' = got /\ cursor' = cursor /\ chatRow' = chatRow
              /\ UserOf(r) \in Users
            BY <2>4, UserOfRunner DEF CreateTopic, observed
        <3>2. /\ topic'[UserOf(r)][c] = chatRow[c]
              /\ \A u \in Users, d \in Chats :
                    <<u, d>> # <<UserOf(r), c>> => topic'[u][d] \in {topic[u][d], Nobody}
            BY <2>4, <3>1, TopicsAfter
        <3>. QED
            BY <3>1, <3>2 DEF OnlyMembersAreServed
    <2>5. CASE FindTopics(r) \/ EndReconcile(r)
        BY <1>1, <2>5 DEF FindTopics, EndReconcile, observed, tables
    <2>. QED
        BY <1>4, <2>1, <2>2, <2>3, <2>4, <2>5 DEF Reconcile
<1>5. CASE UNCHANGED vars
    BY <1>1, <1>5 DEF vars, tables, observed
<1>6. CASE Crash \/ (\E c \in Chats : Post(c)) \/ (\E u \in Users : Start(u) \/ Resync(u))
    BY <1>1, <1>6 DEF Crash, Post, Start, Resync, tables, observed
<1>7. CASE \E u \in Users : \/ CatchUpUser(u) \/ \E c \in Chats : PollChat(u, c)
                            \/ \E m \in pushed[u] : LiveUnmapped(u, m) \/ LiveMessage(u, m)
    BY <1>1, <1>7 DEF CatchUpUser, PollChat, LiveUnmapped, LiveMessage, tables, observed
<1>8. CASE GetMessages \/ AlreadyLinked \/ SendFails \/ SaveMessageLink
    BY <1>1, <1>8 DEF GetMessages, AlreadyLinked, SendFails, SaveMessageLink, tables, observed
<1>. QED
    BY <1>2, <1>3, <1>4, <1>5, <1>6, <1>7, <1>8 DEF Next, Poll

\* What was shown stays shown: links keep their meaning while the poller is not at one.
LEMMA LinksFrame ==
    ASSUME TypeOK, LinksOK, members' = members, linked' = linked, passed' = passed,
           \A u \in Users : got[u] \subseteq got'[u],
           p'.pc # "link" \/ (p' = p /\ p.user \in Users)
    PROVE  LinksOK'
<1>1. members \in [Chats -> SUBSET Users] /\ \A m \in linked : m[1] \in Chats
    BY DEF TypeOK, Msgs
<1>2. \A m \in linked : \E v \in members[m[1]] : m \in got'[v]
    BY <1>1 DEF LinksOK
<1>. QED
    BY <1>2 DEF LinksOK, Current

LEMMA LinksStep == TypeOK /\ Serving /\ LinksOK /\ [Next]_vars => LinksOK'
<1>. SUFFICES ASSUME TypeOK, Serving, LinksOK, [Next]_vars
              PROVE  LinksOK'
    OBVIOUS
<1>0. /\ PollerServesMember /\ got \in [Users -> SUBSET Msgs] /\ passed \in [Users -> SUBSET Msgs]
      /\ p \in PollerType /\ members \in [Chats -> SUBSET Users]
      /\ p.pc = "link" => p.user \in Users
    BY Served DEF Serving, TypeOK
<1>1. CASE /\ UNCHANGED <<members, linked, passed, got>>
           /\ p'.pc # "link" \/ p' = p
    BY <1>0, <1>1, LinksFrame
<1>2. CASE AlreadyLinked
    <2>1. p.pc = "deliver" /\ p.user \in Users
        BY <1>2, Served DEF AlreadyLinked, Delivering
    <2>2. /\ Current \in linked /\ passed' = [passed EXCEPT ![p.user] = @ \cup {Current}]
          /\ members' = members /\ linked' = linked /\ got' = got /\ p'.pc = "deliver"
        BY <1>0, <1>2 DEF AlreadyLinked, Passed, tables, PollerType
    <2>. QED
        BY <1>0, <2>1, <2>2 DEF LinksOK
<1>3. CASE SendMessageToTelegram
    <2>1. p.pc = "deliver" /\ p.user \in Users /\ p.batch # <<>> /\ Current \notin linked
        BY <1>3, Served DEF SendMessageToTelegram, Delivering
    <2>2. /\ got' = [got EXCEPT ![p.user] = @ \cup {Current}] /\ passed' = passed
          /\ members' = members /\ linked' = linked
          /\ p'.user = p.user /\ p'.batch = p.batch
        BY <1>0, <1>3 DEF SendMessageToTelegram, tables, PollerType
    <2>3. Current' \in got'[p'.user] \ linked'
        BY <1>0, <2>1, <2>2 DEF Current
    <2>4. \A m \in linked : \E v \in members[m[1]] : m \in got'[v]
        <3>1. \A m \in linked : m[1] \in Chats
            BY DEF TypeOK, Msgs
        <3>. QED
            BY <1>0, <2>1, <2>2, <3>1 DEF LinksOK
    <2>. QED
        BY <2>2, <2>3, <2>4 DEF LinksOK
<1>4. CASE SaveMessageLink
    <2>1. p.pc = "link" /\ p.user \in Users /\ p.batch # <<>>
        BY <1>0, <1>4 DEF SaveMessageLink, PollerServesMember
    <2>2. /\ linked' = linked \cup {Current} /\ passed' = [passed EXCEPT ![p.user] = @ \cup {Current}]
          /\ members' = members /\ got' = got /\ p'.pc = "deliver"
        BY <1>0, <1>4 DEF SaveMessageLink, Passed, PollerType
    <2>3. p.user \in members[Current[1]] /\ Current \in got[p.user]
        BY <1>0, <2>1, InHand DEF LinksOK, PollerServesMember
    <2>. QED
        BY <1>0, <2>1, <2>2, <2>3 DEF LinksOK
<1>5. ASSUME NEW r \in Runners, Reconcile(r)
      PROVE  LinksOK'
    <2>1. CASE Backfill(r)
        <3>1. PICK shown : got' = [got EXCEPT ![UserOf(r)] = @ \cup shown]
            BY <2>1 DEF Backfill
        <3>2. /\ members' = members /\ linked' = linked /\ passed' = passed /\ p' = p
            BY <2>1 DEF Backfill, tables
        <3>. QED
            BY <1>0, <3>1, <3>2, LinksFrame
    <2>2. CASE (\E c \in Chats : SaveChat(r, c) \/ CreateTopic(r, c)) \/ FindTopics(r)
               \/ BackfillCursor(r)
        <3>1. UNCHANGED <<members, linked, passed, got>> /\ p' = p
            BY <2>2 DEF SaveChat, CreateTopic, FindTopics, BackfillCursor, observed, tables
        <3>. QED
            BY <1>1, <3>1
    <2>3. CASE EndReconcile(r)
        BY <1>1, <2>3 DEF EndReconcile, Ready, observed, tables
    <2>. QED
        BY <1>5, <2>1, <2>2, <2>3 DEF Reconcile
<1>6. CASE UNCHANGED vars
    BY <1>1, <1>6 DEF vars, tables, observed
<1>7. CASE Crash \/ (\E c \in Chats : Post(c)) \/ (\E u \in Users : Start(u) \/ Resync(u))
    <2>1. UNCHANGED <<members, linked, passed, got>> /\ (p' = p \/ p' = Ready)
        BY <1>7 DEF Crash, Post, Start, Resync, tables, observed
    <2>. QED
        BY <1>1, <2>1 DEF Ready
<1>8. CASE (\E u \in Users : \/ CatchUpUser(u) \/ \E c \in Chats : PollChat(u, c)
                             \/ \E m \in pushed[u] : LiveUnmapped(u, m) \/ LiveMessage(u, m))
           \/ GetMessages
    <2>1. UNCHANGED <<members, linked, passed, got>>
        BY <1>8 DEF CatchUpUser, PollChat, LiveUnmapped, LiveMessage, GetMessages, tables, observed
    <2>2. p'.pc # "link"
        BY <1>0, <1>8 DEF CatchUpUser, PollChat, LiveUnmapped, LiveMessage, GetMessages, PollerType
    <2>. QED
        BY <1>1, <2>1, <2>2
<1>9. CASE SendFails
    <2>1. UNCHANGED <<members, linked, passed, got>>
        BY <1>9 DEF SendFails, tables, observed
    <2>2. p'.pc # "link"
        BY <1>0, <1>9 DEF SendFails, Delivering, PollerType
    <2>. QED
        BY <1>1, <2>1, <2>2
<1>10. CASE UpsertCursor
    BY <1>1, <1>10 DEF UpsertCursor, Ready, observed
<1>. QED
    BY <1>2, <1>3, <1>4, <1>5, <1>6, <1>7, <1>8, <1>9, <1>10 DEF Next, Poll

-----------------------------------------------------------------------------
(* The theorems.                                                           *)

LEMMA IInvInit == Init => IInv
BY TypeInit, ServingInit, RestInit DEF IInv

LEMMA IInvStep == IInv /\ [Next]_vars => IInv'
BY TypeStep, ServingStep, ServedStep, LinksStep DEF IInv

\* The strengthened invariant holds of every behaviour.
THEOREM Inductive == Spec => []IInv
BY IInvInit, IInvStep, PTL DEF Spec

\* Every reachable state of the tables and of the tasks over them is well typed.
THEOREM TypeCorrect == Spec => []TypeOK
<1>1. IInv => TypeOK
    BY DEF IInv
<1>. QED
    BY <1>1, Inductive, PTL

\* A user is shown texts only of chats he is in, and owns rows only of such chats.
THEOREM MembersOnlyServed == Spec => []OnlyMembersAreServed
<1>1. IInv => OnlyMembersAreServed
    BY DEF IInv
<1>. QED
    BY <1>1, Inductive, PTL

\* A text passed over for a user was sent to a member of its chat.
THEOREM PassedReached == Spec => []PassedReachedAMember
<1>1. IInv => PassedReachedAMember
    BY DEF IInv, LinksOK, PassedReachedAMember
<1>. QED
    BY <1>1, Inductive, PTL

-----------------------------------------------------------------------------
(* SharedTables implements Delivery.                                       *)

LEMMA PromiseInit == Init => Promise!Init
BY DEF Init, Ready, Promise!Init

LEMMA PromiseStep == TypeOK /\ Serving /\ LinksOK /\ [Next]_vars => [Promise!Next]_(Promise!state)
<1>. SUFFICES ASSUME TypeOK, Serving, LinksOK, [Next]_vars
              PROVE  [Promise!Next]_(Promise!state)
    OBVIOUS
<1>0. p \in PollerType
    BY DEF TypeOK
<1>1. CASE /\ UNCHANGED <<linked, sends, failures, crashes>>
           /\ (p.pc # "link" /\ p'.pc # "link") \/ p' = p
    BY <1>1 DEF Promise!state, Current
<1>2. CASE Crash
    <2>1. p'.pc # "link" /\ crashes' = crashes + 1 /\ linked' = linked /\ sends' = sends
          /\ failures' = failures
        BY <1>2 DEF Crash, Ready, tables, observed
    <2>. QED
        BY <2>1 DEF Promise!Next, Promise!Crash
<1>3. CASE SendMessageToTelegram
    <2>1. p.pc = "deliver" /\ p.batch # <<>> /\ Current \notin linked
        BY <1>3 DEF SendMessageToTelegram, Delivering
    <2>2. /\ sends' = [sends EXCEPT ![Current] = @ + 1] /\ linked' = linked /\ crashes' = crashes
          /\ failures' = failures /\ p'.pc = "link" /\ p'.batch = p.batch
        BY <1>0, <1>3 DEF SendMessageToTelegram, tables, env, PollerType
    <2>3. Current \in Msgs /\ Current' = Current
        BY <2>1, <2>2, InHand DEF Current
    <2>4. Promise!Send(Current)
        BY <2>1, <2>2, <2>3 DEF Promise!Send
    <2>. QED
        BY <2>3, <2>4 DEF Promise!Next
<1>4. CASE SaveMessageLink
    <2>1. /\ p.pc = "link" /\ p'.pc # "link" /\ linked' = linked \cup {Current}
          /\ sends' = sends /\ crashes' = crashes /\ failures' = failures
        BY <1>0, <1>4 DEF SaveMessageLink, Passed, env, PollerType
    <2>. QED
        BY <2>1 DEF Promise!Next, Promise!Record
<1>5. ASSUME NEW r \in Runners, Reconcile(r)
      PROVE  [Promise!Next]_(Promise!state)
    <2>1. UNCHANGED <<linked, sends, failures, crashes>>
        BY <1>5 DEF Reconcile, SaveChat, CreateTopic, FindTopics, Backfill, BackfillCursor,
                    EndReconcile, Fault, tables, observed, env
    <2>2. CASE EndReconcile(r) /\ r = Nobody
        <3>1. p.pc = "reconcile" /\ p' = Ready
            BY <2>2, UserOfRunner DEF EndReconcile
        <3>. QED
            BY <1>1, <2>1, <3>1 DEF Ready
    <2>3. CASE ~(EndReconcile(r) /\ r = Nobody)
        <3>1. p' = p
            BY <1>5, <2>3 DEF Reconcile, SaveChat, CreateTopic, FindTopics, Backfill,
                              BackfillCursor, EndReconcile
        <3>. QED
            BY <1>1, <2>1, <3>1
    <2>. QED
        BY <2>2, <2>3
<1>6. CASE UNCHANGED vars
    BY <1>1, <1>6 DEF vars, tables, observed, env
<1>7. CASE (\E c \in Chats : Post(c)) \/ (\E u \in Users : Start(u) \/ Resync(u))
    BY <1>1, <1>7 DEF Post, Start, Resync, Command, tables, observed, env
<1>8. CASE (\E u \in Users : \/ CatchUpUser(u) \/ \E c \in Chats : PollChat(u, c)
                             \/ \E m \in pushed[u] : LiveUnmapped(u, m) \/ LiveMessage(u, m))
           \/ GetMessages
    <2>1. UNCHANGED <<linked, sends, failures, crashes>>
        BY <1>8 DEF CatchUpUser, PollChat, LiveUnmapped, LiveMessage, GetMessages,
                    tables, observed, env
    <2>2. p.pc # "link" /\ p'.pc # "link"
        BY <1>0, <1>8 DEF CatchUpUser, PollChat, LiveUnmapped, LiveMessage, GetMessages, PollerType
    <2>. QED
        BY <1>1, <2>1, <2>2
<1>9. CASE AlreadyLinked
    <2>1. UNCHANGED <<linked, sends, failures, crashes>>
        BY <1>9 DEF AlreadyLinked, tables, env
    <2>2. p.pc # "link" /\ p'.pc # "link"
        BY <1>0, <1>9 DEF AlreadyLinked, Delivering, Passed, PollerType
    <2>. QED
        BY <1>1, <2>1, <2>2
<1>11. CASE SendFails
    <2>1. p.batch # <<>> /\ Current \notin linked
        BY <1>11 DEF SendFails, Delivering, Serving, PollerServesMember, LinksOK
    <2>2. /\ failures' = [failures EXCEPT ![Current] = @ + 1] /\ linked' = linked
          /\ sends' = sends /\ crashes' = crashes /\ p'.pc # "link"
        BY <1>0, <1>11 DEF SendFails, Fault, tables, PollerType
    <2>3. Current \in Msgs
        BY <2>1, InHand
    <2>4. Promise!Fail(Current)
        BY <2>1, <2>2, <2>3 DEF Promise!Fail
    <2>. QED
        BY <2>3, <2>4 DEF Promise!Next
<1>10. CASE UpsertCursor
    <2>1. UNCHANGED <<linked, sends, failures, crashes>> /\ p.pc # "link" /\ p'.pc # "link"
        BY <1>10 DEF UpsertCursor, Ready, observed, env
    <2>. QED
        BY <1>1, <2>1
<1>. QED
    BY <1>2, <1>3, <1>4, <1>5, <1>6, <1>7, <1>8, <1>9, <1>10, <1>11 DEF Next, Poll

\* The sends and the links of all users together are what Delivery promises.
THEOREM Implements == Spec => DeliversAsPromised
<1>1. IInv => TypeOK /\ Serving /\ LinksOK
    BY DEF IInv
<1>. QED
    BY <1>1, Inductive, PromiseInit, PromiseStep, PTL DEF Spec, DeliversAsPromised, Promise!Spec

Promised == INSTANCE DeliveryProofs WITH
    Messages <- Msgs, done <- linked, flight <- IF p.pc = "link" THEN {Current} ELSE {},
    count <- sends, fails <- failures

\* Whoever of the users of a chat receives it, each text the polls send again was paid for
\* by a crash of its own, or by a delivery of it that raised (_deliver_message): Delivery
\* promises it.
THEOREM RepeatsArePaidFor == Spec => []Promise!EveryRepeatIsPaid
<1>1. Promise!Spec <=> Promised!Spec
    BY DEF Promise!Spec, Promised!Spec, Promise!Init, Promised!Init, Promise!Next,
           Promised!Next, Promise!state, Promised!state, Promise!Send, Promised!Send,
           Promise!Record, Promised!Record, Promise!Crash, Promised!Crash,
           Promise!Fail, Promised!Fail
<1>2. Promised!EveryRepeatIsPaid <=> Promise!EveryRepeatIsPaid
    BY DEF Promise!EveryRepeatIsPaid, Promised!EveryRepeatIsPaid, Promise!Payers,
           Promised!Payers, Promise!Owed, Promised!Owed, Promise!Lost, Promised!Lost
<1>. QED
    BY <1>1, <1>2, Implements, Promised!RepeatsArePaidFor, PTL DEF DeliversAsPromised
=============================================================================
