---------------------------- MODULE InboundSync ----------------------------
(***************************************************************************)
(* The MAX -> Telegram path of one bridged user: InboundSyncService with   *)
(* the adapter's live buffer, the runtime registry's dirty chats, the      *)
(* topic, cursor and link tables, the creation of missing topics by        *)
(* reconcile, and the commands /mute, /unmute and /resync.  One action per *)
(* stretch of code between two awaits that another task can separate.      *)
(*                                                                         *)
(* The MAX service is external: a chat is a sequence of message kinds, a   *)
(* message is <<chat, position>>, and positions grow with time, so "older  *)
(* than inbound_since_ms" is "at or below the position the chat had when   *)
(* the topic was unmuted".                                                 *)
(***************************************************************************)
EXTENDS Naturals, Sequences, FiniteSets

CONSTANTS
    Chats,          \* the user's MAX chats
    MaxMessages,    \* bound: messages a chat ever holds
    HistoryLimit,   \* fetch_history depth of a poll (50 in the code)
    BackfillCount,  \* messages backfilled into a new topic
    StormThreshold, \* reconnects in the window that close the runtime
    MaxFaults,      \* bound: drops, failed sends and failed calls
    MaxCrashes,     \* bound: process crashes
    MaxCommands,    \* bound: /mute, /unmute and /resync commands
    MaxEvents,      \* bound: faults, crashes and commands together
    MaxOwn,         \* bound: messages the user sends to a chat from Telegram
    PostKinds,      \* bound: the kinds of message other people write
    NoChat

ASSUME BoundsAssumption ==
    /\ MaxMessages \in Nat /\ HistoryLimit \in Nat \ {0}
    /\ BackfillCount \in Nat \ {0} /\ StormThreshold \in Nat \ {0}
    /\ MaxFaults \in Nat /\ MaxCrashes \in Nat /\ MaxCommands \in Nat
    /\ MaxEvents \in Nat /\ MaxOwn \in Nat
    /\ PostKinds \subseteq {"text", "service"}
ASSUME ChatsAssumption == IsFiniteSet(Chats) /\ NoChat \notin Chats

VARIABLES
    hist, up, wire,                                        \* MAX and its socket
    client, buffer, reconnected, dirty, lastActive, outbox, \* adapter, registry
    p, throttled, due, recent,                             \* InboundSyncService
    r,                                                     \* the task of a /resync
    inbound, since, cursor, linked, audited,               \* SQLite
    faults, crashes, commands,                             \* environment bounds
    tg, failures, backfilled, missed, quiet, skipped       \* what was observed

maxSide == <<hist, up, wire>>
mem     == <<client, buffer, reconnected, dirty, lastActive, outbox>>
sync    == <<throttled, due, recent, r>>
db      == <<inbound, since, cursor, linked, audited>>
budgets == <<faults, crashes, commands>>
seen    == <<tg, failures, backfilled, missed, quiet, skipped>>
vars    == <<maxSide, mem, p, sync, db, budgets, seen>>

Kinds == {"text", "service", "own"}
Ids   == 1..MaxMessages
Msgs  == Chats \X Ids
Pcs   == {"idle", "drain", "live", "reconcile", "create", "backfill", "backcursor", "settle",
          "send", "link", "next", "fetch", "batch", "topics"}
Modes == {"live", "dirty", "recover", "broad", "hourly"}

\* The positions of the newest n messages of a chat, as fetch_history counts them.
Newest(c, n) == {i \in DOMAIN hist[c] : i + n > Len(hist[c])}

\* get_messages: the messages of c newer than pos among the newest n, oldest first.
Fetched(c, pos, n) ==
    LET lo == IF pos + n < Len(hist[c]) THEN Len(hist[c]) - n ELSE pos IN
    [i \in 1..(Len(hist[c]) - lo) |-> <<c, lo + i>>]

\* The members of a set in some order: the iteration order of a dict or of rows.
Orders(S) == {q \in [1..Cardinality(S) -> S] : \A i, j \in DOMAIN q : i # j => q[i] # q[j]}

Ready == [pc |-> "idle", mode |-> "live", todo |-> <<>>, chat |-> NoChat, batch |-> <<>>,
          since |-> 0, pos |-> 0, read |-> 0, latest |-> 0, any |-> FALSE, recovered |-> FALSE]

\* No /resync runs; one that does holds the chat and the topic row it read.
NoResync == [pc |-> "none", chat |-> NoChat, on |-> FALSE, since |-> 0]

Current  == p.batch[1]
NextLive == [Ready EXCEPT !.pc = "live", !.batch = Tail(p.batch)]
Is(k)    == hist[Current[1]][Current[2]] = k
Buffered == {buffer[i] : i \in DOMAIN buffer}
InHand   == IF p.mode = "live" THEN {p.batch[i] : i \in DOMAIN p.batch} ELSE {}
Unmapped == {c \in Chats : inbound[c] = "unmapped"}
Room(n)  == faults + crashes + commands + n <= MaxEvents
Fault    == /\ faults < MaxFaults /\ Room(1)
            /\ faults' = faults + 1 /\ UNCHANGED <<crashes, commands>>

Init ==
    /\ hist = [c \in Chats |-> <<>>] /\ up = FALSE /\ wire = {}
    /\ client = "none" /\ buffer = <<>> /\ reconnected = FALSE
    /\ dirty = {} /\ lastActive = NoChat /\ outbox = {}
    /\ p = Ready /\ throttled = {} /\ due = TRUE /\ recent = 0 /\ r = NoResync
    /\ inbound \in [Chats -> {"unmapped", "enabled"}]
    /\ since = [c \in Chats |-> 0] /\ cursor = [c \in Chats |-> 0]
    /\ linked = {} /\ audited = {}
    /\ faults = 0 /\ crashes = 0 /\ commands = 0
    /\ tg = [m \in Msgs |-> 0] /\ failures = [m \in Msgs |-> 0]
    /\ backfilled = {} /\ missed = {} /\ quiet = {} /\ skipped = {}

-----------------------------------------------------------------------------
(* MAX, the socket, and the adapter's callbacks.                           *)

\* Somebody writes in a chat; a connected socket is pushed the message.
Post(c, k) ==
    LET m == <<c, Len(hist[c]) + 1>> IN
    /\ Len(hist[c]) < MaxMessages
    /\ hist' = [hist EXCEPT ![c] = Append(@, k)]
    /\ wire' = IF up THEN wire \cup {m} ELSE wire
    /\ missed' = IF up THEN missed ELSE missed \cup {m}
    /\ quiet' = IF inbound[c] = "muted" THEN quiet \cup {m} ELSE quiet
    /\ UNCHANGED <<up, mem, p, sync, db, budgets, tg, failures, backfilled, skipped>>

\* on_message resolves names and media before it appends, so two callbacks may
\* append in either order.
BufferMessage(m) ==
    /\ m \in wire
    /\ wire' = wire \ {m}
    /\ buffer' = Append(buffer, m)
    /\ UNCHANGED <<hist, up, client, reconnected, dirty, lastActive, outbox,
                   p, sync, db, budgets, seen>>

SocketDrop ==
    /\ up /\ Fault
    /\ up' = FALSE /\ wire' = {} /\ missed' = missed \cup wire
    /\ UNCHANGED <<hist, mem, p, sync, db, tg, failures, backfilled, quiet, skipped>>

\* pymax reconnects by itself and fires on_start a second time.
OnStartAgain ==
    /\ client = "live" /\ ~up
    /\ up' = TRUE /\ reconnected' = TRUE
    /\ UNCHANGED <<hist, wire, client, buffer, dirty, lastActive, outbox,
                   p, sync, db, budgets, seen>>

-----------------------------------------------------------------------------
(* Telegram handlers, clocks and crashes: tasks beside the poller.         *)

OutboundSend(c) ==
    /\ up /\ inbound[c] # "unmapped" /\ c \notin outbox
    /\ Len(hist[c]) < MaxMessages
    /\ Cardinality({i \in DOMAIN hist[c] : hist[c][i] = "own"}) < MaxOwn
    /\ hist' = [hist EXCEPT ![c] = Append(@, "own")]
    /\ outbox' = outbox \cup {c}
    /\ UNCHANGED <<up, wire, client, buffer, reconnected, dirty, lastActive,
                   p, sync, db, budgets, seen>>

MarkChatDirty(c) ==
    /\ c \in outbox
    /\ outbox' = outbox \ {c} /\ dirty' = dirty \cup {c} /\ lastActive' = c
    /\ UNCHANGED <<maxSide, client, buffer, reconnected, p, sync, db, budgets, seen>>

Command ==
    /\ commands < MaxCommands /\ Room(1)
    /\ commands' = commands + 1 /\ UNCHANGED <<faults, crashes>>

Mute(c) ==
    /\ inbound[c] # "unmapped" /\ Command
    /\ inbound' = [inbound EXCEPT ![c] = "muted"]
    /\ UNCHANGED <<maxSide, mem, p, sync, since, cursor, linked, audited, seen>>

\* Mutant of Unmute: the window keeps its old start.
UnmuteKeepsWindow(c) ==
    /\ inbound[c] # "unmapped" /\ Command
    /\ inbound' = [inbound EXCEPT ![c] = "enabled"]
    /\ UNCHANGED <<maxSide, mem, p, sync, since, cursor, linked, audited, seen>>

Unmute(c) ==
    /\ inbound[c] # "unmapped" /\ Command
    /\ inbound' = [inbound EXCEPT ![c] = "enabled"]
    /\ since' = [since EXCEPT ![c] = Len(hist[c])]
    /\ UNCHANGED <<maxSide, mem, p, sync, cursor, linked, audited, seen>>

\* due is read and reset within one poll, so the hour may as well end between polls.
HourPasses ==
    /\ p.pc = "idle" /\ ~due /\ due' = TRUE
    /\ UNCHANGED <<maxSide, mem, p, throttled, recent, r, db, budgets, seen>>

\* What the process keeps in memory is gone; SQLite and Telegram are not.
Crash ==
    /\ crashes < MaxCrashes /\ Room(1) /\ crashes' = crashes + 1
    /\ client' = "none" /\ up' = FALSE /\ buffer' = <<>> /\ wire' = {}
    /\ reconnected' = FALSE /\ dirty' = {} /\ lastActive' = NoChat /\ outbox' = {}
    /\ p' = Ready /\ throttled' = {} /\ due' = TRUE /\ recent' = 0 /\ r' = NoResync
    /\ missed' = missed \cup wire \cup Buffered \cup InHand
    /\ UNCHANGED <<hist, db, faults, commands, tg, failures, backfilled, quiet, skipped>>

-----------------------------------------------------------------------------
(* poll_user: the live buffer.                                             *)

PollBegin ==
    /\ p.pc = "idle"
    /\ client' = "live" /\ up' = (up \/ client = "none")
    /\ p' = [Ready EXCEPT !.pc = "drain"]
    /\ UNCHANGED <<hist, wire, buffer, reconnected, dirty, lastActive, outbox,
                   sync, db, budgets, seen>>

DrainBufferedMessages ==
    /\ p.pc = "drain"
    /\ p' = [p EXCEPT !.pc = "live", !.batch = buffer]
    /\ buffer' = <<>>
    /\ UNCHANGED <<maxSide, client, reconnected, dirty, lastActive, outbox,
                   sync, db, budgets, seen>>

LiveMessage == p.pc = "live" /\ p.batch # <<>>

LiveSkipped ==
    /\ LiveMessage
    /\ \/ Is("service")
       \/ inbound[Current[1]] = "muted"
       \/ inbound[Current[1]] = "enabled" /\ Current[2] <= since[Current[1]]
    /\ skipped' = skipped \cup {Current}
    /\ p' = [p EXCEPT !.batch = Tail(@)]
    /\ UNCHANGED <<maxSide, mem, sync, db, budgets, tg, failures, backfilled, missed, quiet>>

LiveUnmapped ==
    /\ LiveMessage /\ ~Is("service") /\ inbound[Current[1]] = "unmapped"
    /\ missed' = missed \cup {Current}
    /\ p' = [p EXCEPT !.pc = "reconcile", !.batch = Tail(@)]
    /\ UNCHANGED <<maxSide, mem, sync, db, budgets, tg, failures, backfilled, quiet, skipped>>

\* Mutant of LiveDeliver: the message link is not looked up.
LiveDeliverAgain ==
    /\ LiveMessage /\ ~Is("service")
    /\ inbound[Current[1]] = "enabled" /\ Current[2] > since[Current[1]]
    /\ p' = [p EXCEPT !.pc = "send", !.chat = Current[1], !.read = Len(hist[Current[1]])]
    /\ UNCHANGED <<maxSide, mem, sync, db, budgets, seen>>

LiveDeliver ==
    /\ LiveMessage /\ ~Is("service")
    /\ inbound[Current[1]] = "enabled" /\ Current[2] > since[Current[1]]
    /\ p' = [p EXCEPT !.pc = IF Current \in linked THEN "settle" ELSE "send",
                      !.chat = Current[1], !.read = Len(hist[Current[1]])]
    /\ UNCHANGED <<maxSide, mem, sync, db, budgets, seen>>

\* Mutant of LiveSettle: the cursor is set behind the delivered message.
LiveSettleNext ==
    /\ p.pc = "settle" /\ p.mode = "live"
    /\ dirty' = dirty \ {p.chat} /\ throttled' = throttled \ {p.chat}
    /\ cursor' = [cursor EXCEPT ![p.chat] = Current[2] + 1]
    /\ p' = NextLive
    /\ UNCHANGED <<maxSide, client, buffer, reconnected, lastActive, outbox, due, recent, r,
                   inbound, since, linked, audited, budgets, seen>>

\* The cursor is set to the delivered message, whatever it was before.
LiveSettle ==
    /\ p.pc = "settle" /\ p.mode = "live"
    /\ dirty' = dirty \ {p.chat} /\ throttled' = throttled \ {p.chat}
    /\ cursor' = [cursor EXCEPT ![p.chat] = Current[2]]
    /\ p' = NextLive
    /\ UNCHANGED <<maxSide, client, buffer, reconnected, lastActive, outbox, due, recent, r,
                   inbound, since, linked, audited, budgets, seen>>

-----------------------------------------------------------------------------
(* _deliver_message, used by the live path and by polls.                   *)

\* Telegram accepts the message, or the first part of it.  The call has not returned.
SendMessageToTelegram ==
    /\ p.pc = "send"
    /\ tg' = [tg EXCEPT ![Current] = @ + 1]
    /\ p' = [p EXCEPT !.pc = "link"]
    /\ UNCHANGED <<maxSide, mem, sync, db, budgets, failures, backfilled, missed, quiet, skipped>>

Undelivered == IF p.mode = "live" THEN NextLive
               ELSE [p EXCEPT !.pc = "batch", !.batch = Tail(@)]

\* Mutant of SendFails: nothing is written to the audit log.
SendFailsSilently ==
    /\ p.pc \in {"send", "link"} /\ Fault
    /\ failures' = [failures EXCEPT ![Current] = @ + 1]
    /\ p' = Undelivered
    /\ UNCHANGED <<maxSide, mem, sync, db, tg, backfilled, missed, quiet, skipped>>

\* The call raises: Telegram refused the message, or a later part of it, or accepted it
\* and the answer was lost.  Either way no link is saved.
SendFails ==
    /\ p.pc \in {"send", "link"} /\ Fault
    /\ failures' = [failures EXCEPT ![Current] = @ + 1]
    /\ audited' = audited \cup {Current}
    /\ p' = Undelivered
    /\ UNCHANGED <<maxSide, mem, sync, inbound, since, cursor, linked,
                   tg, backfilled, missed, quiet, skipped>>

\* Mutant of SaveMessageLink: polls save no link.
SaveMessageLinkLive ==
    /\ p.pc = "link"
    /\ linked' = IF p.mode = "live" THEN linked \cup {Current} ELSE linked
    /\ p' = [p EXCEPT !.pc = "settle"]
    /\ UNCHANGED <<maxSide, mem, sync, inbound, since, cursor, audited, budgets, seen>>

SaveMessageLink ==
    /\ p.pc = "link"
    /\ linked' = linked \cup {Current}
    /\ p' = [p EXCEPT !.pc = "settle"]
    /\ UNCHANGED <<maxSide, mem, sync, inbound, since, cursor, audited, budgets, seen>>

-----------------------------------------------------------------------------
(* poll_user: the reconnect event and the dirty chats.                     *)

LiveDone == p.pc = "live" /\ p.batch = <<>>

\* get_dirty_chats drops the marks whose time to live is over.
GetDirtyChats == dirty' \in SUBSET dirty

\* A chat polled less than the minimum interval ago is left for later.
PollDirtyChats ==
    /\ LiveDone /\ ~reconnected /\ GetDirtyChats
    /\ \E still \in SUBSET throttled : \E todo \in Orders(dirty' \ still) :
         /\ throttled' = still
         /\ p' = [p EXCEPT !.pc = "next", !.mode = "dirty", !.todo = todo]
    /\ UNCHANGED <<maxSide, client, buffer, reconnected, lastActive, outbox,
                   due, recent, r, db, budgets, seen>>

\* keep: the earlier reconnects that are still inside the storm window.
RecoverAfterReconnect ==
    /\ LiveDone /\ reconnected /\ reconnected' = FALSE /\ GetDirtyChats
    /\ \E keep \in 0..recent : keep + 1 < StormThreshold /\ recent' = keep + 1
    /\ \E todo \in Orders(dirty') :
         p' = [p EXCEPT !.pc = "next", !.mode = "recover",
                        !.todo = IF lastActive \in dirty' \cup {NoChat}
                                 THEN todo ELSE Append(todo, lastActive)]
    /\ UNCHANGED <<maxSide, client, buffer, lastActive, outbox,
                   throttled, due, r, db, budgets, seen>>

\* The registry closes the client and forgets the user's chats; poll_user raises.
ReconnectStorm ==
    /\ LiveDone /\ reconnected /\ reconnected' = FALSE
    /\ \E keep \in 0..recent : keep + 1 >= StormThreshold /\ recent' = keep + 1
    /\ client' = "none" /\ up' = FALSE /\ buffer' = <<>> /\ wire' = {}
    /\ dirty' = {} /\ lastActive' = NoChat
    /\ missed' = missed \cup wire \cup Buffered
    /\ p' = Ready
    /\ UNCHANGED <<hist, outbox, throttled, due, r, db, budgets, tg, failures, backfilled, quiet, skipped>>

\* Mutant of EndDirty: the hourly catch-up is never due.
EndDirtyOnly ==
    /\ p.pc = "next" /\ p.todo = <<>> /\ p.mode = "dirty"
    /\ p' = Ready
    /\ UNCHANGED <<maxSide, mem, sync, db, budgets, seen>>

EndDirty ==
    /\ p.pc = "next" /\ p.todo = <<>> /\ p.mode = "dirty"
    /\ p' = IF due THEN [p EXCEPT !.pc = "reconcile", !.mode = "hourly"] ELSE Ready
    /\ UNCHANGED <<maxSide, mem, sync, db, budgets, seen>>

\* One recovered message is enough to skip the broad catch-up.
EndRecover ==
    /\ p.pc = "next" /\ p.todo = <<>> /\ p.mode = "recover"
    /\ due' = (due /\ ~p.recovered)
    /\ p' = IF p.recovered THEN Ready ELSE [p EXCEPT !.pc = "topics", !.mode = "broad"]
    /\ UNCHANGED <<maxSide, mem, throttled, recent, r, db, budgets, seen>>

-----------------------------------------------------------------------------
(* _poll_chat_with_client.                                                 *)

Throttle(c) == IF p.mode = "dirty" THEN throttled \cup {c} ELSE throttled

ReadTopic ==
    /\ p.pc = "next" /\ p.todo # <<>>
    /\ LET c == p.todo[1] IN
       /\ throttled' = Throttle(c)
       /\ p' = IF inbound[c] = "enabled"
               THEN [p EXCEPT !.pc = "fetch", !.chat = c, !.since = since[c],
                              !.pos = cursor[c], !.read = Len(hist[c])]
               ELSE [p EXCEPT !.todo = Tail(@)]
    /\ UNCHANGED <<maxSide, mem, due, recent, r, db, budgets, seen>>

GetMessages ==
    /\ p.pc = "fetch" /\ up
    /\ p' = [p EXCEPT !.pc = "batch", !.latest = 0, !.any = FALSE,
                      !.batch = Fetched(p.chat, p.pos, HistoryLimit)]
    /\ UNCHANGED <<maxSide, mem, sync, db, budgets, seen>>

GetMessagesRaises ==
    /\ p.pc = "fetch"
    /\ \/ ~up /\ UNCHANGED budgets
       \/ Fault
    /\ p' = Ready
    /\ UNCHANGED <<maxSide, mem, sync, db, seen>>

BatchSkipped ==
    /\ p.pc = "batch" /\ p.batch # <<>> /\ Current[2] <= p.since
    /\ skipped' = skipped \cup {Current}
    /\ p' = [p EXCEPT !.latest = Current[2], !.batch = Tail(@)]
    /\ UNCHANGED <<maxSide, mem, sync, db, budgets, tg, failures, backfilled, missed, quiet>>

BatchDeliver ==
    /\ p.pc = "batch" /\ p.batch # <<>> /\ Current[2] > p.since
    /\ p' = [p EXCEPT !.pc = IF Current \in linked THEN "settle" ELSE "send"]
    /\ UNCHANGED <<maxSide, mem, sync, db, budgets, seen>>

BatchSettle ==
    /\ p.pc = "settle" /\ p.mode # "live"
    /\ p' = [p EXCEPT !.pc = "batch", !.latest = Current[2], !.any = TRUE, !.batch = Tail(@)]
    /\ UNCHANGED <<maxSide, mem, sync, db, budgets, seen>>

\* Mutant of FinishChat: the cursor is set to the newest message of the chat.
FinishChatAtEnd ==
    /\ p.pc = "batch" /\ p.batch = <<>>
    /\ cursor' = IF p.latest = 0 THEN cursor ELSE [cursor EXCEPT ![p.chat] = Len(hist[p.chat])]
    /\ LET clear == IF p.mode = "dirty" /\ p.any THEN {p.chat} ELSE {} IN
       dirty' = dirty \ clear /\ throttled' = throttled \ clear
    /\ p' = [Ready EXCEPT !.pc = "next", !.mode = p.mode, !.todo = Tail(p.todo),
                          !.recovered = p.recovered \/ p.any]
    /\ UNCHANGED <<maxSide, client, buffer, reconnected, lastActive, outbox, due, recent, r,
                   inbound, since, linked, audited, budgets, seen>>

\* One cursor write for the batch; only the dirty loop clears the dirty mark.
FinishChat ==
    /\ p.pc = "batch" /\ p.batch = <<>>
    /\ cursor' = IF p.latest = 0 THEN cursor ELSE [cursor EXCEPT ![p.chat] = p.latest]
    /\ LET clear == IF p.mode = "dirty" /\ p.any THEN {p.chat} ELSE {} IN
       dirty' = dirty \ clear /\ throttled' = throttled \ clear
    /\ p' = [Ready EXCEPT !.pc = "next", !.mode = p.mode, !.todo = Tail(p.todo),
                          !.recovered = p.recovered \/ p.any]
    /\ UNCHANGED <<maxSide, client, buffer, reconnected, lastActive, outbox, due, recent, r,
                   inbound, since, linked, audited, budgets, seen>>

-----------------------------------------------------------------------------
(* _catch_up_user, and the topic creation of reconcile it starts.          *)

FindTopics ==
    /\ p.pc = "topics"
    /\ \E todo \in Orders({c \in Chats : inbound[c] = "enabled"}) :
         p' = [p EXCEPT !.pc = "next", !.todo = todo]
    /\ UNCHANGED <<maxSide, mem, sync, db, budgets, seen>>

EndCatchUp ==
    /\ p.pc = "next" /\ p.todo = <<>> /\ p.mode \in {"broad", "hourly"}
    /\ due' = FALSE /\ p' = Ready
    /\ UNCHANGED <<maxSide, mem, throttled, recent, r, db, budgets, seen>>

ReconcileUser ==
    /\ p.pc = "reconcile"
    /\ \E todo \in Orders(Unmapped) : p' = [p EXCEPT !.pc = "create", !.todo = todo]
    /\ UNCHANGED <<maxSide, mem, sync, db, budgets, seen>>

\* A failed start or chat list ends poll_user with what was still in hand.
ReconcileRaises ==
    /\ p.pc = "reconcile" /\ Fault
    /\ missed' = missed \cup InHand
    /\ p' = Ready
    /\ UNCHANGED <<maxSide, mem, sync, db, tg, failures, backfilled, quiet, skipped>>

CreateTopic ==
    /\ p.pc = "create" /\ p.todo # <<>>
    /\ inbound' = [inbound EXCEPT ![p.todo[1]] = "enabled"]
    /\ p' = [p EXCEPT !.pc = "backfill", !.chat = p.todo[1], !.todo = Tail(@)]
    /\ UNCHANGED <<maxSide, mem, sync, since, cursor, linked, audited, budgets, seen>>

NextTopic == [p EXCEPT !.pc = "create", !.chat = NoChat]

\* Creation or a fetch fails: the chat is left as it is and the next one is tried.
TopicFails ==
    /\ Fault
    /\ \/ p.pc = "create" /\ p.todo # <<>> /\ p' = [p EXCEPT !.todo = Tail(@)]
       \/ p.pc \in {"backfill", "backcursor"} /\ p' = NextTopic
    /\ UNCHANGED <<maxSide, mem, sync, db, seen>>

\* The newest messages of c are sent into its topic, whatever the window says, and no
\* link is saved.  A send that raised is audited, shown or not.
BackfillSends(c, ok) ==
    LET sent == {<<c, i>> : i \in Newest(c, BackfillCount)} IN
    \E failed \in SUBSET sent :
        /\ ok = (failed = {})
        /\ faults + Cardinality(failed) <= MaxFaults /\ Room(Cardinality(failed))
        /\ faults' = faults + Cardinality(failed)
        /\ backfilled' = backfilled \cup (sent \ failed)
        /\ audited' = audited \cup failed

Older(c) == {<<c, i>> : i \in DOMAIN hist[c] \ Newest(c, BackfillCount)}

Backfill ==
    /\ p.pc = "backfill"
    /\ \E ok \in BOOLEAN : /\ BackfillSends(p.chat, ok)
                           /\ p' = IF ok THEN [p EXCEPT !.pc = "backcursor"] ELSE NextTopic
    /\ skipped' = skipped \cup Older(p.chat)
    /\ UNCHANGED <<maxSide, mem, sync, inbound, since, cursor, linked,
                   crashes, commands, tg, failures, missed, quiet>>

\* The cursor comes from a second fetch.
NewestCursor(c) == IF hist[c] = <<>> THEN cursor ELSE [cursor EXCEPT ![c] = Len(hist[c])]

BackfillCursor ==
    /\ p.pc = "backcursor"
    /\ cursor' = NewestCursor(p.chat)
    /\ p' = NextTopic
    /\ UNCHANGED <<maxSide, mem, sync, inbound, since, linked, audited, budgets, seen>>

EndReconcile ==
    /\ p.pc = "create" /\ p.todo = <<>>
    /\ p' = [p EXCEPT !.pc = IF p.mode = "live" THEN "live" ELSE "topics"]
    /\ UNCHANGED <<maxSide, mem, sync, db, budgets, seen>>

-----------------------------------------------------------------------------
(* /resync: a new topic for a chat that has one.  The user's task runs      *)
(* beside the poller; a run over all chats is one of these for each chat.   *)

\* The topic is read before the chat's creation, with awaits of other calls between.
ResyncBegin(c) ==
    /\ r.pc = "none" /\ inbound[c] # "unmapped" /\ Command
    /\ r' = [pc |-> "create", chat |-> c, on |-> inbound[c] = "enabled", since |-> since[c]]
    /\ UNCHANGED <<maxSide, mem, p, throttled, due, recent, db, seen>>

\* The new topic is saved with the flag and the window read before.  A /mute given since
\* then is undone, and the texts written under it are no longer quiet.
ResyncCreate ==
    /\ r.pc = "create"
    /\ inbound' = [inbound EXCEPT ![r.chat] = IF r.on THEN "enabled" ELSE "muted"]
    /\ since' = [since EXCEPT ![r.chat] = r.since]
    /\ quiet' = {m \in quiet : r.on /\ m[1] = r.chat => m[2] <= r.since}
    /\ r' = IF r.on THEN [r EXCEPT !.pc = "backfill"] ELSE NoResync
    /\ UNCHANGED <<maxSide, mem, p, throttled, due, recent, cursor, linked, audited,
                   budgets, tg, failures, backfilled, missed, skipped>>

ResyncBackfill ==
    /\ r.pc = "backfill"
    /\ \E ok \in BOOLEAN : /\ BackfillSends(r.chat, ok)
                           /\ r' = IF ok THEN [r EXCEPT !.pc = "backcursor"] ELSE NoResync
    /\ UNCHANGED <<maxSide, mem, p, throttled, due, recent, inbound, since, cursor, linked,
                   crashes, commands, tg, failures, missed, quiet, skipped>>

ResyncCursor ==
    /\ r.pc = "backcursor"
    /\ cursor' = NewestCursor(r.chat)
    /\ r' = NoResync
    /\ UNCHANGED <<maxSide, mem, p, throttled, due, recent, inbound, since, linked, audited,
                   budgets, seen>>

\* A start, a list, a creation or a fetch fails, and the run leaves the chat as it is.
ResyncFails ==
    /\ r.pc # "none" /\ Fault
    /\ r' = NoResync
    /\ UNCHANGED <<maxSide, mem, p, throttled, due, recent, db, seen>>

-----------------------------------------------------------------------------
Environment ==
    \/ \E c \in Chats : \/ \E k \in PostKinds : Post(c, k)
                        \/ OutboundSend(c) \/ MarkChatDirty(c)
                        \/ Mute(c) \/ Unmute(c)
    \/ SocketDrop \/ Crash

Deliver == SendMessageToTelegram \/ SendFails \/ SaveMessageLink

PollUser ==
    \/ PollBegin \/ DrainBufferedMessages
    \/ LiveSkipped \/ LiveUnmapped \/ LiveDeliver \/ LiveSettle
    \/ Deliver
    \/ PollDirtyChats \/ RecoverAfterReconnect \/ ReconnectStorm \/ EndDirty \/ EndRecover
    \/ ReadTopic \/ GetMessages \/ GetMessagesRaises
    \/ BatchSkipped \/ BatchDeliver \/ BatchSettle \/ FinishChat
    \/ FindTopics \/ EndCatchUp
    \/ ReconcileUser \/ ReconcileRaises \/ CreateTopic \/ TopicFails
    \/ Backfill \/ BackfillCursor \/ EndReconcile

Callbacks == OnStartAgain \/ \E m \in wire : BufferMessage(m)

Resync ==
    \/ \E c \in Chats : ResyncBegin(c)
    \/ ResyncCreate \/ ResyncBackfill \/ ResyncCursor \/ ResyncFails

Next == Environment \/ Callbacks \/ HourPasses \/ PollUser \/ Resync

Spec == Init /\ [][Next]_vars

\* The poller task is rescheduled every second, pymax keeps reconnecting, and
\* time passes, polls or no polls (the model lets an hour end between two polls
\* only, hence SF); nothing is assumed of users, failures or crashes.
Fairness ==
    /\ WF_vars(PollUser) /\ WF_vars(OnStartAgain) /\ SF_vars(HourPasses)

FairSpec == Spec /\ Fairness

-----------------------------------------------------------------------------
(* Properties.                                                             *)

MaxOK ==
    /\ hist \in [Chats -> Seq(Kinds)] /\ \A c \in Chats : Len(hist[c]) <= MaxMessages
    /\ up \in BOOLEAN /\ wire \subseteq Msgs
MemOK ==
    /\ client \in {"none", "live"} /\ buffer \in Seq(Msgs) /\ reconnected \in BOOLEAN
    /\ dirty \subseteq Chats /\ lastActive \in Chats \cup {NoChat} /\ outbox \subseteq Chats
PollerType ==
    [pc : Pcs, mode : Modes, todo : Seq(Chats), chat : Chats \cup {NoChat},
     batch : Seq(Msgs), since : Nat, pos : Nat, read : Nat, latest : 0..MaxMessages,
     any : BOOLEAN, recovered : BOOLEAN]
PollerOK == p \in PollerType
ResyncType ==
    [pc : {"none", "create", "backfill", "backcursor"}, chat : Chats \cup {NoChat},
     on : BOOLEAN, since : Nat]
SyncOK == throttled \subseteq Chats /\ due \in BOOLEAN /\ recent \in Nat /\ r \in ResyncType
DbOK ==
    /\ inbound \in [Chats -> {"unmapped", "enabled", "muted"}]
    /\ since \in [Chats -> Nat] /\ cursor \in [Chats -> 0..MaxMessages]
    /\ linked \subseteq Msgs /\ audited \subseteq Msgs
BudgetOK == faults \in Nat /\ crashes \in Nat /\ commands \in Nat
SeenOK ==
    /\ tg \in [Msgs -> Nat] /\ failures \in [Msgs -> Nat]
    /\ backfilled \subseteq Msgs /\ missed \subseteq Msgs /\ quiet \subseteq Msgs /\ skipped \subseteq Msgs

\* Every variable keeps its type; a cursor is empty or holds a message position.
TypeOK == MaxOK /\ MemOK /\ PollerOK /\ SyncOK /\ DbOK /\ BudgetOK /\ SeenOK

\* The sends and their links are what Delivery promises: nothing recorded is sent again,
\* and what is sent twice lost its record to a crash or to a call that raised
\* (_deliver_message).
Promise == INSTANCE Delivery WITH
    Messages <- Msgs, done <- linked, flight <- IF p.pc = "link" THEN {Current} ELSE {},
    count <- tg, fails <- failures
DeliversAsPromised == Promise!Spec

\* The live path and the polls send a message to Telegram a second time only because a
\* crash fell between a send and its link, or because an earlier delivery of that message
\* raised and was audited (_deliver_message, INBOUND-02).  Each crash and each audited
\* failure accounts for one such send.
RedeliveryIsPaid == Promise!EveryRepeatIsPaid

Text(m)      == m[2] \in DOMAIN hist[m[1]] /\ hist[m[1]][m[2]] = "text"
InFlight(m)  == m \in wire \cup Buffered \cup InHand
Accounted(m) == m \in linked \cup audited \cup skipped \cup backfilled \/ InFlight(m)

\* Every text is delivered, audited as failed, skipped on purpose, backfilled or
\* still in hand, unless its live copy was lost: pushed to nobody, dropped with the
\* socket, or thrown away with the client, the batch or the process (poll_user).
EveryTextHasAFate == \A m \in Msgs : Text(m) => Accounted(m) \/ m \in missed

\* What golden principle 6 asks: no text is passed without a delivery or a notice.
NoSilentLoss == \A m \in Msgs : Text(m) /\ m[2] <= cursor[m[1]] => Accounted(m)

\* A text written while its topic was muted reaches the topic over a poll only when that
\* poll had read the topic before the text was written, and never over the live path
\* (_process_live_message, _poll_chat_with_client, /unmute).  Two ways around it are not
\* claimed: a /resync shows such texts itself, in its backfill, and one that had read the
\* topic before the /mute undoes the mute (ResyncCreate).
MuteIsLateAtMostByOneRead ==
    p.pc \in {"send", "link"} /\ Current \in quiet => Current[2] > p.read

\* The message at i was dealt with, or lies deeper in the chat than a fetch reaches.
Dealt(c, i) == <<c, i>> \in linked \cup audited \cup skipped \/ i + HistoryLimit <= Len(hist[c])

\* When a poll writes the cursor, what the cursor passes was delivered, audited or
\* skipped on purpose, or lies deeper than the fetch reaches (_poll_chat_with_client).
PollsPassOnlyTheGap ==
    [][p.pc = "batch" /\ p' # p =>
         \A c \in Chats : \A i \in (cursor[c] + 1)..cursor'[c] : Dealt(c, i)]_vars

\* Every text is in the end delivered, audited, skipped or passed by the cursor,
\* unless its topic is muted: the hourly catch-up reaches what the socket lost.
EventuallySettled ==
    \A m \in Msgs :
        Text(m) ~> (m \in linked \cup audited \cup skipped \cup backfilled
                    \/ m[2] <= cursor[m[1]] \/ inbound[m[1]] = "muted")

-----------------------------------------------------------------------------
(* The inductive strengthening of the proofs (InboundSyncProofs).          *)

\* What each program point of the poller has in hand.
ControlOK ==
    /\ p.pc \in {"send", "link", "settle"} => p.batch # <<>>
    /\ p.pc \in {"fetch", "batch", "send", "link", "settle", "backfill", "backcursor"}
         => p.chat \in Chats
    /\ p.pc \in {"fetch", "batch", "send", "link", "settle"} /\ p.mode # "live" => p.todo # <<>>
    /\ p.pc \in {"idle", "drain", "live"} => p.mode = "live"
    /\ p.pc \in {"next", "fetch", "batch", "topics"} => p.mode # "live"

\* What is being sent has no link yet.
LinkOK == p.pc \in {"send", "link"} => Current \notin linked

\* A text written under a mute lies below the window of an enabled topic, and
\* below the window a poll read if it was there when the poll read it.
Polling == p.mode # "live" /\ p.pc \in {"fetch", "batch", "send", "link", "settle"}
QuietTopics ==
    \A m \in quiet : /\ m[2] <= Len(hist[m[1]]) /\ inbound[m[1]] # "unmapped"
                     /\ inbound[m[1]] = "enabled" => m[2] <= since[m[1]]
QuietPolls ==
    Polling => /\ p.read <= Len(hist[p.chat])
               /\ \A m \in quiet : m[1] = p.chat /\ m[2] <= p.read => m[2] <= p.since
               /\ p.pc # "fetch" => \A i \in DOMAIN p.batch : p.batch[i][1] = p.chat
QuietSends ==
    p.pc \in {"send", "link"} =>
        p.read <= Len(hist[Current[1]]) /\ (Current \in quiet => Current[2] > p.read)
QuietOK == QuietTopics /\ QuietPolls /\ QuietSends

\* The chats reconcile has still to create topics for have none, and none is there twice;
\* a /resync is of a chat that has one.  No other task creates missing topics here.
Creating == p.pc \in {"create", "backfill", "backcursor"}
CreateOK ==
    /\ Creating => /\ \A i \in DOMAIN p.todo : inbound[p.todo[i]] = "unmapped"
                   /\ \A i, j \in DOMAIN p.todo : i # j => p.todo[i] # p.todo[j]
    /\ r.pc # "none" => r.chat \in Chats /\ inbound[r.chat] # "unmapped"

\* Nothing is in hand between polls; a message that is settled has its link.
HandOK ==
    /\ p.pc \in {"idle", "drain"} => p.batch = <<>>
    /\ p.pc = "settle" => Current \in linked

\* What is on its way, and what a poll or a cursor has reached, has been written.
InBatch == p.mode # "live" /\ p.pc \in {"batch", "send", "link", "settle"}
Written(m) == m[2] <= Len(hist[m[1]])
WrittenOK ==
    /\ \A m \in wire \cup Buffered \cup {p.batch[i] : i \in DOMAIN p.batch} : Written(m)
    /\ \A c \in Chats : Written(<<c, cursor[c]>>)
    /\ InBatch => Written(<<p.chat, p.latest>>)
    /\ p.pc \in {"send", "link", "settle"} => Current[1] = p.chat

\* A poll has dealt with all it has passed, and has what it will pass next in its batch;
\* the cursor it started from can only have moved up since (/resync).
ReachOK ==
    /\ Polling => p.pos <= cursor[p.chat]
    /\ InBatch => /\ \A i \in (p.pos + 1)..p.latest : Dealt(p.chat, i)
                  /\ \A k \in DOMAIN p.batch : \A i \in (p.pos + 1)..(p.batch[k][2] - 1) :
                        Dealt(p.chat, i) \/ \E j \in 1..(k - 1) : p.batch[j] = <<p.chat, i>>

\* What is still on its way, and what has been settled for good.
Carried == wire \cup Buffered \cup InHand
Settled == linked \cup audited \cup skipped \cup missed \cup backfilled

IInv ==
    /\ TypeOK /\ ControlOK /\ LinkOK /\ CreateOK /\ QuietOK /\ HandOK
    /\ EveryTextHasAFate /\ WrittenOK /\ ReachOK
=============================================================================
