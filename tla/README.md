# MaxLinkBot, verified

TLA+ models of MaxLinkBot, the bridge between MAX chats and Telegram topics, with
the TLC runs that check them on small instances and TLAPS proofs for every value
of the constants. Source paths are relative to the repository (`src/...` is its
Python package).

## The system

One asyncio process bridges several allow-listed Telegram users to their MAX
accounts. Per user it keeps a *binding* (a MAX session), a Telegram topic per MAX
chat, a cursor per chat (the last MAX message it dealt with) and a link per
delivered message, all in SQLite.

| Component | State | Operations | Where |
| --- | --- | --- | --- |
| InboundSyncService | the catch-up clock, recent reconnects, per-chat poll times | `poll_user`, `poll_chat`, `close` | `application/routing/inbound.py` |
| MaxClientRuntimeRegistry | cached clients, dirty chats, last active chat, one lock | `get_client`, `close_user`, `close_all`, `mark_chat_dirty`, `get_dirty_chats` | `application/polling/max_runtime.py` |
| PymaxAdapter | socket, live buffer, reconnect flag, QR state | `start`, `start_for_qr`, `drain_buffered_messages`, `get_messages`, `list_personal_chats`, `get_chat_state`, sends | `infrastructure/max/adapter.py` |
| RefreshReconcileService | none between calls | `reconcile` | `application/reconcile/service.py` |
| TopicMuteService | none | `mute`, `unmute` | `application/topics/mute.py` |
| OutboundSyncService | none | `deliver`, `deliver_photo`, `deliver_file` | `application/routing/outbound.py` |
| AuthorizationFlowService, AllowlistGate | none (bindings in SQLite) | `begin_qr_auth`, `complete_qr_auth`, `mark_reauth_required` | `application/auth/authorization.py` |
| HealthCheckService, BackgroundPoller, RuntimeHealthTracker | last health checks, inbound services, marker and heartbeat files | `check_and_notify`, the poll loop, `stop` | `application/health/service.py` |
| Telegram handlers | none | `/start`, `/resync`, `/mute`, `/unmute`, messages | `interface/telegram_handlers/handlers.py` |
| SQLite repositories | users, bindings, chats, topics, links, cursors, audit | one statement per call | `infrastructure/persistence/` |
| AiogramTelegramAdapter, media routing | none | sends, albums, captions, topics | `infrastructure/telegram/adapter.py`, `application/routing/media.py` |

How they interact:

- The **poller task** runs `poll_user` for each active binding every second, one
  user after the other. A poll drains the live buffer, recovers after a
  reconnect, polls the dirty chats and, once an hour, reconciles and catches up.
- **pymax callbacks** fill the live buffer and set the reconnect flag while the
  poller awaits something else.
- **Telegram handlers** run as tasks of their own: an outbound message marks its
  chat dirty, `/mute` and `/unmute` write the topic row, `/start` and `/resync`
  run a reconcile. They share SQLite and the registry with the poller; nothing
  but the registry's lock excludes one from another.

What is hard here: state read before an await and used after it (topics, mute
flags, bindings), a cursor written from several paths, at-least-once sends with a
crash between the send and its link, missed pushes, several reconciles at once,
a message that fails inside a batch, a lock held over a call without a timeout, a
shutdown beside tasks that still run, a call that raises after it was obeyed, an
album refused half-way, rows of several users under keys that do not name the user.
`PROJECT.json` lists these hazards line by line with the properties that watch
them.

What makes each component correct:

- *Inbound*: a text is delivered, or its failure is audited, or it was skipped on
  purpose; what is sent twice had a crash or a failed call in between; a muted topic
  stays silent; whatever the socket loses, the catch-up settles.
- *Reconcile*: no series of topics for one chat, mutes and windows survive
  re-creation, only departed channels are muted automatically.
- *Session and health*: a lost session ends in `reauth_required` and at most one
  notice a day; a binding is marked only after its session was looked for in vain. (A
  session MAX *refuses* should end there too and does not: finding 3.)
- *Registry and process*: the registry holds exactly the clients it runs, and none is
  leaked; a user nobody visits shows in the container's health; a shutdown ends.
- *Tables*: whatever two users write to the same rows, nobody is served a chat he
  is not in.
- *Rendering and sends*: a delivered message shows its attachments and its text,
  once, in order, through chunks, retries and fallbacks.

## Modules

| Module | Part of the system | Extended or instantiated by |
| --- | --- | --- |
| `Delivery` | abstract: what inbound promises about sends | `InboundSync`, `SharedTables`, `DeliveryProofs` |
| `Sessions` | abstract: what the registry promises about clients | `Runtime` |
| `InboundSync` | one user's inbound path | `MCInboundSync`, `InboundSyncProofs` |
| `SharedTables` | several users over one database | `SharedTablesProofs` |
| `MediaDelivery` | one message on its way into a topic | `MCMediaDelivery`, `MediaDeliveryProofs` |
| `Reconcile` | the topic table under concurrent reconciles | `ReconcileProofs` |
| `SessionHealth` | one user's session, health check and re-authorisation | `SessionHealthProofs` |
| `Runtime` | registry, poll loop, health report, outbound, shutdown | `RuntimeProofs`, and through it `RuntimeStepProofs` |

Each `...Proofs` module holds the theorems of the module it extends; they are
described under Proofs.

### Delivery

The abstract specification of the inbound service: one delivery is under way at a
time (`flight`), a message whose delivery was recorded (`done`) is never sent
again, and the record of a send is lost only with a crash or with a delivery that
raised (`Fail`, counted per message in `fails`). Such a delivery may have shown
something all the same: Telegram accepted the message and the answer was lost, or it
accepted the first parts and refused a later one. `count` says how often Telegram was
given a message, in whole or in part. `InboundSync` and `SharedTables` instantiate
`Delivery` (`Promise == INSTANCE Delivery WITH ...`) with the link table for `done`
and the message between `send` and `save` for `flight`; `DeliversAsPromised` is
checked as a property of both and proved of both. It says more than a bound on the
number of sends: a link found by any path forbids the send.

`EveryRepeatIsPaid` is what follows for a reader of the topics. The second and every
further send of a message, and a send whose record is lost, are *owed* (`Owed`), and
there is a map from what is owed into the crashes and into the failed deliveries of
the same message that uses none of them twice: over all messages together n crashes
cost n sends, and a failure costs one, of its own message. InboundSync states it of
itself as `RedeliveryIsPaid`.

### Sessions

The abstract specification of the registry: a client is `starting`, it is the open
`session` of its user, or it is `closing`. One client starts at a time in the
process, for a user without a session, and a client leaves the registry before
anybody closes it. The lock, its queue and who holds it, the handlers, the poller
and `main()` do not appear; `Runtime` shows that they keep this
(`KeepsSessions`, with `cached` for `session`).

### InboundSync

One user, any set of chats. A chat is the sequence of kinds of its messages
(`hist`), a message a pair of chat and position, and positions stand for time:
"older than `inbound_since_ms`" is "at or below the length the chat had at the
unmute", and message ids order as their numbers do. The variables follow the code:

| Variables | Code |
| --- | --- |
| `hist`, `up`, `wire` | MAX: messages, the socket, pushes whose callbacks still run |
| `client`, `buffer`, `reconnected` | `PymaxAdapter`: cached client, live buffer, reconnect event |
| `dirty`, `lastActive`, `outbox` | the registry's marks; sends whose mark is still to come |
| `p` | the poller's place in `poll_user` and its locals (batch, cursor and window read, latest id) |
| `throttled`, `due`, `recent` | dirty-poll interval, catch-up clock, reconnects in the storm window |
| `r` | the task of a `/resync`: its place, its chat, the flag and the window it read |
| `inbound`, `since`, `cursor`, `linked`, `audited` | the topic, cursor, link and audit tables |
| `tg`, `failures`, `backfilled`, `missed`, `quiet`, `skipped` | observed only: sends and failed deliveries of each message, backfilled texts, live copies lost, texts written under a mute, texts passed over on purpose |

There is one action per stretch of code between two awaits another task can
separate: `PollBegin` and `DrainBufferedMessages` (the start of a poll), the four
`Live*` actions (`_process_live_message`), `SendMessageToTelegram`, `SendFails`
and `SaveMessageLink` (`_deliver_message`), `PollDirtyChats`,
`RecoverAfterReconnect`, `ReconnectStorm` (the middle of `poll_user`),
`ReadTopic` ... `FinishChat` (`_poll_chat_with_client`), `FindTopics`,
`EndCatchUp` (`_catch_up_user`), `ReconcileUser` ... `EndReconcile` (the reconcile
a poll starts), and beside the poller `BufferMessage`, `OnStartAgain`,
`SocketDrop`, `OutboundSend`, `MarkChatDirty`, `Mute`, `Unmute`, `HourPasses`,
`Crash`, and `ResyncBegin` ... `ResyncFails`: a `/resync` that replaces the topic of a
chat with the flag and the window it read before, and backfills again.

`SendFails` is the `except` of `_deliver_message`. It may follow
`SendMessageToTelegram`: then Telegram has the message, or its first part, and no
link is saved. What parts a failed delivery shows is MediaDelivery's question.

Simplifications: `fetch_history` returns the newest *n* messages, oldest first;
the user's own messages are not pushed back to the bridge's socket; a topic's creation and
its row are one step here (Reconcile separates them), as are the sends of one
backfill, and the clearing of a dirty mark and the cursor write behind it; a
`/resync` of all chats is one of each chat, one chat at a time; `/start` creates
topics that are missing, which Reconcile has; the binding stays active.

### Reconcile

One user, any set of chats, any number of `/start` and `/resync` handlers beside
the poller. `task[t]` is a running `_reconcile`: its program point, whether it
forces, its target, the chats still to do (`todo`) or to look up (`checks`), the
chat and topic id in hand, and `snap`, the topic rows it read. `row` is the table
`telegram_topics`, `topics` what Telegram has created (with its creator, the
life of the process it was created in, and whether the answer came back), `member` the chats the user is in.
`wish` is what the user's commands last asked for, `raced` the chats whose last
command met a reconcile that had already read the topic, `autoMuted` those
muted for a departed channel, `left` the chats ever left.

The actions are the awaits of `_reconcile`, `_mute_departed_channels` and
`_create_topic_with_backfill`, with their failures; `Command` is
`set_inbound_enabled`. External calls return what the code may rely on: the chat
list is any subset of the user's chats, `get_chat_state` is truthful or fails,
Telegram's topic ids are fresh. A creation that raises (`CreateFails`) leaves
no topic or one nobody knows of. Messages, backfills and cursors belong to
InboundSync. SQLite calls do not fail in either module.

### SessionHealth

One user and the session in `session.db`, a number `stored` that grows with each
QR scan, with `state` saying what a client meets that starts with it: `accepted`,
`refused` (MAX answers LOGIN with an error) or `lost` (the file is gone, has no token,
or cannot be read). `binding` is `user_bindings.status`, `recent` whether
`audit_events` holds a `BINDING_REAUTH_REQUIRED` of the last 24 hours, `client` the
session the registry's cached client was started with (0 without one), `owner`
whether the inbound service has used it and so closes it. `poller` walks through
`_poll_user` and `check_and_notify` (`PollOnce`, `CheckBinding`, `Cooldown`,
`StartCheck`, `CheckMarks`, `CheckLogs`, `CheckNotifies`, `ReadBinding`, `PollUser`
and their failures); `handler[t]` through `/start` and `/resync` (`StartCommand`,
`BeginQrAuth`, `Scan`, `CompleteQrAuth`, `Reconcile`, `MarkReauthRequired`,
`LogReauthRequired`). `saw` remembers the session a task looked for in vain, `blind`
that the file was only unreadable for a moment (`CheckUnreadable`,
`ReconcileUnreadable`); `notices` counts what the health check sent in the last day.
`OutboundSend` shares the cached client.

Only a lost session leads to a mark. When MAX refuses one, the client's pymax task has
ended with that error, and `close()`, called in the `finally` of the check
(`health/service.py:107`) and of reconcile (`reconcile/service.py:188`), raises it
again (`adapter.py:692`): the check ends before its mark and the handlers see an error
they only report. The same `close()`, of the cached client of a user who is no longer
active, ends the poll loop (`CloseEndsLoop`, the poller is then "dead").

Simplifications: the log and the notice are a day old at the same time, and no
day passes between the two; the poll itself and the reconcile are one step each,
the former only for its use of the client.

### SharedTables

Any number of bridged users and chats over one SQLite file. A topic row is keyed by
user and chat, a chat row and a cursor row by the chat alone (`chatRow[c]` and
`cursor[c].owner` are the last writer), a link by the message alone. `members` says
who is in a chat and is fixed. `p` is the poller with its locals, `rec[r]` a
reconcile: one a user for his `/start` and `/resync` (the latter forced, of one chat or
of all), and `rec[Nobody]` the one the poller waits for. `Post` pushes a text to any
of the members' buffers; `PollChat`, `GetMessages`, `AlreadyLinked`,
`SendMessageToTelegram`, `SendFails`, `SaveMessageLink` and `UpsertCursor` are a poll
of one chat; `SaveChat`, `FindTopics`, `CreateTopic`, `Backfill`, `BackfillCursor`,
`EndReconcile` a reconcile. The key of a topic row is the topic id alone
(`schema.py:29`) and Telegram numbers the topics of each user's chat with the bot, so
`CreateTopic` may replace the row of another user (`Replaced`). `got`, `sends`,
`failures` and `passed` are observed: the texts a user was shown, how often the poller
gave each to Telegram, how often that raised, and those passed over as delivered for a
user.

Left out, because InboundSync and Reconcile have them: mutes and windows, dirty
chats, reconnects, fetches and topic creations that fail. The
poll order of the users is any order. A topic's title is the owner of the chat row
it was taken from: the title of a dialogue is the name of the other side, so it is
right only for the user who saved it.

### MediaDelivery

One MAX message with any attachments and a text of some length, sent live
(`path = "inbound"`) or by a backfill, whose code is a second copy with retries
and a different rendering. `urls` are the attachments a URL was found for;
`job` the message or the item in hand; `apart` whether an album was refused and
goes item by item; `todo` the items still to be sent; `at` the last character
sent; `shown` the topic. A text is its length, and a piece of it an interval of
characters, so losing, repeating or swapping text is visible.

`ResolveMediaUrls` is the MAX adapter, `SendMessageToTelegram` and
`SendBackfillMessage` choose the branch, `BuildInputMedia` ... `EndMediaGroup` are
an album in chunks, `SendMedia`, `MediaRefused` and `SendLink` a single item and its
fallback, `SendContinuation` and `EndSend` the rest of a long caption, `SendPlain`
and `PlainTooLong` a text, `RetryTopicSend`, `TopicNotFound` the retries of a
backfill, `NextItem` the items of a refused album, `SendFails` any other error.

A photo is fetched by Telegram and may be refused at the send; audio, video and
documents are downloaded first and fail before it. The formats (prefix, file
names, MIME headers, size probes) are left out.

### Runtime

The process around the users. `lock` is the queue of the registry's
`asyncio.Lock` (first come, first served), `cached` and `state` the clients it holds
and what each client object does, `task[t]` the place of the poller, of `main()`
and of each message handler, `service` the poller's inbound services, `marker` and
`stale` the two files `scripts/healthcheck.sh` looks at, `left` and `size` the
iteration of `stop()`, `ending` that of `close_all()`. `failed` is observed: active
users whose last poll failed, until the shutdown begins.

| Actions | Code |
| --- | --- |
| `GetCachedClient`, `GetClient`, `StartReady`, `StartRaises` | `get_client` and `PymaxAdapter.start`, under the lock |
| `CloseUser`, `CloseClient` | `close_user`: out of the registry under the lock, closed outside it |
| `PollOnce`, `PollUser`, `ServeUser`, `DropUser`, `PollMessages`, `PollChats`, `EndCycle` | `BackgroundPoller` and `RuntimeHealthTracker` |
| `Deliver`, `SendMessage`, `SendRaises`, `MarkChatDirty` | `handle_message` and `deliver`, `deliver_photo`, `deliver_file`, which differ only in the call to MAX |
| `Stop`, `StopService`, `StopRaises`, `StopEnds`, `CloseAll`, `CloseNext`, `MainEnds` | `main()` after `dp.start_polling` |
| `BindingChanges`, `HeartbeatAges` | handlers that change a binding, and time |

No call to MAX has a timeout, so a start, a poll, a send or a health check may hang
for ever; only `close()` is bounded (5 s). `close()` of a client whose pymax task
has ended with an error raises it (`adapter.py:692`): in the visit of an inactive
user this ends the poll loop ("dead"), and in `stop()` it ends `main()` ("raised").

Simplifications: the session data is always `"qr_auth"`, so `get_client` never
replaces a cached client; the clients of a health check, a reconcile and a QR
authorisation are not the registry's and appear only as a possible hang; of a poll's
short turns at the lock (`get_dirty_chats`, `clear_dirty_chat`,
`get_last_active_chat`) one stands for all; the heartbeat ages only where the code
can go without a good cycle for its 180 s (a visit, a dead loop, a cycle that failed);
no handler starts once polling has ended.

### Composition

The modules split the shared state by question. InboundSync asks what happens to
one user's messages and lets one poller create topics; Reconcile asks what happens
to the topic table when several tasks write it and forgets messages; SharedTables
composes the two, reduced to what several users can do to each other's rows. All
three assume an active binding, and SessionHealth asks when it is one. Runtime
composes poller, registry, outbound and shutdown for several users and treats a
poll as something that succeeds, fails, hangs or closes its client.

They meet in the poller's loop: a visit of Runtime (`ServeUser`) is a `PollUser` of
SessionHealth and a `PollBegin` of InboundSync, whose `ReconcileUser` is a `Begin` of
Reconcile, and whose `SendMessageToTelegram` is a behaviour of MediaDelivery that
ends in `linked` or, as `SendFails`, in `failed`, with nothing, a part or all of the
message shown. What SharedTables and InboundSync
have in common is stated once, as `Delivery`, and both implement it.

## Runs

| Run | Instance | Shows |
| --- | --- | --- |
| `inbound_one_chat` | 1 chat, 2 texts, history and backfill of 1, storm at 1 reconnect; any 2 of 1 fault, 1 crash and 2 commands | the safety properties below, and `Delivery` |
| `inbound_recovery` | 2 mapped chats, 1 message each of either kind, 1 fault, 1 outbound message | `EventuallySettled` |
| `inbound_silent_loss` | 1 chat, 2 texts, 1 fault | violation of `NoSilentLoss` |
| `reconcile_tasks` | 1 channel, poller and 1 handler, 2 topics, 1 command, 1 crash | the safety properties of the table |
| `reconcile_mute_lost` | 1 chat, poller and 1 handler | violation of `MuteSurvivesResync` |
| `session_one_user` | poller, 2 handlers, 2 scans, 1 fault, 1 crash | the properties of the session |
| `session_expiry` | poller, 1 handler, 1 scan, no faults | violation of `ExpiryIsNoticed` |
| `shared_tables` | 2 users, 1 chat that one or both are in, 1 text, 1 `/start` or `/resync`, 1 fault, 1 crash | the shared rows, and `Delivery` |
| `shared_isolation` | the same with 2 texts | violation of `Isolated` |
| `media_one_message` | up to 3 attachments of 6 shapes, texts of 4 lengths, albums of 2, captions of 4, texts of 6 characters, 1 retry, 2 faults | what a topic shows |
| `media_text_lost` | the same with photos and videos | violation of `TextSurvivesFallback` |
| `runtime` | 2 users, 1 handler, 3 clients a user, 1 fault | registry, health report, shutdown |

Inbound:

- `RedeliveryIsPaid`: every repeated send of the live path and the polls, of whatever
  message, and every send without a record has a crash of its own, or a failed and
  audited delivery of that message. What could break it: a link looked up but not
  saved, two paths delivering the same message, a cursor moved backwards by live
  messages that were buffered out of order. A failure pays because Telegram may have
  accepted the message, or its first part, before the call raised.
- `EveryTextHasAFate`: a text nobody accounts for (not linked, not audited, not
  skipped, not backfilled, not in hand) had its live copy lost. So the only way
  to lose a text silently is to miss its push, to drop it with a client, a batch
  or the process. The catch-up by cursor is meant for exactly these, and finding 1
  says when it does not reach them.
- `PollsPassOnlyTheGap` (action property): when a poll writes the cursor, what it passes
  was delivered, audited or skipped on purpose, or lay deeper in the history than the
  fetch reaches (50 messages in the code, 1 in the run): a batch may be left by a
  failed call at any message, and nothing else may fall through. What lies deeper is
  lost; the property says that this is all.
- `MuteIsLateAtMostByOneRead`: a text written under a mute is sent over a poll only
  when that poll had read the topic before the text was written, and never over the live
  path, beside `/mute`, `/unmute` and `/resync`. Of a `/resync` itself this is not
  claimed: its backfill shows such texts (see the observations), and one that had
  read the topic before the `/mute` undoes the mute (finding 2).
- `EventuallySettled` (liveness): every text is in the end delivered, audited,
  skipped, backfilled or behind the cursor, unless its topic is muted. It assumes that
  calls to MAX return and that the poll loop survives. "Behind the cursor" counts as
  settled, so it does not exclude finding 1, and with one message a chat its run never
  meets it.

Safety of the topic table:

- `CommandsStand`: the flag and the window of a topic are what the user's last
  commands made them, through any number of re-creations, unless a command met a
  reconcile that had already read the topic.
- `OnlyDepartedAutoMuted`: only channels the user had left are muted
  automatically, however short the chat list MAX returned.
- `DuplicatesDoNotPileUp`: between two crashes a creation of a missing topic that was
  answered is the last its task makes for the chat. Duplicates are possible: two tasks
  may each create one, and a creation that raised may have left one in Telegram before
  it is tried again. So RECONCILE-03 ("existing chats do not duplicate topics") is not
  promised; what is excluded is a task that goes on creating topics it was told of.

The session:

- `OneNoticeADay`: the health check sends one notice a day at most, although the
  event and the notice are two steps, a crash may fall between them and handlers
  record events of their own.
- `OnlyLostAreMarked`: a task about to mark the binding looked for the session in
  `session.db` and found none, and there is none still, or the user has scanned since.
  The one exception is a file that was unreadable for a moment. An unreachable MAX
  marks nobody, and no mark rests on a refusal by MAX.
- `LossIsNoticed` (liveness): a lost session does not stay behind an active binding
  for ever while the poll loop runs, through the cooldown, failed checks and crashes.
  The same of a refused session is finding 3.

The shared tables:

- `OnlyMembersAreServed`: nobody is shown a text of a chat he is not in, or becomes
  the owner of its rows, however reconciles and polls of several users overlap.
- `PassedReachedAMember`: a text passed over because it is linked was sent to a
  member of the chat, though perhaps to another one (finding 4).

A message in a topic:

- `DeliveredIsShown`: a delivered album shows every item it has a URL for, and any
  other delivered message its first attachment, through chunks, a refusal and the
  fallback to single sends. One case is exempt by name (`GivesWayToText`): a live
  video without a URL in a message with a text is left out, and the text is sent alone.
- `RepeatedOnlyAfterRefusal`: an item appears twice only if it was part of an accepted
  chunk before a later chunk was refused; the retries of a backfill repeat nothing.
- `TextInOrder`: the pieces of a caption follow each other without gap or overlap,
  and the text starts again at most once, after a refusal.
- `TextLostOnlyToFallback`: a delivered message that does not show all of its text shows
  a link or a file name somewhere, or is a backfilled video without a URL: without any
  of these the split loses nothing. It does not say that the link stands where the
  text should.
- `AlwaysNearer` (action property): every step of a delivery lowers `Ahead`, a tuple
  compared from its first component on: the phase (whole, item by item, done), the
  items still to come, the place within one send, the retries left, the chunks or
  characters left. A retry goes back to the start of an album, the end of an item to
  the start of a send, a refusal to the first item; none may do so without spending
  something more significant.

The process:

- `CacheIsExact`: of the clients the registry started, it holds exactly the running
  ones, so none is leaked and none that is being closed is handed out. This is about
  the registry's clients: a health check, a reconcile and a QR authorisation open
  clients of their own on the same `session.db`, and a client that is being closed may
  still run when its successor starts.
- `NoClientIsLost`: a client the registry started is in it, with the task that
  starts or closes it, or on the list of `close_all()`, whoever closes what meanwhile.
  When `close_all()` raises, what is left on its list ends with the process.
- `KeepsSessions`: the registry implements `Sessions`.
- `QueueIsExact`: the lock's holder and waiters are exactly the tasks inside one of its
  `async with` blocks, each once, although a start may raise under the lock.
- `WindsDown` (action property): once `dp.start_polling` has returned, every step takes
  one task nearer to its end (`StepsLeft`) and sends no other back. So a handler that
  comes to `get_client` late, after `close_all()` has emptied the registry, starts one
  client at most, and nothing else begins.
- `FailureShows`: a failed poll of an active user is in the marker, or will be at the
  end of the cycle, whatever the other users' polls return.
- `VisitedOrUnhealthy` (liveness): an active user is visited again and again, or from
  some time on the container is unhealthy for good, also when another user's start holds
  the lock for ever and when the poll loop is dead. The heartbeat ages in the model
  only during a visit, in a dead loop or after a cycle that failed, so a loop that
  skips a user while its cycles go well would violate this. A visit that an AuthError
  ends counts as one, as in the code (`health/service.py:204`).
- `ShutdownEnds` (liveness): a shutdown ends unless it meets a start that holds the
  registry's lock. The exception is real: `close_user` and `close_all` wait for
  that lock without a timeout.

Findings (violation runs; each quotes the line it contradicts in `PROJECT.json`):

1. `NoSilentLoss`. A text missed while the socket was down lies behind the cursor
   as soon as a newer live message of the chat is delivered
   (`inbound.py:273`), and the hourly catch-up starts behind the cursor. In the
   run: drop, text 1, reconnect, text 2 live, cursor at 2.
2. `MuteSurvivesResync`. A `/mute` given while `/resync` runs is undone when the
   resync saves the new row with the flag it read at its start.
3. `ExpiryIsNoticed`. MAX refuses a session; the health check's client ends with the
   refusal, `close()` raises it again out of the `finally` (`health/service.py:107`),
   and `_poll_user` suppresses it before the mark. The check repeats this for ever;
   `/start` and `/resync` do no better, because reconcile closes its client in a
   `finally` too.
4. `Isolated`. When two bridged users are in one MAX chat, the link saved for the
   first delivery makes the second user's delivery return at once: he is never shown
   the text.
5. `TextSurvivesFallback`. An album is refused and its items go one by one, the first
   with the text. When that item is refused too, its fallback is the prefix and the
   link; the later items carry no text, and the message counts as delivered.

Observations the models make visible, without a run of their own:

- `_backfill` saves no links (`reconcile/service.py:398`), so a message that is
  backfilled into a new topic and also waits in the live buffer is sent twice, although
  README.md:123 says that delivered messages are not sent again.
- The backfill of a `/resync` ignores `inbound_since_ms`: after a mute and an
  `/unmute` it shows texts written under the mute, which README.md:78 says are skipped.
- Two reconciles of one user both create the topic of a chat that had none; so does a
  crash between the topic and its row, and a creation Telegram obeyed although the call
  raised (README RECONCILE-03 says existing chats do not duplicate topics).
- The cooldown of the notice comes before the look at the session, so a session
  lost again within a day of the last event leaves the binding active until the day
  is over (`LossIsNoticed` holds; RB-02 promises the next health check).
- A `session.db` that is locked for a moment marks the binding of a good session
  (`adapter.py:891`), and a check that judged a session may mark the binding after the
  user has scanned anew.
- Topic ids are keys of their own (`schema.py:29`): a new topic may take the row of
  another user's topic with the same id, which is then created again (SharedTables).
- When `/start` or `/resync` marks the binding, the poll loop no longer visits the
  user, so the cached client is not closed, and is used again after a
  re-authorisation.
- `stop()` iterates over the services while the poll task may add or drop one; the
  iteration then raises and `main()` skips `close_all()` and the database's close
  (`StopRaises`).
- An album with a video that has no URL drops that video silently; a mixed album
  sends its first attachment only (a scope cut of MLB-029); a document without a URL
  shows its name and not the text; a text above Telegram's limit is never split, and
  so never delivered when it comes without media; when a continuation fails the
  message is audited as failed although its media is visible (accepted in MLB-024).

### Bounds

Every bound is a CONSTANT: `MaxMessages`, `MaxFaults`, `MaxCrashes`,
`MaxCommands`, `MaxEvents` (the last three together), `MaxOwn`, `PostKinds` in
InboundSync; `MaxTopics` (the topics
Telegram lets the user have), `MaxCommands`, `MaxCrashes` in Reconcile;
`MaxSessions` (QR scans), `MaxFaults`, `MaxCrashes` in SessionHealth;
`MaxMessages`, `MaxCommands`, `MaxFaults`, `MaxCrashes` in SharedTables;
`Attachments`, `MaxAttaches`, `Texts`, `MaxFaults` in MediaDelivery; `MaxClients`
(client objects of a user that are alive or still referred to) and `MaxFaults`
(failures and expired sessions) in Runtime.

- InboundSync: two messages suffice for a cursor to pass one and for callbacks to
  be reordered; a history of one makes a fetch fall short; a storm threshold of one
  makes every reconnect a storm in `inbound_one_chat`, while `inbound_recovery`
  (threshold two) lets a reconnect recover; two commands make a mute
  and its unmute, or either beside a `/resync`, and two events a send that fails or a
  crash beside a command or each other. `MaxEvents = 3` (3.2 million states, five
  minutes) also passes; the proofs cover any number.
  Two chats are needed only where one chat's recovery can starve another's catch-up.
- Reconcile: one reconcile beside another is enough for every race of the table; a
  second crash or a third task adds more of the same.
- SessionHealth: two sessions are the one a check judged and the one that replaced it.
- SharedTables: the rows are per chat, so one chat, with any non-empty set of members,
  shows every conflict of two users; the proofs lift it to any number.
- MediaDelivery: the limits of Telegram are scaled down (captions 1024 to 4, texts
  4096 to 6, albums 10 to 2) so that three attachments make two chunks and the
  lengths 0, 1, 3 and 11 give no text, a caption that fits exactly, one continuation
  and two. Two faults are a refused album and a refused item of it.
- Runtime: three clients are one that runs, one being closed and one in a handler's
  hands; two users are what it takes for one to block the other.

The proofs below lift every safety property of the passing runs from these bounds.

Deadlock is checked except in the runs of MediaDelivery, where a message ends, and
in `runtime`, where the process ends.

### Fairness

`EventuallySettled` assumes `Fairness` of InboundSync: weak
fairness of the poller's steps, since the loop sleeps one second and polls again
whatever a poll raised (a call that never returns and a loop that has ended are
Runtime's subject, not assumed away there); weak fairness of `OnStartAgain`, since pymax reconnects by
itself; strong fairness of `HourPasses`. Time passes in any state, but in the
model the hour ends only between two polls (the clock is read and reset within
one), so the action is enabled again and again rather than continuously, and
weak fairness would not say that time passes. Nothing is assumed of users, of
callbacks or of failures, which are bounded.

`LossIsNoticed` and `ExpiryIsNoticed` assume `Fairness` of SessionHealth: weak fairness
of the poller, of the check interval and of the day. The poller goes on unless a
`close()` has ended its loop, which is a state of the model ("dead") and excepted in
both properties; every call it makes ends. Nothing is assumed of handlers: a user need
never send `/start`.

`VisitedOrUnhealthy` and `ShutdownEnds` assume `Fairness` of Runtime: weak fairness of
what a task does without waiting for MAX (`LocalPoller`, `LocalMain`, `Local`), since
the event loop runs ready tasks and `asyncio.Lock` wakes its waiters in order; and of
`HeartbeatAges`, since a heartbeat that nobody renews gets older: the action is enabled only
during a visit, in a dead loop or while the marker stands, so it is forced only on a loop
that stays there. Nothing is assumed of
`Environment`: a start, a poll, a send or a health check need never return, and no
shutdown need ever come.

## Proofs

The proof modules follow one argument: an inductive strengthening `IInv` of the
properties, one lemma per conjunct that goes through the actions of `Next`, and
theorems that cite `Inductive`. They hold for every set of chats (finite, because
a listing orders it), every set of users, every number of handlers and every bound; the named
ASSUMEs of the modules are all that is assumed, and TLC evaluates them in every
run.

`InboundSyncProofs`: `TypeCorrect`, `MuteLateByOneRead`, `EveryTextIsAccounted`,
`OnlyTheGapIsPassed`, `Implements`, `EveryRedeliveryIsPaid`.

- `ControlOK`: what the poller has in hand at each program point.
- `LinkOK`: what is being sent has no link yet. This is what the refinement needs;
  `RedeliveryIsPaid` is then the theorem of `DeliveryProofs`, carried over by
  `Implements`.
- `CreateOK`: the chats a poll creates topics for are distinct and have none, so
  a creation never un-mutes a topic; a `/resync` is of a chat that has one.
- `QuietOK`: a text written under a mute lies below the window of any topic
  enabled since (`QuietTopics`), below the window of a poll that read the topic
  after it was written (`QuietPolls`), and so is in hand for sending only if it
  is younger than that read (`QuietSends`). A `/resync` that undoes a mute takes the
  texts written under it out of `quiet`, as the property does not claim them.

- `HandOK`: nothing is in hand between polls, and a message that is settled has its
  link. What is carried (on the wire, buffered, in hand) then stays carried or is
  settled (linked, audited, skipped, backfilled or missed) at every step, and what is settled
  stays so (`FateMoves`); `FateTail` is the end of one live message's delivery.
- `WrittenOK`: what is carried, and what a poll or a cursor has reached, is a message
  that was written, so a backfill's cursor is never behind another.
- `ReachOK`: what lies between the cursor a poll read and the last message it settled
  is dealt with or below its fetch, and what lies before a message of its batch is that
  or earlier in the batch (`FetchedReach`, `ReachTail`). The cursor itself may have moved
  meanwhile, by a `/resync`, but only upwards, which is where `WrittenOK` is needed.
  `OnlyTheGapIsPassed` reads the action property off `FinishChat`.

`ReconcileProofs`: `TypeCorrect`, `CommandsStandAlways`, `AutoMuteIsForDeparted`,
`OneMissingTopicPerTask`.

- `RowOK`, `SnapOK`: the commands stand in the table *and* in the rows a task
  still holds and may write from. A command to a chat some task holds makes it
  raced; one that nobody holds leaves nothing stale behind.
- `KnownOK`: every chat with a topic, or in some task's hands, is one the user is
  in or left, so a channel looked up and found without the user was left.
- `OnceOK`: a missing topic whose creation was answered in this life of the process is
  saved or about to be, and its creator does not hold the chat as still to do. Of a
  creation that raised nothing follows.

`SessionHealthProofs`: `TypeCorrect`, `NoticeOnceADay`, `MarkedWasLost`.

- `CooldownOK`: a notice of today goes with a recorded event, and a check that is
  past the cooldown has sent none today. `OneNoticeADay` alone does not say that a
  check on its way to `send_text` is the first of the day.
- `JudgedOK`: what a task looked for in vain is not newer than what is stored, and if
  it is what is stored, it is lost still: an authorisation replaces it rather than
  making it good again.

`SharedTablesProofs`: `TypeCorrect`, `MembersOnlyServed`, `PassedReached`,
`Implements`, `RepeatsArePaidFor`.

- `Serving`: the poller works for a member on texts of that chat
  (`PollerServesMember`), a reconcile handles its user's chats
  (`RunnersServeMember`), and only members have pushes and topics (`MembersOnly`).
  `OnlyMembersAreServed` says nothing of work in progress, so it is not inductive.
- `LinksOK`: a link, and a send about to be linked, stands for a member who was
  shown the text; what is passed over is linked.

`DeliveryProofs`: `RepeatsArePaidFor`. The payers are assigned along the steps: a
repeated `Send` finds the lost record of the one before and takes over its payer; a
`Crash` pays for the one delivery that was under way, and a `Fail` for its own message.
`Record` turns nothing into a debt. The invariant needs that `flight` holds one message
at most, that it is not in `done`, and that what is in either was sent.

`InboundSyncProofs` and `SharedTablesProofs` both contain `Implements`: the initial
states map to `Delivery`'s, and under the invariant each step maps to a `Send`, a
`Record`, a `Fail`, a `Crash` or a stutter. The message in hand is not linked when it is sent,
which is where the invariant is needed. `EveryRedeliveryIsPaid` and the `RepeatsArePaidFor` of
`SharedTablesProofs` are corollaries: they instantiate the theorem of `DeliveryProofs`
with the same mapping.

`MediaDeliveryProofs`: `TypeCorrect`, `DeliveryShowsItems`, `RepeatsAreRefusals`,
`PiecesAreInOrder`, `LossIsFallback`, `DeliveryComesNearer`. The lemmas `PostReads`, `PostCounts`,
`PostStarts` and `PostJoins` say what one more post does to what the topic shows, so
no induction over its posts is needed.

- `ControlOK`, `ApartOK`: what each place of a delivery has in hand. Before the first
  send nothing is shown; a topic Telegram does not find has shown nothing, which is
  why the whole call can be repeated; an item in hand is not among those to come.
- `ReadOK`: up to `at` the text is shown, or a fallback excuses its loss; once the
  first item of a refused album is done, the text is done.
- `ItemsOK`, `CountOK`: an item that left `todo` is shown, and every item is shown
  once for its chunk and once more for its turn after a refusal.
- `OrderOK`: nothing but pieces without text follows the piece that ended at `at`, so
  the next one joins it; what begins the text is counted.
- `AheadOK`, `Falls`: the components of `Ahead` are natural numbers, and each action
  lowers one of them and keeps those before it (`StepFalls`). Here `ControlOK` is
  needed: an album is never refused twice because its items are not an album
  (`pc = "album" => ~apart`), and `at <= Caption(job.text)` keeps what is left of a
  text from running below zero. `DeliveryComesNearer` says both. That no delivery is
  infinite follows, because the order on tuples of naturals is well founded; this last
  inference is an induction and not made in TLAPS.

`RuntimeProofs`: `TypeCorrect`, `CacheExact`, `FailureShown`.

- `Registry` (`StartOK`, `ClosingOK`, `CacheIsExact`): a client that starts belongs to
  the task that holds the lock, whose user has none cached; a client some task or
  `close_all()` is about to close has left the registry, and no two of them close
  the same one.
- `HealthOK`: within a cycle a failure is remembered or its user is still to be
  visited; between cycles the marker tells.

`RuntimeStepProofs`: `QueueExact`, `NoneIsLost`, `KeepsTheSessions`, `ShutdownWindsDown`.
The steps of Runtime are of one shape: one task moves along an arc of its program and
the others stay (`StepIsTaskStep`), so each proof looks at the one task.

- `QueueIsExact` is inductive with `TypeOK`: an arc that enters a block appends the task,
  an arc that leaves one is taken by the holder and removes it, and every other arc stays
  on its side.
- `EndingOK`, `CloserOK`: `NoClientIsLost` alone would let a client that is closing pass
  for the registry's, so `CloserOK` names its closer: a task at a closing step, or the list of
  `close_all()`, which is empty until `close_all()` fills it (`EndingOK`) and so
  overwrites nobody. Two tasks never close the same client (`ClosingOK`), so the one
  that is done leaves nobody behind.
- `KeepsTheSessions`: the initial states map to those of `Sessions`, and each step to
  `Start`, `Open`, `Fail`, `Close`, `Closed` or a stutter. That nobody else starts is the
  lock's doing: `StartOK` says that whoever starts holds it.
- `ShutdownWindsDown`: for each task `StepsLeft` falls along every arc the shutdown allows.
  The number for `main()` depends on the sets it iterates over (`left`, `ending`), which
  only its own steps change, and only downwards.

Model-checked only:

- `EventuallySettled`, `LossIsNoticed`, `VisitedOrUnhealthy`, `ShutdownEnds`: liveness
  under fairness is beyond the prover. `ShutdownWindsDown` is the part of the last that
  is not: the measure that falls is proved, that the steps are taken is checked.

Every other invariant and action property of the passing runs is proved.

## Not modelled

- The domain models and ports: data classes and interfaces without behaviour.
- Names of senders and chats and their caches, prefixes, file names, MIME types,
  download headers: data no property tells apart.
- pymax itself (external): its reconnects, its session store and the messages it
  pushes are what `src/` may rely on, no more. What two connections with one
  `session.db` do to each other (a health check, a reconcile or an open QR client beside
  the registry's, a client being closed beside its successor) is not modelled.
- `start_auth` and `complete_login`, the deprecated SMS login, and
  `topic_exists`: nothing calls them.
- The allow-list (a membership test before every handler), settings and
  construction: no state after start-up.
- Failing SQLite calls, the connection and the migrations of the schema.

## Plan

| What | Why |
| --- | --- |
| `EventuallySettled` with two messages a chat | it would meet the cursor that passes a missed text, at the price of a longer run |
| Membership that changes in SharedTables | a user who leaves a chat another bridged user stays in |
| An abstract topic table that Reconcile implements | its promises are three invariants so far, and none says what a single step of a reconcile may change |
| An abstract session that SessionHealth implements | when a binding may leave `active`, without the poller and the handlers |
