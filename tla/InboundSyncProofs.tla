------------------------- MODULE InboundSyncProofs -------------------------
(***************************************************************************)
(* Proofs about InboundSync for every set of chats and every bound.  IInv  *)
(* is inductive: TypeStep, ControlStep, LinkStep, CreateStep, QuietStep,   *)
(* HandStep, FateStep, WrittenStep and ReachStep show, action by action,   *)
(* that a step keeps each of its conjuncts.                                *)
(***************************************************************************)
EXTENDS InboundSync, FiniteSetTheorems, TLAPS

\* What an ordering of a set of chats is.
LEMMA OrdersType ==
    ASSUME NEW S \in SUBSET Chats, NEW q \in Orders(S)
    PROVE  q \in Seq(Chats)
<1>1. IsFiniteSet(S)
    BY ChatsAssumption, FS_Subset
<1>2. Cardinality(S) \in Nat
    BY <1>1, FS_CardinalityType
<1>3. q \in [1..Cardinality(S) -> S]
    BY DEF Orders
<1>. QED
    BY <1>2, <1>3

\* A fetch returns messages of the fetched chat, at positions above the cursor.
LEMMA FetchedType ==
    ASSUME MaxOK, NEW c \in Chats, NEW pos \in Nat, NEW n \in Nat
    PROVE  /\ Fetched(c, pos, n) \in Seq(Msgs)
           /\ \A i \in DOMAIN Fetched(c, pos, n) : Fetched(c, pos, n)[i][1] = c
<1>. DEFINE lo == IF pos + n < Len(hist[c]) THEN Len(hist[c]) - n ELSE pos
            size == Len(hist[c]) - lo
<1>1. Len(hist[c]) \in Nat /\ Len(hist[c]) <= MaxMessages
    BY DEF MaxOK
<1>2. lo \in Nat /\ size \in Int
    BY <1>1
<1>3. \A i \in 1..size : <<c, lo + i>> \in Msgs
    BY <1>1, <1>2, BoundsAssumption DEF Msgs, Ids
<1>4. Fetched(c, pos, n) = [i \in 1..size |-> <<c, lo + i>>]
    BY DEF Fetched
<1>. HIDE DEF lo, size
<1>5. \E k \in Nat : 1..size = 1..k
    BY <1>2, 1..0 = {}, size \notin Nat => 1..size = {}
<1>6. Fetched(c, pos, n) \in Seq(Msgs)
    <2>1. PICK k \in Nat : 1..size = 1..k
        BY <1>5
    <2>2. Fetched(c, pos, n) \in [1..k -> Msgs]
        BY <1>3, <1>4, <2>1
    <2>. QED
        BY <2>2
<1>7. \A i \in DOMAIN Fetched(c, pos, n) : Fetched(c, pos, n)[i][1] = c
    BY <1>4
<1>. QED
    BY <1>6, <1>7

LEMMA EmptySeq == ASSUME NEW S PROVE <<>> \in Seq(S) /\ Len(<<>>) = 0
OBVIOUS

LEMMA ReadyType == Ready \in PollerType
BY BoundsAssumption, EmptySeq DEF Ready, PollerType, Pcs, Modes

\* The next chat of a poll and what is left when it is done.
LEMMA TodoType ==
    ASSUME PollerOK, p.todo # <<>>
    PROVE  p.todo[1] \in Chats /\ Tail(p.todo) \in Seq(Chats)
BY DEF PollerOK, PollerType

\* The message in hand and what is left when it is done.
LEMMA InHandType ==
    ASSUME PollerOK, p.batch # <<>>
    PROVE  /\ Current \in Msgs /\ Current[1] \in Chats /\ Current[2] \in 1..MaxMessages
           /\ Tail(p.batch) \in Seq(Msgs)
           /\ NextLive \in PollerType /\ NextLive.pc = "live" /\ NextLive.mode = "live"
<1>1. p.batch \in Seq(Msgs) /\ p.batch[1] \in Msgs /\ Tail(p.batch) \in Seq(Msgs)
    BY DEF PollerOK, PollerType
<1>2. NextLive \in PollerType /\ NextLive.pc = "live" /\ NextLive.mode = "live"
    BY <1>1, ReadyType DEF NextLive, PollerType, Pcs, Ready
<1>. QED
    BY <1>1, <1>2 DEF Current, Msgs, Ids

-----------------------------------------------------------------------------
(* Type correctness.                                                       *)

LEMMA TypeInit == Init => TypeOK
<1>. SUFFICES ASSUME Init PROVE TypeOK
    OBVIOUS
<1>1. MaxOK
    <2>1. hist \in [Chats -> Seq(Kinds)]
        BY EmptySeq DEF Init
    <2>2. \A c \in Chats : Len(hist[c]) <= MaxMessages
        BY BoundsAssumption, EmptySeq DEF Init
    <2>. QED
        BY <2>1, <2>2 DEF Init, MaxOK
<1>2. MemOK
    BY EmptySeq DEF Init, MemOK
<1>3. PollerOK
    BY ReadyType DEF Init, PollerOK
<1>4. SyncOK /\ BudgetOK
    BY DEF Init, SyncOK, BudgetOK, NoResync, ResyncType
<1>5. DbOK
    BY BoundsAssumption DEF Init, DbOK
<1>6. SeenOK
    BY DEF Init, SeenOK
<1>. QED
    BY <1>1, <1>2, <1>3, <1>4, <1>5, <1>6 DEF TypeOK

\* A part of the state whose variables do not change keeps its type.
LEMMA Frame ==
    ASSUME TypeOK
    PROVE  /\ UNCHANGED maxSide => MaxOK'
           /\ UNCHANGED mem => MemOK'
           /\ UNCHANGED p => PollerOK'
           /\ UNCHANGED sync => SyncOK'
           /\ UNCHANGED db => DbOK'
           /\ UNCHANGED budgets => BudgetOK'
           /\ UNCHANGED seen => SeenOK'
<1>1. UNCHANGED maxSide => MaxOK'
    BY DEF TypeOK, MaxOK, maxSide
<1>2. UNCHANGED mem => MemOK'
    BY DEF TypeOK, MemOK, mem
<1>3. UNCHANGED p => PollerOK'
    BY DEF TypeOK, PollerOK, PollerType
<1>4. UNCHANGED sync => SyncOK'
    BY DEF TypeOK, SyncOK, sync
<1>5. UNCHANGED db => DbOK'
    BY DEF TypeOK, DbOK, db
<1>6. UNCHANGED budgets => BudgetOK'
    BY DEF TypeOK, BudgetOK, budgets
<1>7. UNCHANGED seen => SeenOK'
    BY DEF TypeOK, SeenOK, seen
<1>. QED
    BY <1>1, <1>2, <1>3, <1>4, <1>5, <1>6, <1>7

LEMMA FaultType == ASSUME TypeOK, Fault PROVE BudgetOK'
BY DEF TypeOK, BudgetOK, Fault

\* What backfilling a chat leaves behind, whoever does it.
LEMMA BackfillEffect ==
    ASSUME TypeOK, NEW c \in Chats, NEW ok, BackfillSends(c, ok)
    PROVE  /\ faults' \in Nat
           /\ backfilled \subseteq backfilled' /\ backfilled' \subseteq Msgs
           /\ audited \subseteq audited' /\ audited' \subseteq Msgs
<1>. DEFINE sent == {<<c, i>> : i \in Newest(c, BackfillCount)}
            positions == 1..Len(hist[c])
            all == {<<c, i>> : i \in positions}
<1>1. IsFiniteSet(positions)
    BY FS_Interval DEF TypeOK, MaxOK
<1>2. IsFiniteSet(all)
    <2>. DEFINE f == [i \in positions |-> <<c, i>>]
    <2>1. f \in Surjection(positions, all)
        BY DEF Surjection
    <2>. HIDE DEF positions, all, f
    <2>. QED
        BY <1>1, <2>1, FS_Surjection
<1>3. sent \subseteq all
    BY DEF Newest, TypeOK, MaxOK
<1>4. all \subseteq Msgs
    BY BoundsAssumption DEF TypeOK, MaxOK, Msgs, Ids
<1>5. PICK failed \in SUBSET sent : /\ faults' = faults + Cardinality(failed)
                                    /\ backfilled' = backfilled \cup (sent \ failed)
                                    /\ audited' = audited \cup failed
    BY DEF BackfillSends
<1>. HIDE DEF sent, positions, all
<1>6. Cardinality(failed) \in Nat
    BY <1>2, <1>3, FS_Subset, FS_CardinalityType
<1>. QED
    BY <1>3, <1>4, <1>5, <1>6 DEF TypeOK, BudgetOK, DbOK, SeenOK

LEMMA BackfillType ==
    ASSUME TypeOK, ControlOK, Backfill
    PROVE  DbOK' /\ SeenOK' /\ BudgetOK'
<1>1. p.chat \in Chats
    BY DEF Backfill, ControlOK
<1>2. PICK ok \in BOOLEAN : BackfillSends(p.chat, ok)
    BY DEF Backfill
<1>3. Older(p.chat) \subseteq Msgs
    BY <1>1, BoundsAssumption DEF Older, TypeOK, MaxOK, Msgs, Ids
<1>. QED
    BY <1>1, <1>2, <1>3, BackfillEffect DEF Backfill, TypeOK, DbOK, SeenOK, BudgetOK

-----------------------------------------------------------------------------
(* /resync beside the poller.                                              *)

\* What no step of a /resync touches.
LEMMA ResyncLeaves ==
    ASSUME Resync
    PROVE  /\ UNCHANGED maxSide /\ UNCHANGED mem /\ UNCHANGED p
           /\ UNCHANGED <<throttled, due, recent, linked, crashes, tg, failures, missed, skipped>>
BY DEF Resync, ResyncBegin, ResyncCreate, ResyncBackfill, ResyncCursor, ResyncFails, Command,
       Fault, db, budgets, seen

\* A chat's cursor after a backfill of it.
LEMMA NewestCursorType ==
    ASSUME TypeOK, NEW c \in Chats
    PROVE  NewestCursor(c) \in [Chats -> 0..MaxMessages]
BY BoundsAssumption DEF NewestCursor, TypeOK, MaxOK, DbOK

LEMMA ResyncTypes == ASSUME TypeOK, CreateOK, Resync PROVE SyncOK' /\ DbOK' /\ BudgetOK' /\ SeenOK'
<1>0. r \in ResyncType /\ (r.pc # "none" => r.chat \in Chats)
    BY DEF TypeOK, SyncOK, CreateOK
<1>1. NoResync \in ResyncType
    BY DEF NoResync, ResyncType
<1>2. ASSUME NEW c \in Chats, ResyncBegin(c) PROVE SyncOK' /\ DbOK' /\ BudgetOK' /\ SeenOK'
    BY <1>2 DEF ResyncBegin, Command, TypeOK, SyncOK, ResyncType, DbOK, BudgetOK, SeenOK, db, seen
<1>3. CASE ResyncCreate
  <2>1. SyncOK'
      BY <1>0, <1>1, <1>3 DEF ResyncCreate, TypeOK, SyncOK, ResyncType
  <2>2. DbOK'
      BY <1>0, <1>3 DEF ResyncCreate, TypeOK, ResyncType, DbOK
  <2>3. BudgetOK' /\ SeenOK'
      BY <1>3 DEF ResyncCreate, TypeOK, BudgetOK, SeenOK, budgets
  <2>. QED
      BY <2>1, <2>2, <2>3
<1>4. CASE ResyncBackfill
  <2>1. PICK ok \in BOOLEAN :
          /\ BackfillSends(r.chat, ok)
          /\ r' = IF ok THEN [r EXCEPT !.pc = "backcursor"] ELSE NoResync
      BY <1>4 DEF ResyncBackfill
  <2>2. r.chat \in Chats
      BY <1>0, <1>4 DEF ResyncBackfill
  <2>3. SyncOK'
      BY <1>0, <1>1, <1>4, <2>1 DEF ResyncBackfill, TypeOK, SyncOK, ResyncType
  <2>4. DbOK' /\ BudgetOK' /\ SeenOK'
      BY <1>4, <2>1, <2>2, BackfillEffect DEF ResyncBackfill, TypeOK, DbOK, BudgetOK, SeenOK
  <2>. QED
      BY <2>3, <2>4
<1>5. CASE ResyncCursor
  <2>1. r.chat \in Chats
      BY <1>0, <1>5 DEF ResyncCursor
  <2>2. SyncOK' /\ DbOK'
      BY <1>1, <1>5, <2>1, NewestCursorType DEF ResyncCursor, TypeOK, SyncOK, DbOK
  <2>3. BudgetOK' /\ SeenOK'
      BY <1>5 DEF ResyncCursor, TypeOK, BudgetOK, SeenOK, budgets, seen
  <2>. QED
      BY <2>2, <2>3
<1>6. CASE ResyncFails
    BY <1>1, <1>6, FaultType DEF ResyncFails, TypeOK, SyncOK, DbOK, SeenOK, db, seen
<1>. QED
    BY <1>2, <1>3, <1>4, <1>5, <1>6 DEF Resync

LEMMA ResyncKeepsTypes == ASSUME TypeOK, CreateOK, Resync PROVE TypeOK'
BY ResyncTypes, ResyncLeaves, Frame DEF TypeOK

-----------------------------------------------------------------------------
(* The steps of the poller and of its environment.                         *)

LEMMA TypeStep == TypeOK /\ ControlOK /\ CreateOK /\ [Next]_vars => TypeOK'
<1>. SUFFICES ASSUME TypeOK, ControlOK, CreateOK, [Next]_vars PROVE TypeOK'
    OBVIOUS
<1>1. ASSUME NEW c \in Chats, NEW k \in PostKinds, Post(c, k) PROVE TypeOK'
  <2>1. MaxOK'
      BY <1>1, BoundsAssumption DEF Post, TypeOK, MaxOK, Msgs, Ids, Kinds
  <2>2. SeenOK'
      BY <1>1, BoundsAssumption DEF Post, TypeOK, MaxOK, SeenOK, Msgs, Ids
  <2>. QED
      BY <1>1, <2>1, <2>2, Frame DEF Post, TypeOK
<1>2. ASSUME NEW c \in Chats, OutboundSend(c) PROVE TypeOK'
  <2>1. MaxOK'
      BY <1>2, BoundsAssumption DEF OutboundSend, TypeOK, MaxOK, Kinds
  <2>2. MemOK'
      BY <1>2 DEF OutboundSend, TypeOK, MemOK
  <2>. QED
      BY <1>2, <2>1, <2>2, Frame DEF OutboundSend, TypeOK
<1>3. ASSUME NEW c \in Chats, MarkChatDirty(c) PROVE TypeOK'
  <2>1. MemOK'
      BY <1>3 DEF MarkChatDirty, TypeOK, MemOK
  <2>. QED
      BY <1>3, <2>1, Frame DEF MarkChatDirty, TypeOK
<1>4. ASSUME NEW c \in Chats, Mute(c) PROVE TypeOK'
  <2>1. DbOK'
      BY <1>4 DEF Mute, TypeOK, DbOK, Command
  <2>2. BudgetOK'
      BY <1>4 DEF Mute, TypeOK, BudgetOK, Command
  <2>. QED
      BY <1>4, <2>1, <2>2, Frame DEF Mute, TypeOK
<1>5. ASSUME NEW c \in Chats, Unmute(c) PROVE TypeOK'
  <2>1. DbOK'
      BY <1>5 DEF Unmute, TypeOK, DbOK, MaxOK, Command
  <2>2. BudgetOK'
      BY <1>5 DEF Unmute, TypeOK, BudgetOK, Command
  <2>. QED
      BY <1>5, <2>1, <2>2, Frame DEF Unmute, TypeOK
<1>6. ASSUME NEW m \in wire, BufferMessage(m) PROVE TypeOK'
  <2>1. MaxOK'
      BY <1>6 DEF BufferMessage, TypeOK, MaxOK
  <2>2. MemOK'
      BY <1>6 DEF BufferMessage, TypeOK, MemOK, MaxOK
  <2>. QED
      BY <1>6, <2>1, <2>2, Frame DEF BufferMessage, TypeOK
<1>7. ASSUME SocketDrop PROVE TypeOK'
  <2>1. MaxOK'
      BY <1>7 DEF SocketDrop, TypeOK, MaxOK
  <2>2. BudgetOK'
      BY <1>7, FaultType DEF SocketDrop, TypeOK
  <2>3. SeenOK'
      BY <1>7 DEF SocketDrop, TypeOK, SeenOK, MaxOK
  <2>. QED
      BY <1>7, <2>1, <2>2, <2>3, Frame DEF SocketDrop, TypeOK
<1>8. ASSUME Crash PROVE TypeOK'
  <2>1. MaxOK'
      BY <1>8 DEF Crash, TypeOK, MaxOK
  <2>2. MemOK'
      BY <1>8, EmptySeq DEF Crash, TypeOK, MemOK
  <2>3. PollerOK'
      BY <1>8, ReadyType DEF Crash, TypeOK, PollerOK
  <2>4. SyncOK'
      BY <1>8 DEF Crash, TypeOK, SyncOK, NoResync, ResyncType
  <2>5. BudgetOK'
      BY <1>8 DEF Crash, TypeOK, BudgetOK
  <2>6. SeenOK'
    <3>1. wire \cup Buffered \cup InHand \subseteq Msgs
        BY DEF TypeOK, MaxOK, MemOK, PollerOK, PollerType, Buffered, InHand
    <3>. QED
        BY <1>8, <3>1 DEF Crash, TypeOK, SeenOK
  <2>. QED
      BY <1>8, <2>1, <2>2, <2>3, <2>4, <2>5, <2>6, Frame DEF Crash, TypeOK
<1>9. ASSUME OnStartAgain PROVE TypeOK'
  <2>1. MaxOK'
      BY <1>9 DEF OnStartAgain, TypeOK, MaxOK
  <2>2. MemOK'
      BY <1>9 DEF OnStartAgain, TypeOK, MemOK
  <2>. QED
      BY <1>9, <2>1, <2>2, Frame DEF OnStartAgain, TypeOK
<1>10. ASSUME HourPasses PROVE TypeOK'
  <2>1. SyncOK'
      BY <1>10 DEF HourPasses, TypeOK, SyncOK
  <2>. QED
      BY <1>10, <2>1, Frame DEF HourPasses, TypeOK
<1>11. ASSUME PollBegin PROVE TypeOK'
  <2>1. MaxOK'
      BY <1>11 DEF PollBegin, TypeOK, MaxOK
  <2>2. MemOK'
      BY <1>11 DEF PollBegin, TypeOK, MemOK
  <2>3. PollerOK'
      BY <1>11, ReadyType DEF PollBegin, TypeOK, PollerOK, PollerType, Pcs
  <2>. QED
      BY <1>11, <2>1, <2>2, <2>3, Frame DEF PollBegin, TypeOK
<1>12. ASSUME DrainBufferedMessages PROVE TypeOK'
  <2>1. MemOK'
      BY <1>12, EmptySeq DEF DrainBufferedMessages, TypeOK, MemOK
  <2>2. PollerOK'
      BY <1>12 DEF DrainBufferedMessages, TypeOK, PollerOK, PollerType, Pcs, MemOK
  <2>. QED
      BY <1>12, <2>1, <2>2, Frame DEF DrainBufferedMessages, TypeOK
<1>13. ASSUME LiveSkipped PROVE TypeOK'
  <2>1. PollerOK'
      BY <1>13, InHandType DEF LiveSkipped, TypeOK, PollerOK, PollerType, Pcs, LiveMessage
  <2>2. SeenOK'
      BY <1>13, InHandType DEF LiveSkipped, TypeOK, SeenOK, LiveMessage
  <2>. QED
      BY <1>13, <2>1, <2>2, Frame DEF LiveSkipped, TypeOK
<1>14. ASSUME LiveUnmapped PROVE TypeOK'
  <2>1. PollerOK'
      BY <1>14, InHandType
         DEF LiveUnmapped, TypeOK, PollerOK, PollerType, Pcs, LiveMessage
  <2>2. SeenOK'
      BY <1>14, InHandType DEF LiveUnmapped, TypeOK, SeenOK, LiveMessage
  <2>. QED
      BY <1>14, <2>1, <2>2, Frame DEF LiveUnmapped, TypeOK
<1>15. ASSUME LiveDeliver PROVE TypeOK'
  <2>1. PollerOK'
    <3>1. Current \in Msgs /\ Current[1] \in Chats
        BY <1>15, InHandType DEF LiveDeliver, LiveMessage, TypeOK
    <3>2. Len(hist[Current[1]]) \in Nat
        BY <3>1 DEF TypeOK, MaxOK
    <3>. QED
        BY <1>15, <3>1, <3>2 DEF LiveDeliver, TypeOK, PollerOK, PollerType, Pcs
  <2>. QED
      BY <1>15, <2>1, Frame DEF LiveDeliver, TypeOK
<1>16. ASSUME LiveSettle PROVE TypeOK'
  <2>1. MemOK'
      BY <1>16 DEF LiveSettle, TypeOK, MemOK
  <2>2. SyncOK'
      BY <1>16 DEF LiveSettle, TypeOK, SyncOK
  <2>3. DbOK'
      BY <1>16, InHandType DEF LiveSettle, TypeOK, DbOK, ControlOK
  <2>4. PollerOK'
      BY <1>16, InHandType DEF LiveSettle, TypeOK, PollerOK, ControlOK
  <2>. QED
      BY <1>16, <2>1, <2>2, <2>3, <2>4, Frame DEF LiveSettle, TypeOK
<1>17. ASSUME SendMessageToTelegram PROVE TypeOK'
  <2>1. PollerOK'
      BY <1>17 DEF SendMessageToTelegram, TypeOK, PollerOK, PollerType, Pcs
  <2>2. SeenOK'
    <3>1. Current \in Msgs
        BY <1>17, InHandType DEF SendMessageToTelegram, ControlOK, TypeOK
    <3>. QED
        BY <1>17, <3>1 DEF SendMessageToTelegram, TypeOK, SeenOK
  <2>. QED
      BY <1>17, <2>1, <2>2, Frame DEF SendMessageToTelegram, TypeOK
<1>18. ASSUME SendFails PROVE TypeOK'
  <2>1. PollerOK'
      BY <1>18, InHandType DEF SendFails, Undelivered, TypeOK, PollerOK, PollerType, Pcs, ControlOK
  <2>2. DbOK'
      BY <1>18, InHandType DEF SendFails, TypeOK, DbOK, ControlOK
  <2>3. BudgetOK'
      BY <1>18, FaultType DEF SendFails, TypeOK
  <2>4. SeenOK'
      BY <1>18, InHandType DEF SendFails, TypeOK, SeenOK, ControlOK
  <2>. QED
      BY <1>18, <2>1, <2>2, <2>3, <2>4, Frame DEF SendFails, TypeOK
<1>19. ASSUME SaveMessageLink PROVE TypeOK'
  <2>1. PollerOK'
      BY <1>19 DEF SaveMessageLink, TypeOK, PollerOK, PollerType, Pcs
  <2>2. DbOK'
      BY <1>19, InHandType DEF SaveMessageLink, TypeOK, DbOK, ControlOK
  <2>. QED
      BY <1>19, <2>1, <2>2, Frame DEF SaveMessageLink, TypeOK
<1>20. ASSUME PollDirtyChats PROVE TypeOK'
  <2>1. MemOK'
      BY <1>20 DEF PollDirtyChats, TypeOK, MemOK, GetDirtyChats
  <2>2. SyncOK'
      BY <1>20 DEF PollDirtyChats, TypeOK, SyncOK
  <2>3. PollerOK'
    <3>1. PICK todo \in UNION {Orders(S) : S \in SUBSET Chats} :
             p' = [p EXCEPT !.pc = "next", !.mode = "dirty", !.todo = todo]
        BY <1>20 DEF PollDirtyChats, GetDirtyChats, TypeOK, MemOK
    <3>2. todo \in Seq(Chats)
        BY OrdersType
    <3>. QED
        BY <3>1, <3>2 DEF TypeOK, PollerOK, PollerType, Pcs, Modes
  <2>. QED
      BY <1>20, <2>1, <2>2, <2>3, Frame DEF PollDirtyChats, TypeOK
<1>21. ASSUME RecoverAfterReconnect PROVE TypeOK'
  <2>1. MemOK'
      BY <1>21 DEF RecoverAfterReconnect, TypeOK, MemOK, GetDirtyChats
  <2>2. SyncOK'
      BY <1>21 DEF RecoverAfterReconnect, TypeOK, SyncOK
  <2>3. PollerOK'
    <3>1. PICK todo \in UNION {Orders(S) : S \in SUBSET Chats} :
             p' = [p EXCEPT !.pc = "next", !.mode = "recover",
                            !.todo = IF lastActive \in dirty' \cup {NoChat}
                                     THEN todo ELSE Append(todo, lastActive)]
        BY <1>21 DEF RecoverAfterReconnect, GetDirtyChats, TypeOK, MemOK
    <3>2. todo \in Seq(Chats)
        BY OrdersType
    <3>3. lastActive \notin dirty' \cup {NoChat} => Append(todo, lastActive) \in Seq(Chats)
        BY <3>2 DEF TypeOK, MemOK
    <3>. QED
        BY <3>1, <3>2, <3>3 DEF TypeOK, PollerOK, PollerType, Pcs, Modes
  <2>. QED
      BY <1>21, <2>1, <2>2, <2>3, Frame DEF RecoverAfterReconnect, TypeOK
<1>22. ASSUME ReconnectStorm PROVE TypeOK'
  <2>1. MaxOK'
      BY <1>22 DEF ReconnectStorm, TypeOK, MaxOK
  <2>2. MemOK'
      BY <1>22, EmptySeq DEF ReconnectStorm, TypeOK, MemOK
  <2>3. SyncOK'
      BY <1>22 DEF ReconnectStorm, TypeOK, SyncOK
  <2>4. PollerOK'
      BY <1>22, ReadyType DEF ReconnectStorm, TypeOK, PollerOK
  <2>5. SeenOK'
      BY <1>22 DEF ReconnectStorm, TypeOK, SeenOK, MaxOK, MemOK, Buffered
  <2>. QED
      BY <1>22, <2>1, <2>2, <2>3, <2>4, <2>5, Frame DEF ReconnectStorm, TypeOK
<1>23. ASSUME EndDirty PROVE TypeOK'
  <2>1. PollerOK'
      BY <1>23, ReadyType DEF EndDirty, TypeOK, PollerOK, PollerType, Pcs, Modes
  <2>. QED
      BY <1>23, <2>1, Frame DEF EndDirty, TypeOK
<1>24. ASSUME EndRecover PROVE TypeOK'
  <2>1. SyncOK'
      BY <1>24 DEF EndRecover, TypeOK, SyncOK
  <2>2. PollerOK'
      BY <1>24, ReadyType DEF EndRecover, TypeOK, PollerOK, PollerType, Pcs, Modes
  <2>. QED
      BY <1>24, <2>1, <2>2, Frame DEF EndRecover, TypeOK
<1>25. ASSUME ReadTopic PROVE TypeOK'
  <2>1. SyncOK'
      BY <1>25 DEF ReadTopic, TypeOK, SyncOK, Throttle, PollerOK, PollerType, Pcs
  <2>2. PollerOK'
    <3>1. p.todo[1] \in Chats /\ Tail(p.todo) \in Seq(Chats)
        BY <1>25, TodoType DEF ReadTopic, TypeOK
    <3>2. /\ since[p.todo[1]] \in Nat /\ cursor[p.todo[1]] \in Nat
         /\ Len(hist[p.todo[1]]) \in Nat
        BY <3>1, BoundsAssumption DEF TypeOK, DbOK, MaxOK
    <3>. QED
        BY <1>25, <3>1, <3>2 DEF ReadTopic, TypeOK, PollerOK, PollerType, Pcs
  <2>. QED
      BY <1>25, <2>1, <2>2, Frame DEF ReadTopic, TypeOK
<1>26. ASSUME GetMessages PROVE TypeOK'
  <2>1. PollerOK'
    <3>1. p.chat \in Chats /\ p.pos \in Nat /\ HistoryLimit \in Nat
        BY <1>26, BoundsAssumption
           DEF GetMessages, ControlOK, TypeOK, PollerOK, PollerType
    <3>2. Fetched(p.chat, p.pos, HistoryLimit) \in Seq(Msgs)
        BY <3>1, FetchedType DEF TypeOK
    <3>3. 0 \in 0..MaxMessages
        BY BoundsAssumption
    <3>. QED
        BY <1>26, <3>2, <3>3 DEF GetMessages, TypeOK, PollerOK, PollerType, Pcs
  <2>. QED
      BY <1>26, <2>1, Frame DEF GetMessages, TypeOK
<1>27. ASSUME GetMessagesRaises PROVE TypeOK'
  <2>1. PollerOK'
      BY <1>27, ReadyType DEF GetMessagesRaises, TypeOK, PollerOK
  <2>2. BudgetOK'
      BY <1>27, FaultType, Frame DEF GetMessagesRaises, TypeOK
  <2>. QED
      BY <1>27, <2>1, <2>2, Frame DEF GetMessagesRaises, TypeOK
<1>28. ASSUME BatchSkipped PROVE TypeOK'
  <2>1. PollerOK'
    <3>1. Current[2] \in 0..MaxMessages /\ Tail(p.batch) \in Seq(Msgs)
        BY <1>28, InHandType, BoundsAssumption DEF BatchSkipped, ControlOK, TypeOK
    <3>. QED
        BY <1>28, <3>1 DEF BatchSkipped, TypeOK, PollerOK, PollerType, Pcs
  <2>2. SeenOK'
      BY <1>28, InHandType DEF BatchSkipped, TypeOK, SeenOK
  <2>. QED
      BY <1>28, <2>1, <2>2, Frame DEF BatchSkipped, TypeOK
<1>29. ASSUME BatchDeliver PROVE TypeOK'
  <2>1. PollerOK'
      BY <1>29 DEF BatchDeliver, TypeOK, PollerOK, PollerType, Pcs
  <2>. QED
      BY <1>29, <2>1, Frame DEF BatchDeliver, TypeOK
<1>30. ASSUME BatchSettle PROVE TypeOK'
  <2>1. PollerOK'
    <3>1. Current[2] \in 0..MaxMessages /\ Tail(p.batch) \in Seq(Msgs)
        BY <1>30, InHandType, BoundsAssumption DEF BatchSettle, ControlOK, TypeOK
    <3>. QED
        BY <1>30, <3>1 DEF BatchSettle, TypeOK, PollerOK, PollerType, Pcs
  <2>. QED
      BY <1>30, <2>1, Frame DEF BatchSettle, TypeOK
<1>31. ASSUME FinishChat PROVE TypeOK'
  <2>1. MemOK'
      BY <1>31 DEF FinishChat, TypeOK, MemOK
  <2>2. SyncOK'
      BY <1>31 DEF FinishChat, TypeOK, SyncOK
  <2>3. DbOK'
      BY <1>31 DEF FinishChat, TypeOK, DbOK, PollerOK, PollerType, ControlOK
  <2>4. PollerOK'
    <3>1. Tail(p.todo) \in Seq(Chats)
        BY <1>31, TodoType DEF FinishChat, ControlOK, TypeOK
    <3>2. /\ p.mode \in Modes /\ (p.recovered \/ p.any) \in BOOLEAN
        BY DEF TypeOK, PollerOK, PollerType
    <3>. QED
        BY <1>31, <3>1, <3>2, ReadyType DEF FinishChat, TypeOK, PollerOK, PollerType, Pcs
  <2>. QED
      BY <1>31, <2>1, <2>2, <2>3, <2>4, Frame DEF FinishChat, TypeOK
<1>32. ASSUME FindTopics PROVE TypeOK'
  <2>1. PollerOK'
    <3>1. PICK todo \in UNION {Orders(S) : S \in SUBSET Chats} :
             p' = [p EXCEPT !.pc = "next", !.todo = todo]
        BY <1>32 DEF FindTopics
    <3>2. todo \in Seq(Chats)
        BY OrdersType
    <3>. QED
        BY <3>1, <3>2 DEF TypeOK, PollerOK, PollerType, Pcs
  <2>. QED
      BY <1>32, <2>1, Frame DEF FindTopics, TypeOK
<1>33. ASSUME EndCatchUp PROVE TypeOK'
  <2>1. SyncOK'
      BY <1>33 DEF EndCatchUp, TypeOK, SyncOK
  <2>2. PollerOK'
      BY <1>33, ReadyType DEF EndCatchUp, TypeOK, PollerOK
  <2>. QED
      BY <1>33, <2>1, <2>2, Frame DEF EndCatchUp, TypeOK
<1>34. ASSUME ReconcileUser PROVE TypeOK'
  <2>1. PollerOK'
    <3>1. PICK todo \in UNION {Orders(S) : S \in SUBSET Chats} :
             p' = [p EXCEPT !.pc = "create", !.todo = todo]
        BY <1>34 DEF ReconcileUser, Unmapped
    <3>2. todo \in Seq(Chats)
        BY OrdersType
    <3>. QED
        BY <3>1, <3>2 DEF TypeOK, PollerOK, PollerType, Pcs
  <2>. QED
      BY <1>34, <2>1, Frame DEF ReconcileUser, TypeOK
<1>35. ASSUME ReconcileRaises PROVE TypeOK'
  <2>1. PollerOK'
      BY <1>35, ReadyType DEF ReconcileRaises, TypeOK, PollerOK
  <2>2. BudgetOK'
      BY <1>35, FaultType DEF ReconcileRaises, TypeOK
  <2>3. SeenOK'
      BY <1>35 DEF ReconcileRaises, TypeOK, SeenOK, PollerOK, PollerType, InHand
  <2>. QED
      BY <1>35, <2>1, <2>2, <2>3, Frame DEF ReconcileRaises, TypeOK
<1>36. ASSUME CreateTopic PROVE TypeOK'
  <2>1. DbOK'
      BY <1>36 DEF CreateTopic, TypeOK, DbOK, PollerOK, PollerType
  <2>2. PollerOK'
    <3>1. p.todo[1] \in Chats /\ Tail(p.todo) \in Seq(Chats)
        BY <1>36, TodoType DEF CreateTopic, TypeOK
    <3>. QED
        BY <1>36, <3>1 DEF CreateTopic, TypeOK, PollerOK, PollerType, Pcs
  <2>. QED
      BY <1>36, <2>1, <2>2, Frame DEF CreateTopic, TypeOK
<1>37. ASSUME TopicFails PROVE TypeOK'
  <2>1. PollerOK'
    <3>1. p.todo # <<>> => Tail(p.todo) \in Seq(Chats)
        BY TodoType DEF TypeOK
    <3>2. NextTopic \in PollerType
        BY DEF NextTopic, TypeOK, PollerOK, PollerType, Pcs
    <3>. QED
        BY <1>37, <3>1, <3>2 DEF TopicFails, TypeOK, PollerOK, PollerType, Pcs
  <2>2. BudgetOK'
      BY <1>37, FaultType DEF TopicFails, TypeOK
  <2>. QED
      BY <1>37, <2>1, <2>2, Frame DEF TopicFails, TypeOK
<1>38. ASSUME Backfill PROVE TypeOK'
  <2>1. PollerOK'
    <3>1. NextTopic \in PollerType
        BY DEF NextTopic, TypeOK, PollerOK, PollerType, Pcs
    <3>2. p' = [p EXCEPT !.pc = "backcursor"] \/ p' = NextTopic
        BY <1>38 DEF Backfill
    <3>. QED
        BY <3>1, <3>2 DEF TypeOK, PollerOK, PollerType, Pcs
  <2>2. BudgetOK'
      BY <1>38, BackfillType
  <2>3. DbOK' /\ SeenOK'
      BY <1>38, BackfillType
  <2>. QED
      BY <1>38, <2>1, <2>2, <2>3, Frame DEF Backfill, TypeOK
<1>39. ASSUME BackfillCursor PROVE TypeOK'
  <2>1. DbOK'
      BY <1>39, NewestCursorType DEF BackfillCursor, TypeOK, DbOK, ControlOK
  <2>2. PollerOK'
      BY <1>39 DEF BackfillCursor, TypeOK, PollerOK, PollerType, Pcs, NextTopic
  <2>. QED
      BY <1>39, <2>1, <2>2, Frame DEF BackfillCursor, TypeOK
<1>40. ASSUME EndReconcile PROVE TypeOK'
  <2>1. PollerOK'
      BY <1>40 DEF EndReconcile, TypeOK, PollerOK, PollerType, Pcs
  <2>. QED
      BY <1>40, <2>1, Frame DEF EndReconcile, TypeOK
<1>42. ASSUME Resync PROVE TypeOK'
    BY <1>42, ResyncKeepsTypes
<1>41. CASE UNCHANGED vars
    BY <1>41, Frame DEF vars, TypeOK
<1>. QED
    BY <1>1, <1>2, <1>3, <1>4, <1>5, <1>6, <1>7, <1>8, <1>9, <1>10, <1>11, <1>12, <1>13,
           <1>14, <1>15, <1>16, <1>17, <1>18, <1>19, <1>20, <1>21, <1>22, <1>23, <1>24,
           <1>25, <1>26, <1>27, <1>28, <1>29, <1>30, <1>31, <1>32, <1>33, <1>34, <1>35,
           <1>36, <1>37, <1>38, <1>39, <1>40, <1>41, <1>42
    DEF Next, Environment, Callbacks, PollUser, Deliver
-----------------------------------------------------------------------------
(* What the poller has in hand.                                            *)

LEMMA ControlStep == TypeOK /\ ControlOK /\ [Next]_vars => ControlOK'
<1>. SUFFICES ASSUME TypeOK, ControlOK, [Next]_vars PROVE ControlOK'
    OBVIOUS
<1>1. ASSUME NEW c \in Chats, NEW k \in PostKinds, Post(c, k) PROVE ControlOK'
    BY <1>1
       DEF Post, ControlOK, TypeOK, PollerOK, PollerType, Ready, NextLive, NextTopic,
           LiveMessage, LiveDone
<1>2. ASSUME NEW c \in Chats, OutboundSend(c) PROVE ControlOK'
    BY <1>2
       DEF OutboundSend, ControlOK, TypeOK, PollerOK, PollerType, Ready, NextLive,
           NextTopic, LiveMessage, LiveDone
<1>3. ASSUME NEW c \in Chats, MarkChatDirty(c) PROVE ControlOK'
    BY <1>3
       DEF MarkChatDirty, ControlOK, TypeOK, PollerOK, PollerType, Ready, NextLive,
           NextTopic, LiveMessage, LiveDone
<1>4. ASSUME NEW c \in Chats, Mute(c) PROVE ControlOK'
    BY <1>4
       DEF Mute, ControlOK, TypeOK, PollerOK, PollerType, Ready, NextLive, NextTopic,
           LiveMessage, LiveDone
<1>5. ASSUME NEW c \in Chats, Unmute(c) PROVE ControlOK'
    BY <1>5
       DEF Unmute, ControlOK, TypeOK, PollerOK, PollerType, Ready, NextLive, NextTopic,
           LiveMessage, LiveDone
<1>6. ASSUME NEW m \in wire, BufferMessage(m) PROVE ControlOK'
    BY <1>6
       DEF BufferMessage, ControlOK, TypeOK, PollerOK, PollerType, Ready, NextLive,
           NextTopic, LiveMessage, LiveDone
<1>7. ASSUME SocketDrop PROVE ControlOK'
    BY <1>7
       DEF SocketDrop, ControlOK, TypeOK, PollerOK, PollerType, Ready, NextLive,
           NextTopic, LiveMessage, LiveDone
<1>8. ASSUME Crash PROVE ControlOK'
    BY <1>8
       DEF Crash, ControlOK, TypeOK, PollerOK, PollerType, Ready, NextLive, NextTopic,
           LiveMessage, LiveDone
<1>9. ASSUME OnStartAgain PROVE ControlOK'
    BY <1>9
       DEF OnStartAgain, ControlOK, TypeOK, PollerOK, PollerType, Ready, NextLive,
           NextTopic, LiveMessage, LiveDone
<1>10. ASSUME HourPasses PROVE ControlOK'
    BY <1>10
       DEF HourPasses, ControlOK, TypeOK, PollerOK, PollerType, Ready, NextLive,
           NextTopic, LiveMessage, LiveDone
<1>11. ASSUME PollBegin PROVE ControlOK'
    BY <1>11
       DEF PollBegin, ControlOK, TypeOK, PollerOK, PollerType, Ready, NextLive,
           NextTopic, LiveMessage, LiveDone
<1>12. ASSUME DrainBufferedMessages PROVE ControlOK'
    BY <1>12
       DEF DrainBufferedMessages, ControlOK, TypeOK, PollerOK, PollerType, Ready,
           NextLive, NextTopic, LiveMessage, LiveDone
<1>13. ASSUME LiveSkipped PROVE ControlOK'
    BY <1>13
       DEF LiveSkipped, ControlOK, TypeOK, PollerOK, PollerType, Ready, NextLive,
           NextTopic, LiveMessage, LiveDone
<1>14. ASSUME LiveUnmapped PROVE ControlOK'
    BY <1>14
       DEF LiveUnmapped, ControlOK, TypeOK, PollerOK, PollerType, Ready, NextLive,
           NextTopic, LiveMessage, LiveDone
<1>15. ASSUME LiveDeliver PROVE ControlOK'
  <2>1. Current[1] \in Chats
      BY <1>15, InHandType DEF LiveDeliver, LiveMessage, TypeOK
  <2>. QED
      BY <1>15, <2>1
         DEF LiveDeliver, ControlOK, TypeOK, PollerOK, PollerType, Ready, NextLive,
             NextTopic, LiveMessage, LiveDone
<1>16. ASSUME LiveSettle PROVE ControlOK'
    BY <1>16
       DEF LiveSettle, ControlOK, TypeOK, PollerOK, PollerType, Ready, NextLive,
           NextTopic, LiveMessage, LiveDone
<1>17. ASSUME SendMessageToTelegram PROVE ControlOK'
    BY <1>17
       DEF SendMessageToTelegram, ControlOK, TypeOK, PollerOK, PollerType, Ready,
           NextLive, NextTopic, LiveMessage, LiveDone
<1>18. ASSUME SendFails PROVE ControlOK'
    BY <1>18
       DEF SendFails, Undelivered, ControlOK, TypeOK, PollerOK, PollerType, Ready, NextLive,
           NextTopic, LiveMessage, LiveDone
<1>19. ASSUME SaveMessageLink PROVE ControlOK'
    BY <1>19
       DEF SaveMessageLink, ControlOK, TypeOK, PollerOK, PollerType, Ready, NextLive,
           NextTopic, LiveMessage, LiveDone
<1>20. ASSUME PollDirtyChats PROVE ControlOK'
    BY <1>20
       DEF PollDirtyChats, ControlOK, TypeOK, PollerOK, PollerType, Ready, NextLive,
           NextTopic, LiveMessage, LiveDone
<1>21. ASSUME RecoverAfterReconnect PROVE ControlOK'
    BY <1>21
       DEF RecoverAfterReconnect, ControlOK, TypeOK, PollerOK, PollerType, Ready,
           NextLive, NextTopic, LiveMessage, LiveDone
<1>22. ASSUME ReconnectStorm PROVE ControlOK'
    BY <1>22
       DEF ReconnectStorm, ControlOK, TypeOK, PollerOK, PollerType, Ready, NextLive,
           NextTopic, LiveMessage, LiveDone
<1>23. ASSUME EndDirty PROVE ControlOK'
    BY <1>23
       DEF EndDirty, ControlOK, TypeOK, PollerOK, PollerType, Ready, NextLive, NextTopic,
           LiveMessage, LiveDone
<1>24. ASSUME EndRecover PROVE ControlOK'
    BY <1>24
       DEF EndRecover, ControlOK, TypeOK, PollerOK, PollerType, Ready, NextLive,
           NextTopic, LiveMessage, LiveDone
<1>25. ASSUME ReadTopic PROVE ControlOK'
    BY <1>25
       DEF ReadTopic, ControlOK, TypeOK, PollerOK, PollerType, Ready, NextLive,
           NextTopic, LiveMessage, LiveDone
<1>26. ASSUME GetMessages PROVE ControlOK'
    BY <1>26
       DEF GetMessages, ControlOK, TypeOK, PollerOK, PollerType, Ready, NextLive,
           NextTopic, LiveMessage, LiveDone
<1>27. ASSUME GetMessagesRaises PROVE ControlOK'
    BY <1>27
       DEF GetMessagesRaises, ControlOK, TypeOK, PollerOK, PollerType, Ready, NextLive,
           NextTopic, LiveMessage, LiveDone
<1>28. ASSUME BatchSkipped PROVE ControlOK'
    BY <1>28
       DEF BatchSkipped, ControlOK, TypeOK, PollerOK, PollerType, Ready, NextLive,
           NextTopic, LiveMessage, LiveDone
<1>29. ASSUME BatchDeliver PROVE ControlOK'
    BY <1>29
       DEF BatchDeliver, ControlOK, TypeOK, PollerOK, PollerType, Ready, NextLive,
           NextTopic, LiveMessage, LiveDone
<1>30. ASSUME BatchSettle PROVE ControlOK'
    BY <1>30
       DEF BatchSettle, ControlOK, TypeOK, PollerOK, PollerType, Ready, NextLive,
           NextTopic, LiveMessage, LiveDone
<1>31. ASSUME FinishChat PROVE ControlOK'
    BY <1>31
       DEF FinishChat, ControlOK, TypeOK, PollerOK, PollerType, Ready, NextLive,
           NextTopic, LiveMessage, LiveDone
<1>32. ASSUME FindTopics PROVE ControlOK'
    BY <1>32
       DEF FindTopics, ControlOK, TypeOK, PollerOK, PollerType, Ready, NextLive,
           NextTopic, LiveMessage, LiveDone
<1>33. ASSUME EndCatchUp PROVE ControlOK'
    BY <1>33
       DEF EndCatchUp, ControlOK, TypeOK, PollerOK, PollerType, Ready, NextLive,
           NextTopic, LiveMessage, LiveDone
<1>34. ASSUME ReconcileUser PROVE ControlOK'
    BY <1>34
       DEF ReconcileUser, ControlOK, TypeOK, PollerOK, PollerType, Ready, NextLive,
           NextTopic, LiveMessage, LiveDone
<1>35. ASSUME ReconcileRaises PROVE ControlOK'
    BY <1>35
       DEF ReconcileRaises, ControlOK, TypeOK, PollerOK, PollerType, Ready, NextLive,
           NextTopic, LiveMessage, LiveDone
<1>36. ASSUME CreateTopic PROVE ControlOK'
    BY <1>36
       DEF CreateTopic, ControlOK, TypeOK, PollerOK, PollerType, Ready, NextLive,
           NextTopic, LiveMessage, LiveDone
<1>37. ASSUME TopicFails PROVE ControlOK'
    BY <1>37
       DEF TopicFails, ControlOK, TypeOK, PollerOK, PollerType, Ready, NextLive,
           NextTopic, LiveMessage, LiveDone
<1>38. ASSUME Backfill PROVE ControlOK'
    BY <1>38
       DEF Backfill, ControlOK, TypeOK, PollerOK, PollerType, Ready, NextLive, NextTopic,
           LiveMessage, LiveDone
<1>39. ASSUME BackfillCursor PROVE ControlOK'
    BY <1>39
       DEF BackfillCursor, ControlOK, TypeOK, PollerOK, PollerType, Ready, NextLive,
           NextTopic, LiveMessage, LiveDone
<1>40. ASSUME EndReconcile PROVE ControlOK'
    BY <1>40
       DEF EndReconcile, ControlOK, TypeOK, PollerOK, PollerType, Ready, NextLive,
           NextTopic, LiveMessage, LiveDone
<1>42. ASSUME Resync PROVE ControlOK'
    BY <1>42, ResyncLeaves DEF ControlOK
<1>41. CASE UNCHANGED vars
    BY <1>41
       DEF vars, ControlOK, TypeOK, PollerOK, PollerType, Ready, NextLive, NextTopic,
           LiveMessage, LiveDone
<1>. QED
    BY <1>1, <1>2, <1>3, <1>4, <1>5, <1>6, <1>7, <1>8, <1>9, <1>10, <1>11, <1>12, <1>13,
           <1>14, <1>15, <1>16, <1>17, <1>18, <1>19, <1>20, <1>21, <1>22, <1>23, <1>24,
           <1>25, <1>26, <1>27, <1>28, <1>29, <1>30, <1>31, <1>32, <1>33, <1>34, <1>35,
           <1>36, <1>37, <1>38, <1>39, <1>40, <1>41, <1>42
    DEF Next, Environment, Callbacks, PollUser, Deliver

-----------------------------------------------------------------------------
(* Redelivery.                                                             *)

\* A step that links nothing, wherever it leaves the poller.
LEMMA LinkFrame ==
    ASSUME LinkOK, linked' = linked, p' = p \/ p'.pc \notin {"send", "link"}
    PROVE  LinkOK'
BY DEF LinkOK, Current

LEMMA LinkStep == TypeOK /\ ControlOK /\ LinkOK /\ [Next]_vars => LinkOK'
<1>. SUFFICES ASSUME TypeOK, ControlOK, LinkOK, [Next]_vars PROVE LinkOK'
    OBVIOUS
<1>1. ASSUME NEW c \in Chats, NEW k \in PostKinds, Post(c, k) PROVE LinkOK'
    BY <1>1, LinkFrame DEF Post, seen, db, budgets
<1>2. ASSUME NEW c \in Chats, OutboundSend(c) PROVE LinkOK'
    BY <1>2, LinkFrame DEF OutboundSend, seen, db, budgets
<1>3. ASSUME NEW c \in Chats, MarkChatDirty(c) PROVE LinkOK'
    BY <1>3, LinkFrame DEF MarkChatDirty, seen, db, budgets
<1>4. ASSUME NEW c \in Chats, Mute(c) PROVE LinkOK'
    BY <1>4, LinkFrame DEF Mute, seen, db, budgets, Command
<1>5. ASSUME NEW c \in Chats, Unmute(c) PROVE LinkOK'
    BY <1>5, LinkFrame DEF Unmute, seen, db, budgets, Command
<1>6. ASSUME NEW m \in wire, BufferMessage(m) PROVE LinkOK'
    BY <1>6, LinkFrame DEF BufferMessage, seen, db, budgets
<1>7. ASSUME SocketDrop PROVE LinkOK'
    BY <1>7, LinkFrame DEF SocketDrop, seen, db, budgets, Fault
<1>8. ASSUME Crash PROVE LinkOK'
    BY <1>8, LinkFrame
       DEF Crash, seen, db, budgets, Ready, LiveMessage, LiveDone, TypeOK, PollerOK,
           PollerType
<1>9. ASSUME OnStartAgain PROVE LinkOK'
    BY <1>9, LinkFrame DEF OnStartAgain, seen, db, budgets
<1>10. ASSUME HourPasses PROVE LinkOK'
    BY <1>10, LinkFrame DEF HourPasses, seen, db, budgets
<1>11. ASSUME PollBegin PROVE LinkOK'
    BY <1>11, LinkFrame
       DEF PollBegin, seen, db, budgets, Ready, LiveMessage, LiveDone, TypeOK, PollerOK,
           PollerType
<1>12. ASSUME DrainBufferedMessages PROVE LinkOK'
    BY <1>12, LinkFrame
       DEF DrainBufferedMessages, seen, db, budgets, Ready, LiveMessage, LiveDone,
           TypeOK, PollerOK, PollerType
<1>13. ASSUME LiveSkipped PROVE LinkOK'
    BY <1>13, LinkFrame
       DEF LiveSkipped, seen, db, budgets, Ready, LiveMessage, LiveDone, TypeOK,
           PollerOK, PollerType
<1>14. ASSUME LiveUnmapped PROVE LinkOK'
    BY <1>14, LinkFrame
       DEF LiveUnmapped, seen, db, budgets, Ready, LiveMessage, LiveDone, TypeOK,
           PollerOK, PollerType
<1>15. ASSUME LiveDeliver PROVE LinkOK'
  <2>1. /\ tg' = tg /\ linked' = linked /\ crashes' = crashes /\ p.pc # "link"
        /\ p'.pc = IF Current \in linked THEN "settle" ELSE "send"
        /\ Current' = Current
      BY <1>15
         DEF LiveDeliver, LiveMessage, Current, db, budgets, seen, TypeOK, PollerOK,
             PollerType
  <2>. QED
      BY <2>1 DEF LinkOK
<1>16. ASSUME LiveSettle PROVE LinkOK'
    BY <1>16, LinkFrame DEF LiveSettle, seen, db, budgets, NextLive, Ready
<1>17. ASSUME SendMessageToTelegram PROVE LinkOK'
  <2>1. Current \in Msgs /\ Current \notin linked
      BY <1>17, InHandType DEF SendMessageToTelegram, ControlOK, TypeOK, LinkOK
  <2>2. /\ linked' = linked /\ crashes' = crashes /\ p.pc = "send"
        /\ p'.pc = "link" /\ Current' = Current
      BY <1>17
         DEF SendMessageToTelegram, Current, db, budgets, TypeOK, PollerOK, PollerType
  <2>. QED
      BY <2>1, <2>2 DEF LinkOK
<1>18. ASSUME SendFails PROVE LinkOK'
    BY <1>18, LinkFrame
       DEF SendFails, Undelivered, seen, db, budgets, NextLive, Ready, Fault, TypeOK, PollerOK,
           PollerType
<1>19. ASSUME SaveMessageLink PROVE LinkOK'
  <2>1. /\ tg' = tg /\ linked' = linked \cup {Current} /\ crashes' = crashes
        /\ p.pc = "link" /\ p'.pc = "settle"
      BY <1>19 DEF SaveMessageLink, budgets, seen, TypeOK, PollerOK, PollerType
  <2>. QED
      BY <2>1 DEF LinkOK
<1>20. ASSUME PollDirtyChats PROVE LinkOK'
    BY <1>20, LinkFrame
       DEF PollDirtyChats, seen, db, budgets, Ready, LiveMessage, LiveDone, TypeOK,
           PollerOK, PollerType
<1>21. ASSUME RecoverAfterReconnect PROVE LinkOK'
    BY <1>21, LinkFrame
       DEF RecoverAfterReconnect, seen, db, budgets, Ready, LiveMessage, LiveDone,
           TypeOK, PollerOK, PollerType
<1>22. ASSUME ReconnectStorm PROVE LinkOK'
    BY <1>22, LinkFrame
       DEF ReconnectStorm, seen, db, budgets, Ready, LiveMessage, LiveDone, TypeOK,
           PollerOK, PollerType
<1>23. ASSUME EndDirty PROVE LinkOK'
    BY <1>23, LinkFrame
       DEF EndDirty, seen, db, budgets, Ready, LiveMessage, LiveDone, TypeOK, PollerOK,
           PollerType
<1>24. ASSUME EndRecover PROVE LinkOK'
    BY <1>24, LinkFrame
       DEF EndRecover, seen, db, budgets, Ready, LiveMessage, LiveDone, TypeOK, PollerOK,
           PollerType
<1>25. ASSUME ReadTopic PROVE LinkOK'
    BY <1>25, LinkFrame
       DEF ReadTopic, seen, db, budgets, Ready, LiveMessage, LiveDone, TypeOK, PollerOK,
           PollerType
<1>26. ASSUME GetMessages PROVE LinkOK'
    BY <1>26, LinkFrame
       DEF GetMessages, seen, db, budgets, Ready, LiveMessage, LiveDone, TypeOK,
           PollerOK, PollerType
<1>27. ASSUME GetMessagesRaises PROVE LinkOK'
    BY <1>27, LinkFrame DEF GetMessagesRaises, seen, db, budgets, Ready, Fault
<1>28. ASSUME BatchSkipped PROVE LinkOK'
    BY <1>28, LinkFrame
       DEF BatchSkipped, seen, db, budgets, Ready, LiveMessage, LiveDone, TypeOK,
           PollerOK, PollerType
<1>29. ASSUME BatchDeliver PROVE LinkOK'
  <2>1. /\ tg' = tg /\ linked' = linked /\ crashes' = crashes /\ p.pc # "link"
        /\ p'.pc = IF Current \in linked THEN "settle" ELSE "send"
        /\ Current' = Current
      BY <1>29
         DEF BatchDeliver, LiveMessage, Current, db, budgets, seen, TypeOK, PollerOK,
             PollerType
  <2>. QED
      BY <2>1 DEF LinkOK
<1>30. ASSUME BatchSettle PROVE LinkOK'
    BY <1>30, LinkFrame
       DEF BatchSettle, seen, db, budgets, Ready, LiveMessage, LiveDone, TypeOK,
           PollerOK, PollerType
<1>31. ASSUME FinishChat PROVE LinkOK'
    BY <1>31, LinkFrame
       DEF FinishChat, seen, db, budgets, Ready, LiveMessage, LiveDone, TypeOK, PollerOK,
           PollerType
<1>32. ASSUME FindTopics PROVE LinkOK'
    BY <1>32, LinkFrame
       DEF FindTopics, seen, db, budgets, Ready, LiveMessage, LiveDone, TypeOK, PollerOK,
           PollerType
<1>33. ASSUME EndCatchUp PROVE LinkOK'
    BY <1>33, LinkFrame
       DEF EndCatchUp, seen, db, budgets, Ready, LiveMessage, LiveDone, TypeOK, PollerOK,
           PollerType
<1>34. ASSUME ReconcileUser PROVE LinkOK'
    BY <1>34, LinkFrame
       DEF ReconcileUser, seen, db, budgets, Ready, LiveMessage, LiveDone, TypeOK,
           PollerOK, PollerType
<1>35. ASSUME ReconcileRaises PROVE LinkOK'
    BY <1>35, LinkFrame DEF ReconcileRaises, seen, db, budgets, Ready, Fault
<1>36. ASSUME CreateTopic PROVE LinkOK'
    BY <1>36, LinkFrame
       DEF CreateTopic, seen, db, budgets, Ready, LiveMessage, LiveDone, TypeOK,
           PollerOK, PollerType
<1>37. ASSUME TopicFails PROVE LinkOK'
    BY <1>37, LinkFrame
       DEF TopicFails, seen, db, budgets, NextTopic, Fault, TypeOK, PollerOK, PollerType
<1>38. ASSUME Backfill PROVE LinkOK'
    BY <1>38, LinkFrame DEF Backfill, NextTopic, TypeOK, PollerOK, PollerType
<1>39. ASSUME BackfillCursor PROVE LinkOK'
    BY <1>39, LinkFrame
       DEF BackfillCursor, seen, db, budgets, NextTopic, TypeOK, PollerOK, PollerType
<1>40. ASSUME EndReconcile PROVE LinkOK'
    BY <1>40, LinkFrame
       DEF EndReconcile, seen, db, budgets, Ready, LiveMessage, LiveDone, TypeOK,
           PollerOK, PollerType
<1>42. ASSUME Resync PROVE LinkOK'
    BY <1>42, ResyncLeaves, LinkFrame
<1>41. CASE UNCHANGED vars
    BY <1>41, LinkFrame DEF vars, seen, db, budgets
<1>. QED
    BY <1>1, <1>2, <1>3, <1>4, <1>5, <1>6, <1>7, <1>8, <1>9, <1>10, <1>11, <1>12, <1>13,
           <1>14, <1>15, <1>16, <1>17, <1>18, <1>19, <1>20, <1>21, <1>22, <1>23, <1>24,
           <1>25, <1>26, <1>27, <1>28, <1>29, <1>30, <1>31, <1>32, <1>33, <1>34, <1>35,
           <1>36, <1>37, <1>38, <1>39, <1>40, <1>41, <1>42
    DEF Next, Environment, Callbacks, PollUser, Deliver

-----------------------------------------------------------------------------
(* The chats reconcile is creating topics for.                             *)

\* A step that creates no topic and leaves the list of chats alone.
LEMMA CreateFrame ==
    ASSUME CreateOK, inbound' = inbound, r' = r,
           ~Creating' \/ (Creating /\ p'.todo = p.todo)
    PROVE  CreateOK'
BY DEF CreateOK

LEMMA CreateStep == TypeOK /\ ControlOK /\ CreateOK /\ [Next]_vars => CreateOK'
<1>. SUFFICES ASSUME TypeOK, ControlOK, CreateOK, [Next]_vars PROVE CreateOK'
    OBVIOUS
<1>1. ASSUME NEW c \in Chats, NEW k \in PostKinds, Post(c, k) PROVE CreateOK'
    BY <1>1, CreateFrame DEF Post, db, sync, Creating
<1>2. ASSUME NEW c \in Chats, OutboundSend(c) PROVE CreateOK'
    BY <1>2, CreateFrame DEF OutboundSend, db, sync, Creating
<1>3. ASSUME NEW c \in Chats, MarkChatDirty(c) PROVE CreateOK'
    BY <1>3, CreateFrame DEF MarkChatDirty, db, sync, Creating
<1>4. ASSUME NEW c \in Chats, Mute(c) PROVE CreateOK'
  <2>1. /\ p' = p /\ inbound[c] # "unmapped" /\ inbound'[c] # "unmapped" /\ r' = r
        /\ \A d \in Chats : d # c => inbound'[d] = inbound[d]
      BY <1>4 DEF Mute, TypeOK, DbOK, sync
  <2>2. \A i \in DOMAIN p.todo : p.todo[i] \in Chats
      BY DEF TypeOK, PollerOK, PollerType
  <2>3. Creating => \A i \in DOMAIN p.todo : inbound'[p.todo[i]] = "unmapped"
      BY <2>1, <2>2 DEF CreateOK
  <2>. QED
      BY <2>1, <2>3 DEF CreateOK, Creating
<1>5. ASSUME NEW c \in Chats, Unmute(c) PROVE CreateOK'
  <2>1. /\ p' = p /\ inbound[c] # "unmapped" /\ inbound'[c] # "unmapped" /\ r' = r
        /\ \A d \in Chats : d # c => inbound'[d] = inbound[d]
      BY <1>5 DEF Unmute, TypeOK, DbOK, sync
  <2>2. \A i \in DOMAIN p.todo : p.todo[i] \in Chats
      BY DEF TypeOK, PollerOK, PollerType
  <2>3. Creating => \A i \in DOMAIN p.todo : inbound'[p.todo[i]] = "unmapped"
      BY <2>1, <2>2 DEF CreateOK
  <2>. QED
      BY <2>1, <2>3 DEF CreateOK, Creating
<1>6. ASSUME NEW m \in wire, BufferMessage(m) PROVE CreateOK'
    BY <1>6, CreateFrame DEF BufferMessage, db, sync, Creating
<1>7. ASSUME SocketDrop PROVE CreateOK'
    BY <1>7, CreateFrame DEF SocketDrop, db, sync, Creating
<1>8. ASSUME Crash PROVE CreateOK'
    BY <1>8, CreateFrame
       DEF Crash, CreateOK, Ready, NoResync, Creating
<1>9. ASSUME OnStartAgain PROVE CreateOK'
    BY <1>9, CreateFrame DEF OnStartAgain, db, sync, Creating
<1>10. ASSUME HourPasses PROVE CreateOK'
    BY <1>10, CreateFrame DEF HourPasses, db, sync, Creating
<1>11. ASSUME PollBegin PROVE CreateOK'
    BY <1>11, CreateFrame
       DEF PollBegin, db, sync, Ready, NextLive, LiveMessage, LiveDone, Creating, TypeOK,
           PollerOK, PollerType
<1>12. ASSUME DrainBufferedMessages PROVE CreateOK'
    BY <1>12, CreateFrame
       DEF DrainBufferedMessages, db, sync, Ready, NextLive, LiveMessage, LiveDone, Creating,
           TypeOK, PollerOK, PollerType
<1>13. ASSUME LiveSkipped PROVE CreateOK'
    BY <1>13, CreateFrame
       DEF LiveSkipped, db, sync, Ready, NextLive, LiveMessage, LiveDone, Creating, TypeOK,
           PollerOK, PollerType
<1>14. ASSUME LiveUnmapped PROVE CreateOK'
    BY <1>14, CreateFrame
       DEF LiveUnmapped, db, sync, Ready, NextLive, LiveMessage, LiveDone, Creating, TypeOK,
           PollerOK, PollerType
<1>15. ASSUME LiveDeliver PROVE CreateOK'
    BY <1>15, CreateFrame
       DEF LiveDeliver, db, sync, Ready, NextLive, LiveMessage, LiveDone, Creating, TypeOK,
           PollerOK, PollerType
<1>16. ASSUME LiveSettle PROVE CreateOK'
    BY <1>16, CreateFrame
       DEF LiveSettle, db, sync, Ready, NextLive, LiveMessage, LiveDone, Creating, TypeOK,
           PollerOK, PollerType
<1>17. ASSUME SendMessageToTelegram PROVE CreateOK'
    BY <1>17, CreateFrame
       DEF SendMessageToTelegram, db, sync, Ready, NextLive, LiveMessage, LiveDone, Creating,
           TypeOK, PollerOK, PollerType
<1>18. ASSUME SendFails PROVE CreateOK'
    BY <1>18, CreateFrame
       DEF SendFails, Undelivered, db, sync, Ready, NextLive, LiveMessage, LiveDone, Creating, TypeOK,
           PollerOK, PollerType
<1>19. ASSUME SaveMessageLink PROVE CreateOK'
    BY <1>19, CreateFrame
       DEF SaveMessageLink, db, sync, Ready, NextLive, LiveMessage, LiveDone, Creating, TypeOK,
           PollerOK, PollerType
<1>20. ASSUME PollDirtyChats PROVE CreateOK'
    BY <1>20, CreateFrame
       DEF PollDirtyChats, db, sync, Ready, NextLive, LiveMessage, LiveDone, Creating, TypeOK,
           PollerOK, PollerType
<1>21. ASSUME RecoverAfterReconnect PROVE CreateOK'
    BY <1>21, CreateFrame
       DEF RecoverAfterReconnect, db, sync, Ready, NextLive, LiveMessage, LiveDone, Creating,
           TypeOK, PollerOK, PollerType
<1>22. ASSUME ReconnectStorm PROVE CreateOK'
    BY <1>22, CreateFrame
       DEF ReconnectStorm, db, sync, Ready, NextLive, LiveMessage, LiveDone, Creating, TypeOK,
           PollerOK, PollerType
<1>23. ASSUME EndDirty PROVE CreateOK'
    BY <1>23, CreateFrame
       DEF EndDirty, db, sync, Ready, NextLive, LiveMessage, LiveDone, Creating, TypeOK,
           PollerOK, PollerType
<1>24. ASSUME EndRecover PROVE CreateOK'
    BY <1>24, CreateFrame
       DEF EndRecover, db, sync, Ready, NextLive, LiveMessage, LiveDone, Creating, TypeOK,
           PollerOK, PollerType
<1>25. ASSUME ReadTopic PROVE CreateOK'
    BY <1>25, CreateFrame
       DEF ReadTopic, db, sync, Ready, NextLive, LiveMessage, LiveDone, Creating, TypeOK,
           PollerOK, PollerType
<1>26. ASSUME GetMessages PROVE CreateOK'
    BY <1>26, CreateFrame
       DEF GetMessages, db, sync, Ready, NextLive, LiveMessage, LiveDone, Creating, TypeOK,
           PollerOK, PollerType
<1>27. ASSUME GetMessagesRaises PROVE CreateOK'
    BY <1>27, CreateFrame
       DEF GetMessagesRaises, db, sync, Ready, NextLive, LiveMessage, LiveDone, Creating,
           TypeOK, PollerOK, PollerType
<1>28. ASSUME BatchSkipped PROVE CreateOK'
    BY <1>28, CreateFrame
       DEF BatchSkipped, db, sync, Ready, NextLive, LiveMessage, LiveDone, Creating, TypeOK,
           PollerOK, PollerType
<1>29. ASSUME BatchDeliver PROVE CreateOK'
    BY <1>29, CreateFrame
       DEF BatchDeliver, db, sync, Ready, NextLive, LiveMessage, LiveDone, Creating, TypeOK,
           PollerOK, PollerType
<1>30. ASSUME BatchSettle PROVE CreateOK'
    BY <1>30, CreateFrame
       DEF BatchSettle, db, sync, Ready, NextLive, LiveMessage, LiveDone, Creating, TypeOK,
           PollerOK, PollerType
<1>31. ASSUME FinishChat PROVE CreateOK'
    BY <1>31, CreateFrame
       DEF FinishChat, db, sync, Ready, NextLive, LiveMessage, LiveDone, Creating, TypeOK,
           PollerOK, PollerType
<1>32. ASSUME FindTopics PROVE CreateOK'
    BY <1>32, CreateFrame
       DEF FindTopics, db, sync, Ready, NextLive, LiveMessage, LiveDone, Creating, TypeOK,
           PollerOK, PollerType
<1>33. ASSUME EndCatchUp PROVE CreateOK'
    BY <1>33, CreateFrame
       DEF EndCatchUp, db, sync, Ready, NextLive, LiveMessage, LiveDone, Creating, TypeOK,
           PollerOK, PollerType
<1>34. ASSUME ReconcileUser PROVE CreateOK'
  <2>1. PICK todo \in Orders(Unmapped) : p' = [p EXCEPT !.pc = "create", !.todo = todo]
      BY <1>34 DEF ReconcileUser
  <2>2. p'.todo = todo /\ inbound' = inbound /\ r' = r
      BY <1>34, <2>1 DEF ReconcileUser, db, sync, TypeOK, PollerOK, PollerType
  <2>3. /\ \A i \in DOMAIN todo : inbound[todo[i]] = "unmapped"
        /\ \A i, j \in DOMAIN todo : i # j => todo[i] # todo[j]
      BY DEF Orders, Unmapped
  <2>. QED
      BY <2>2, <2>3 DEF CreateOK
<1>35. ASSUME ReconcileRaises PROVE CreateOK'
    BY <1>35, CreateFrame
       DEF ReconcileRaises, db, sync, Ready, NextLive, LiveMessage, LiveDone, Creating, TypeOK,
           PollerOK, PollerType
<1>36. ASSUME CreateTopic PROVE CreateOK'
  <2>1. /\ p.todo \in Seq(Chats) /\ p.todo # <<>> /\ Creating /\ p'.todo = Tail(p.todo)
        /\ \A d \in Chats : d # p.todo[1] => inbound'[d] = inbound[d]
        /\ inbound'[p.todo[1]] = "enabled" /\ r' = r
      BY <1>36 DEF CreateTopic, Creating, TypeOK, DbOK, PollerOK, PollerType, sync
  <2>2. \A i \in DOMAIN Tail(p.todo) : /\ i + 1 \in DOMAIN p.todo /\ i + 1 # 1
                                      /\ Tail(p.todo)[i] = p.todo[i + 1]
                                      /\ p.todo[i + 1] \in Chats
      BY <2>1
  <2>3. 1 \in DOMAIN p.todo
      BY <2>1
  <2>4. r.pc # "none" => r.chat \in Chats /\ inbound'[r.chat] # "unmapped"
      BY <2>1 DEF CreateOK
  <2>5. /\ \A i \in DOMAIN p'.todo : inbound'[p'.todo[i]] = "unmapped"
        /\ \A i, j \in DOMAIN p'.todo : i # j => p'.todo[i] # p'.todo[j]
      BY <2>1, <2>2, <2>3 DEF CreateOK
  <2>. QED
      BY <2>1, <2>4, <2>5 DEF CreateOK
<1>37. ASSUME TopicFails PROVE CreateOK'
  <2>1. inbound' = inbound /\ r' = r /\ Creating /\ p.todo \in Seq(Chats)
      BY <1>37 DEF TopicFails, db, sync, Creating, TypeOK, PollerOK, PollerType
  <2>2. CASE p'.todo = p.todo
      BY <2>1, <2>2, CreateFrame
  <2>3. CASE p.todo # <<>> /\ p'.todo = Tail(p.todo)
    <3>1. \A i \in DOMAIN Tail(p.todo) : /\ i + 1 \in DOMAIN p.todo
                                        /\ Tail(p.todo)[i] = p.todo[i + 1]
        BY <2>1, <2>3
    <3>2. /\ \A i \in DOMAIN p.todo : inbound[p.todo[i]] = "unmapped"
          /\ \A i, j \in DOMAIN p.todo : i # j => p.todo[i] # p.todo[j]
        BY <2>1 DEF CreateOK
    <3>3. \A i, j \in DOMAIN Tail(p.todo) : i # j => i + 1 # j + 1
        BY <2>1, <2>3
    <3>. QED
        BY <2>1, <2>3, <3>1, <3>2, <3>3 DEF CreateOK
  <2>. QED
      BY <1>37, <2>2, <2>3 DEF TopicFails, NextTopic, TypeOK, PollerOK, PollerType
<1>38. ASSUME Backfill PROVE CreateOK'
    BY <1>38, CreateFrame
       DEF Backfill, db, sync, NextTopic, Creating, TypeOK, PollerOK, PollerType
<1>39. ASSUME BackfillCursor PROVE CreateOK'
    BY <1>39, CreateFrame
       DEF BackfillCursor, db, sync, NextTopic, Creating, TypeOK, PollerOK, PollerType
<1>40. ASSUME EndReconcile PROVE CreateOK'
    BY <1>40, CreateFrame
       DEF EndReconcile, db, sync, Ready, NextLive, LiveMessage, LiveDone, Creating, TypeOK,
           PollerOK, PollerType
<1>42. ASSUME Resync PROVE CreateOK'
  <2>0. p' = p /\ (Creating' <=> Creating) /\ r \in ResyncType
      BY <1>42, ResyncLeaves DEF Creating, TypeOK, SyncOK
  <2>1. ASSUME NEW c \in Chats, ResyncBegin(c) PROVE CreateOK'
      BY <2>0, <2>1 DEF ResyncBegin, CreateOK, db
  <2>2. CASE ResyncCreate
    <3>1. /\ r.chat \in Chats /\ inbound[r.chat] # "unmapped" /\ r'.chat \in {r.chat, NoChat}
          /\ inbound'[r.chat] # "unmapped" /\ (r'.pc # "none" => r'.chat = r.chat)
          /\ \A d \in Chats : d # r.chat => inbound'[d] = inbound[d]
        BY <2>0, <2>2 DEF ResyncCreate, CreateOK, NoResync, ResyncType, TypeOK, DbOK
    <3>2. \A i \in DOMAIN p.todo : p.todo[i] \in Chats
        BY DEF TypeOK, PollerOK, PollerType
    <3>. QED
        BY <2>0, <3>1, <3>2 DEF CreateOK
  <2>3. CASE ResyncBackfill
      BY <2>0, <2>3 DEF ResyncBackfill, CreateOK, NoResync, ResyncType
  <2>4. CASE ResyncCursor
      BY <2>0, <2>4 DEF ResyncCursor, CreateOK, NoResync
  <2>5. CASE ResyncFails
      BY <2>0, <2>5 DEF ResyncFails, CreateOK, NoResync, db
  <2>. QED
      BY <1>42, <2>1, <2>2, <2>3, <2>4, <2>5 DEF Resync
<1>41. CASE UNCHANGED vars
    BY <1>41, CreateFrame DEF vars, db, sync, Creating
<1>. QED
    BY <1>1, <1>2, <1>3, <1>4, <1>5, <1>6, <1>7, <1>8, <1>9, <1>10, <1>11, <1>12, <1>13,
           <1>14, <1>15, <1>16, <1>17, <1>18, <1>19, <1>20, <1>21, <1>22, <1>23, <1>24,
           <1>25, <1>26, <1>27, <1>28, <1>29, <1>30, <1>31, <1>32, <1>33, <1>34, <1>35,
           <1>36, <1>37, <1>38, <1>39, <1>40, <1>41, <1>42
    DEF Next, Environment, Callbacks, PollUser, Deliver

-----------------------------------------------------------------------------
(* /mute.                                                                  *)

\* A step that leaves chats and topics alone and the poller where it was, or with
\* no topic read, changes nothing for the texts written under a mute.
LEMMA QuietFrame ==
    ASSUME TypeOK, QuietOK, UNCHANGED <<hist, inbound, since, quiet>>,
           p' = p \/ p'.pc \notin {"fetch", "batch", "send", "link", "settle"}
    PROVE  QuietOK'
BY DEF QuietOK, QuietTopics, QuietPolls, QuietSends, Polling, Current

\* The same while the poller keeps to the topic it has read.
LEMMA QuietPoll ==
    ASSUME TypeOK, ControlOK, QuietOK, UNCHANGED <<hist, inbound, since, quiet>>,
           Polling, p.pc # "fetch", p'.pc \in {"batch", "settle"},
           p'.mode = p.mode, p'.chat = p.chat, p'.read = p.read, p'.since = p.since,
           p'.batch = p.batch \/ (p.batch # <<>> /\ p'.batch = Tail(p.batch))
    PROVE  QuietOK'
<1>1. \A i \in DOMAIN p'.batch : p'.batch[i][1] = p'.chat
    <2>1. p.batch \in Seq(Msgs)
        BY DEF TypeOK, PollerOK, PollerType
    <2>2. \A i \in DOMAIN p.batch : p.batch[i][1] = p.chat
        BY DEF QuietOK, QuietTopics, QuietPolls, QuietSends
    <2>3. CASE p'.batch = p.batch
        BY <2>2, <2>3
    <2>4. CASE p.batch # <<>> /\ p'.batch = Tail(p.batch)
        BY <2>1, <2>2, <2>4
    <2>. QED
        BY <2>3, <2>4
<1>. QED
    BY <1>1 DEF QuietOK, QuietTopics, QuietPolls, QuietSends, Polling

\* A chat that grows leaves the texts already written where they are.
LEMMA QuietGrows ==
    ASSUME TypeOK, ControlOK, QuietOK, NEW c \in Chats, NEW k \in Kinds,
           hist' = [hist EXCEPT ![c] = Append(hist[c], k)], UNCHANGED <<inbound, since, p>>,
           quiet' = quiet \/ (inbound[c] = "muted" /\ quiet' = quiet \cup {<<c, Len(hist[c]) + 1>>})
    PROVE  QuietOK'
<1>1. \A d \in Chats : /\ Len(hist[d]) \in Nat
                      /\ Len(hist'[d]) = IF d = c THEN Len(hist[d]) + 1 ELSE Len(hist[d])
    BY DEF TypeOK, MaxOK
<1>2. \A m \in quiet : m[1] \in Chats /\ m[2] \in Nat
    BY BoundsAssumption DEF TypeOK, SeenOK, Msgs, Ids
<1>3. p.read \in Nat /\ p.since \in Nat
    BY DEF TypeOK, PollerOK, PollerType
<1>4. \A m \in quiet' : /\ m[2] <= Len(hist'[m[1]]) /\ inbound'[m[1]] # "unmapped"
                        /\ inbound'[m[1]] = "enabled" => m[2] <= since'[m[1]]
    BY <1>1, <1>2 DEF QuietOK, QuietTopics, QuietPolls, QuietSends
<1>5. ASSUME Polling
      PROVE  /\ p.read <= Len(hist'[p.chat])
             /\ \A m \in quiet' : m[1] = p.chat /\ m[2] <= p.read => m[2] <= p.since
             /\ p.pc # "fetch" => \A i \in DOMAIN p.batch : p.batch[i][1] = p.chat
    <2>1. p.chat \in Chats /\ p.read <= Len(hist[p.chat])
        BY <1>5 DEF Polling, ControlOK, QuietOK, QuietTopics, QuietPolls, QuietSends
    <2>. QED
        BY <1>1, <1>2, <1>3, <1>5, <2>1 DEF QuietOK, QuietTopics, QuietPolls, QuietSends
<1>6. ASSUME p.pc \in {"send", "link"}
      PROVE  /\ p.read <= Len(hist'[Current[1]])
             /\ Current \in quiet' => Current[2] > p.read
    <2>1. Current[1] \in Chats /\ p.read <= Len(hist[Current[1]])
        BY <1>6, InHandType
           DEF ControlOK, QuietOK, QuietTopics, QuietPolls, QuietSends, TypeOK
    <2>. QED
        BY <1>1, <1>2, <1>3, <1>6, <2>1 DEF QuietOK, QuietTopics, QuietPolls, QuietSends
<1>7. p' = p /\ Current' = Current /\ (Polling' <=> Polling)
    BY DEF Current, Polling
<1>. QED
  <2>1. QuietTopics'
      BY <1>4 DEF QuietTopics
  <2>2. QuietPolls'
      BY <1>5, <1>7 DEF QuietPolls
  <2>3. QuietSends'
      BY <1>6, <1>7 DEF QuietSends
  <2>. QED
      BY <2>1, <2>2, <2>3 DEF QuietOK

LEMMA QuietStep == TypeOK /\ ControlOK /\ CreateOK /\ QuietOK /\ [Next]_vars => QuietOK'
<1>. SUFFICES ASSUME TypeOK, ControlOK, CreateOK, QuietOK, [Next]_vars PROVE QuietOK'
    OBVIOUS
<1>1. ASSUME NEW c \in Chats, NEW k \in PostKinds, Post(c, k) PROVE QuietOK'
  <2>1. k \in Kinds
      BY BoundsAssumption DEF Kinds
  <2>2. /\ hist' = [hist EXCEPT ![c] = Append(hist[c], k)] /\ UNCHANGED <<inbound, since, p>>
        /\ quiet' = quiet \/ (inbound[c] = "muted" /\ quiet' = quiet \cup {<<c, Len(hist[c]) + 1>>})
      BY <1>1 DEF Post, db
  <2>. QED
      BY <2>1, <2>2, QuietGrows
<1>2. ASSUME NEW c \in Chats, OutboundSend(c) PROVE QuietOK'
  <2>1. "own" \in Kinds
      BY DEF Kinds
  <2>2. /\ hist' = [hist EXCEPT ![c] = Append(hist[c], "own")] /\ UNCHANGED <<inbound, since, p, quiet>>
      BY <1>2 DEF OutboundSend, db, seen
  <2>. QED
      BY <2>1, <2>2, QuietGrows
<1>3. ASSUME NEW c \in Chats, MarkChatDirty(c) PROVE QuietOK'
    BY <1>3, QuietFrame DEF MarkChatDirty, maxSide, db, seen
<1>4. ASSUME NEW c \in Chats, Mute(c) PROVE QuietOK'
  <2>1. /\ UNCHANGED <<hist, since, quiet, p>>
        /\ \A d \in Chats : inbound'[d] = IF d = c THEN "muted" ELSE inbound[d]
      BY <1>4 DEF Mute, maxSide, seen, TypeOK, DbOK
  <2>2. \A m \in quiet : m[1] \in Chats
      BY DEF TypeOK, SeenOK, Msgs
  <2>. QED
      BY <2>1, <2>2 DEF QuietOK, QuietTopics, QuietPolls, QuietSends, Polling, Current
<1>5. ASSUME NEW c \in Chats, Unmute(c) PROVE QuietOK'
  <2>1. /\ UNCHANGED <<hist, quiet, p>>
        /\ \A d \in Chats : /\ inbound'[d] = IF d = c THEN "enabled" ELSE inbound[d]
                            /\ since'[d] = IF d = c THEN Len(hist[c]) ELSE since[d]
      BY <1>5 DEF Unmute, maxSide, seen, TypeOK, DbOK
  <2>2. \A m \in quiet : m[1] \in Chats
      BY DEF TypeOK, SeenOK, Msgs
  <2>. QED
      BY <2>1, <2>2 DEF QuietOK, QuietTopics, QuietPolls, QuietSends, Polling, Current
<1>6. ASSUME NEW m \in wire, BufferMessage(m) PROVE QuietOK'
    BY <1>6, QuietFrame DEF BufferMessage, maxSide, db, seen
<1>7. ASSUME SocketDrop PROVE QuietOK'
    BY <1>7, QuietFrame DEF SocketDrop, maxSide, db, seen
<1>8. ASSUME Crash PROVE QuietOK'
    BY <1>8, QuietFrame
       DEF Crash, maxSide, db, seen, Ready, NextLive, LiveMessage, LiveDone, TypeOK,
           PollerOK, PollerType
<1>9. ASSUME OnStartAgain PROVE QuietOK'
    BY <1>9, QuietFrame DEF OnStartAgain, maxSide, db, seen
<1>10. ASSUME HourPasses PROVE QuietOK'
    BY <1>10, QuietFrame DEF HourPasses, maxSide, db, seen
<1>11. ASSUME PollBegin PROVE QuietOK'
    BY <1>11, QuietFrame
       DEF PollBegin, maxSide, db, seen, Ready, NextLive, LiveMessage, LiveDone, TypeOK,
           PollerOK, PollerType
<1>12. ASSUME DrainBufferedMessages PROVE QuietOK'
    BY <1>12, QuietFrame
       DEF DrainBufferedMessages, maxSide, db, seen, Ready, NextLive, LiveMessage,
           LiveDone, TypeOK, PollerOK, PollerType
<1>13. ASSUME LiveSkipped PROVE QuietOK'
    BY <1>13, QuietFrame
       DEF LiveSkipped, maxSide, db, seen, Ready, NextLive, LiveMessage, LiveDone,
           TypeOK, PollerOK, PollerType
<1>14. ASSUME LiveUnmapped PROVE QuietOK'
    BY <1>14, QuietFrame
       DEF LiveUnmapped, maxSide, db, seen, Ready, NextLive, LiveMessage, LiveDone,
           TypeOK, PollerOK, PollerType
<1>15. ASSUME LiveDeliver PROVE QuietOK'
  <2>1. Current \in Msgs /\ Current[1] \in Chats
      BY <1>15, InHandType DEF LiveDeliver, LiveMessage, TypeOK
  <2>2. /\ UNCHANGED <<hist, inbound, since, quiet>> /\ Current' = Current
        /\ p'.pc \in {"settle", "send"} /\ p'.mode = "live" /\ p'.read = Len(hist[Current[1]])
      BY <1>15
         DEF LiveDeliver, LiveMessage, ControlOK, Current, maxSide, db, seen, TypeOK,
             PollerOK, PollerType
  <2>3. Current \notin quiet
      BY <1>15, <2>1, BoundsAssumption
         DEF LiveDeliver, QuietOK, QuietTopics, QuietPolls, QuietSends, TypeOK, DbOK,
             Msgs, Ids
  <2>4. Len(hist[Current[1]]) \in Nat
      BY <2>1 DEF TypeOK, MaxOK
  <2>. QED
      BY <2>2, <2>3, <2>4 DEF QuietOK, QuietTopics, QuietPolls, QuietSends, Polling
<1>16. ASSUME LiveSettle PROVE QuietOK'
    BY <1>16, QuietFrame
       DEF LiveSettle, maxSide, db, seen, Ready, NextLive, LiveMessage, LiveDone, TypeOK,
           PollerOK, PollerType
<1>17. ASSUME SendMessageToTelegram PROVE QuietOK'
  <2>1. /\ UNCHANGED <<hist, inbound, since, quiet>> /\ p.pc = "send" /\ p'.pc = "link"
        /\ p'.mode = p.mode /\ p'.chat = p.chat /\ p'.read = p.read /\ p'.since = p.since
        /\ p'.batch = p.batch
      BY <1>17 DEF SendMessageToTelegram, maxSide, db, seen, TypeOK, PollerOK, PollerType
  <2>. QED
      BY <2>1 DEF QuietOK, QuietTopics, QuietPolls, QuietSends, Polling, Current
<1>18. ASSUME SendFails PROVE QuietOK'
  <2>1. CASE p.mode = "live"
      BY <1>18, <2>1, QuietFrame
         DEF SendFails, Undelivered, NextLive, Ready, maxSide, db, seen, TypeOK, PollerOK, PollerType
  <2>2. CASE p.mode # "live"
    <3>1. /\ UNCHANGED <<hist, inbound, since, quiet>> /\ Polling /\ p.pc # "fetch"
          /\ p'.pc = "batch" /\ p'.mode = p.mode /\ p'.chat = p.chat
          /\ p'.read = p.read /\ p'.since = p.since
          /\ p.batch # <<>> /\ p'.batch = Tail(p.batch)
        BY <1>18, <2>2
           DEF SendFails, Undelivered, Polling, ControlOK, maxSide, db, seen, TypeOK, PollerOK,
               PollerType
    <3>. QED
        BY <3>1, QuietPoll
  <2>. QED
      BY <2>1, <2>2
<1>19. ASSUME SaveMessageLink PROVE QuietOK'
  <2>1. /\ UNCHANGED <<hist, inbound, since, quiet>> /\ p.pc = "link" /\ p'.pc = "settle"
        /\ p'.mode = p.mode /\ p'.chat = p.chat /\ p'.read = p.read /\ p'.since = p.since
        /\ p'.batch = p.batch
      BY <1>19 DEF SaveMessageLink, maxSide, db, seen, TypeOK, PollerOK, PollerType
  <2>. QED
      BY <2>1 DEF QuietOK, QuietTopics, QuietPolls, QuietSends, Polling
<1>20. ASSUME PollDirtyChats PROVE QuietOK'
    BY <1>20, QuietFrame
       DEF PollDirtyChats, maxSide, db, seen, Ready, NextLive, LiveMessage, LiveDone,
           TypeOK, PollerOK, PollerType
<1>21. ASSUME RecoverAfterReconnect PROVE QuietOK'
    BY <1>21, QuietFrame
       DEF RecoverAfterReconnect, maxSide, db, seen, Ready, NextLive, LiveMessage,
           LiveDone, TypeOK, PollerOK, PollerType
<1>22. ASSUME ReconnectStorm PROVE QuietOK'
    BY <1>22, QuietFrame
       DEF ReconnectStorm, maxSide, db, seen, Ready, NextLive, LiveMessage, LiveDone,
           TypeOK, PollerOK, PollerType
<1>23. ASSUME EndDirty PROVE QuietOK'
    BY <1>23, QuietFrame
       DEF EndDirty, maxSide, db, seen, Ready, NextLive, LiveMessage, LiveDone, TypeOK,
           PollerOK, PollerType
<1>24. ASSUME EndRecover PROVE QuietOK'
    BY <1>24, QuietFrame
       DEF EndRecover, maxSide, db, seen, Ready, NextLive, LiveMessage, LiveDone, TypeOK,
           PollerOK, PollerType
<1>25. ASSUME ReadTopic PROVE QuietOK'
  <2>1. CASE inbound[p.todo[1]] # "enabled"
      BY <1>25, <2>1, QuietFrame
         DEF ReadTopic, maxSide, db, seen, TypeOK, PollerOK, PollerType
  <2>2. CASE inbound[p.todo[1]] = "enabled"
    <3>1. p.todo[1] \in Chats
        BY <1>25, TodoType DEF ReadTopic, TypeOK
    <3>2. /\ UNCHANGED <<hist, inbound, since, quiet>>
          /\ p'.pc = "fetch" /\ p'.chat = p.todo[1]
          /\ p'.since = since[p.todo[1]] /\ p'.read = Len(hist[p.todo[1]])
        BY <1>25, <2>2 DEF ReadTopic, maxSide, db, seen, TypeOK, PollerOK, PollerType
    <3>3. Len(hist[p.todo[1]]) \in Nat
        BY <3>1 DEF TypeOK, MaxOK
    <3>. QED
        BY <2>2, <3>2, <3>3 DEF QuietOK, QuietTopics, QuietPolls, QuietSends, Polling
  <2>. QED
      BY <2>1, <2>2
<1>26. ASSUME GetMessages PROVE QuietOK'
  <2>1. \A i \in DOMAIN Fetched(p.chat, p.pos, HistoryLimit) :
           Fetched(p.chat, p.pos, HistoryLimit)[i][1] = p.chat
    <3>1. p.chat \in Chats /\ p.pos \in Nat /\ HistoryLimit \in Nat /\ MaxOK
        BY <1>26, BoundsAssumption
           DEF GetMessages, ControlOK, TypeOK, PollerOK, PollerType
    <3>. QED
        BY <3>1, FetchedType
  <2>2. /\ UNCHANGED <<hist, inbound, since, quiet>> /\ Polling
        /\ p'.pc = "batch" /\ p'.mode = p.mode /\ p'.chat = p.chat
        /\ p'.read = p.read /\ p'.since = p.since
        /\ p'.batch = Fetched(p.chat, p.pos, HistoryLimit)
      BY <1>26
         DEF GetMessages, Polling, ControlOK, maxSide, db, seen, TypeOK, PollerOK,
             PollerType
  <2>. QED
      BY <2>1, <2>2 DEF QuietOK, QuietTopics, QuietPolls, QuietSends, Polling
<1>27. ASSUME GetMessagesRaises PROVE QuietOK'
    BY <1>27, QuietFrame
       DEF GetMessagesRaises, maxSide, db, seen, Ready, NextLive, LiveMessage, LiveDone,
           TypeOK, PollerOK, PollerType
<1>28. ASSUME BatchSkipped PROVE QuietOK'
  <2>1. /\ UNCHANGED <<hist, inbound, since, quiet>> /\ Polling /\ p.pc # "fetch"
        /\ p'.pc = "batch" /\ p'.mode = p.mode /\ p'.chat = p.chat
        /\ p'.read = p.read /\ p'.since = p.since /\ p.batch # <<>> /\ p'.batch = Tail(p.batch)
      BY <1>28
         DEF BatchSkipped, Polling, ControlOK, maxSide, db, seen, TypeOK, PollerOK,
             PollerType
  <2>. QED
      BY <2>1, QuietPoll
<1>29. ASSUME BatchDeliver PROVE QuietOK'
  <2>1. Current \in Msgs /\ Current[1] = p.chat
      BY <1>29, InHandType
         DEF BatchDeliver, Current, QuietOK, QuietTopics, QuietPolls, QuietSends,
             Polling, ControlOK, TypeOK, PollerOK, PollerType
  <2>2. /\ UNCHANGED <<hist, inbound, since, quiet>> /\ Polling /\ p.pc = "batch"
        /\ p'.pc \in {"settle", "send"} /\ p'.mode = p.mode /\ p'.chat = p.chat
        /\ p'.read = p.read /\ p'.since = p.since /\ p'.batch = p.batch
        /\ Current[2] > p.since
      BY <1>29
         DEF BatchDeliver, Polling, ControlOK, maxSide, db, seen, TypeOK, PollerOK,
             PollerType
  <2>3. Current[2] \in Nat /\ p.read \in Nat /\ p.since \in Nat
      BY <2>1, BoundsAssumption DEF Msgs, Ids, TypeOK, PollerOK, PollerType
  <2>. QED
      BY <2>1, <2>2, <2>3
         DEF QuietOK, QuietTopics, QuietPolls, QuietSends, Polling, Current
<1>30. ASSUME BatchSettle PROVE QuietOK'
  <2>1. /\ UNCHANGED <<hist, inbound, since, quiet>> /\ Polling /\ p.pc # "fetch"
        /\ p'.pc = "batch" /\ p'.mode = p.mode /\ p'.chat = p.chat
        /\ p'.read = p.read /\ p'.since = p.since /\ p.batch # <<>> /\ p'.batch = Tail(p.batch)
      BY <1>30
         DEF BatchSettle, Polling, ControlOK, maxSide, db, seen, TypeOK, PollerOK,
             PollerType
  <2>. QED
      BY <2>1, QuietPoll
<1>31. ASSUME FinishChat PROVE QuietOK'
    BY <1>31, QuietFrame
       DEF FinishChat, maxSide, db, seen, Ready, NextLive, LiveMessage, LiveDone, TypeOK,
           PollerOK, PollerType
<1>32. ASSUME FindTopics PROVE QuietOK'
    BY <1>32, QuietFrame
       DEF FindTopics, maxSide, db, seen, Ready, NextLive, LiveMessage, LiveDone, TypeOK,
           PollerOK, PollerType
<1>33. ASSUME EndCatchUp PROVE QuietOK'
    BY <1>33, QuietFrame
       DEF EndCatchUp, maxSide, db, seen, Ready, NextLive, LiveMessage, LiveDone, TypeOK,
           PollerOK, PollerType
<1>34. ASSUME ReconcileUser PROVE QuietOK'
    BY <1>34, QuietFrame
       DEF ReconcileUser, maxSide, db, seen, Ready, NextLive, LiveMessage, LiveDone,
           TypeOK, PollerOK, PollerType
<1>35. ASSUME ReconcileRaises PROVE QuietOK'
    BY <1>35, QuietFrame
       DEF ReconcileRaises, maxSide, db, seen, Ready, NextLive, LiveMessage, LiveDone,
           TypeOK, PollerOK, PollerType
<1>36. ASSUME CreateTopic PROVE QuietOK'
  <2>1. /\ UNCHANGED <<hist, since, quiet>> /\ p.todo[1] \in Chats
        /\ \A d \in Chats : inbound'[d] = IF d = p.todo[1] THEN "enabled" ELSE inbound[d]
        /\ p'.pc = "backfill"
      BY <1>36, TodoType
         DEF CreateTopic, maxSide, seen, TypeOK, DbOK, PollerOK, PollerType
  <2>2. \A m \in quiet : m[1] \in Chats
      BY DEF TypeOK, SeenOK, Msgs
  <2>3. inbound[p.todo[1]] = "unmapped"
    <3>1. 1 \in DOMAIN p.todo /\ Creating
        BY <1>36 DEF CreateTopic, Creating, TypeOK, PollerOK, PollerType
    <3>. QED
        BY <3>1 DEF CreateOK
  <2>. QED
      BY <2>1, <2>2, <2>3 DEF QuietOK, QuietTopics, QuietPolls, QuietSends, Polling
<1>37. ASSUME TopicFails PROVE QuietOK'
    BY <1>37, QuietFrame
       DEF TopicFails, maxSide, db, seen, NextTopic, TypeOK, PollerOK, PollerType
<1>38. ASSUME Backfill PROVE QuietOK'
    BY <1>38, QuietFrame
       DEF Backfill, maxSide, db, seen, NextTopic, TypeOK, PollerOK, PollerType
<1>39. ASSUME BackfillCursor PROVE QuietOK'
    BY <1>39, QuietFrame
       DEF BackfillCursor, maxSide, db, seen, NextTopic, TypeOK, PollerOK, PollerType
<1>40. ASSUME EndReconcile PROVE QuietOK'
    BY <1>40, QuietFrame
       DEF EndReconcile, maxSide, db, seen, Ready, NextLive, LiveMessage, LiveDone,
           TypeOK, PollerOK, PollerType
<1>42. ASSUME Resync PROVE QuietOK'
  <2>0. /\ UNCHANGED <<hist, p>> /\ r \in ResyncType /\ (r.pc # "none" => r.chat \in Chats)
        /\ \A m \in quiet : m[1] \in Chats
      BY <1>42, ResyncLeaves DEF maxSide, TypeOK, SyncOK, SeenOK, Msgs, CreateOK
  <2>1. CASE ResyncCreate
    <3>1. /\ quiet' = {m \in quiet : r.on /\ m[1] = r.chat => m[2] <= r.since}
          /\ \A d \in Chats :
               /\ inbound'[d] = IF d # r.chat THEN inbound[d]
                                ELSE IF r.on THEN "enabled" ELSE "muted"
               /\ since'[d] = IF d = r.chat THEN r.since ELSE since[d]
        BY <2>0, <2>1 DEF ResyncCreate, TypeOK, DbOK
    <3>2. QuietTopics'
        BY <2>0, <3>1 DEF QuietOK, QuietTopics
    <3>3. QuietPolls' /\ QuietSends'
        BY <2>0, <3>1 DEF QuietOK, QuietPolls, QuietSends, Polling, Current
    <3>. QED
        BY <3>2, <3>3 DEF QuietOK
  <2>2. CASE ~ResyncCreate
    <3>1. UNCHANGED <<inbound, since, quiet>>
        BY <1>42, <2>2
           DEF Resync, ResyncBegin, ResyncBackfill, ResyncCursor, ResyncFails, db, seen
    <3>. QED
        BY <2>0, <3>1, QuietFrame
  <2>. QED
      BY <2>1, <2>2
<1>41. CASE UNCHANGED vars
    BY <1>41, QuietFrame DEF vars, maxSide, db, seen
<1>. QED
    BY <1>1, <1>2, <1>3, <1>4, <1>5, <1>6, <1>7, <1>8, <1>9, <1>10, <1>11, <1>12, <1>13,
           <1>14, <1>15, <1>16, <1>17, <1>18, <1>19, <1>20, <1>21, <1>22, <1>23, <1>24,
           <1>25, <1>26, <1>27, <1>28, <1>29, <1>30, <1>31, <1>32, <1>33, <1>34, <1>35,
           <1>36, <1>37, <1>38, <1>39, <1>40, <1>41, <1>42
    DEF Next, Environment, Callbacks, PollUser, Deliver

-----------------------------------------------------------------------------
(* The fate of every text.                                                 *)

\* A step that keeps what is in hand, or leaves nothing in hand between polls.
LEMMA HandFrame ==
    ASSUME HandOK, linked' = linked,
           \/ p' = p
           \/ p'.pc \notin {"idle", "drain", "settle"}
           \/ p'.batch = <<>> /\ p'.pc # "settle"
    PROVE  HandOK'
BY DEF HandOK, Current

LEMMA HandStep == TypeOK /\ ControlOK /\ HandOK /\ [Next]_vars => HandOK'
<1>. SUFFICES ASSUME TypeOK, ControlOK, HandOK, [Next]_vars PROVE HandOK'
    OBVIOUS
<1>1. ASSUME NEW c \in Chats, NEW k \in PostKinds, Post(c, k) PROVE HandOK'
    BY <1>1, HandFrame DEF Post, db
<1>2. ASSUME NEW c \in Chats, OutboundSend(c) PROVE HandOK'
    BY <1>2, HandFrame DEF OutboundSend, db
<1>3. ASSUME NEW c \in Chats, MarkChatDirty(c) PROVE HandOK'
    BY <1>3, HandFrame DEF MarkChatDirty, db
<1>4. ASSUME NEW c \in Chats, Mute(c) PROVE HandOK'
    BY <1>4, HandFrame DEF Mute, db
<1>5. ASSUME NEW c \in Chats, Unmute(c) PROVE HandOK'
    BY <1>5, HandFrame DEF Unmute, db
<1>6. ASSUME NEW m \in wire, BufferMessage(m) PROVE HandOK'
    BY <1>6, HandFrame DEF BufferMessage, db
<1>7. ASSUME SocketDrop PROVE HandOK'
    BY <1>7, HandFrame DEF SocketDrop, db
<1>8. ASSUME Crash PROVE HandOK'
    BY <1>8, HandFrame
       DEF Crash, db, Ready, NextLive, NextTopic, LiveMessage, LiveDone, TypeOK,
           PollerOK, PollerType
<1>9. ASSUME OnStartAgain PROVE HandOK'
    BY <1>9, HandFrame DEF OnStartAgain, db
<1>10. ASSUME HourPasses PROVE HandOK'
    BY <1>10, HandFrame DEF HourPasses, db
<1>11. ASSUME PollBegin PROVE HandOK'
    BY <1>11, HandFrame
       DEF PollBegin, db, Ready, NextLive, NextTopic, LiveMessage, LiveDone,
           TypeOK, PollerOK, PollerType
<1>12. ASSUME DrainBufferedMessages PROVE HandOK'
    BY <1>12, HandFrame
       DEF DrainBufferedMessages, db, Ready, NextLive, NextTopic, LiveMessage,
           LiveDone, TypeOK, PollerOK, PollerType
<1>13. ASSUME LiveSkipped PROVE HandOK'
    BY <1>13, HandFrame
       DEF LiveSkipped, db, Ready, NextLive, NextTopic, LiveMessage, LiveDone,
           TypeOK, PollerOK, PollerType
<1>14. ASSUME LiveUnmapped PROVE HandOK'
    BY <1>14, HandFrame
       DEF LiveUnmapped, db, Ready, NextLive, NextTopic, LiveMessage, LiveDone,
           TypeOK, PollerOK, PollerType
<1>15. ASSUME LiveDeliver PROVE HandOK'
  <2>1. /\ linked' = linked /\ Current' = Current
        /\ p'.pc = IF Current \in linked THEN "settle" ELSE "send"
      BY <1>15 DEF LiveDeliver, LiveMessage, Current, db, TypeOK, PollerOK, PollerType
  <2>. QED
      BY <2>1 DEF HandOK
<1>16. ASSUME LiveSettle PROVE HandOK'
    BY <1>16, HandFrame
       DEF LiveSettle, db, Ready, NextLive, NextTopic, LiveMessage, LiveDone,
           TypeOK, PollerOK, PollerType
<1>17. ASSUME SendMessageToTelegram PROVE HandOK'
    BY <1>17, HandFrame
       DEF SendMessageToTelegram, db, Ready, NextLive, NextTopic, LiveMessage,
           LiveDone, TypeOK, PollerOK, PollerType
<1>18. ASSUME SendFails PROVE HandOK'
    BY <1>18, HandFrame
       DEF SendFails, Undelivered, db, Ready, NextLive, NextTopic, LiveMessage, LiveDone,
           TypeOK, PollerOK, PollerType
<1>19. ASSUME SaveMessageLink PROVE HandOK'
  <2>1. linked' = linked \cup {Current} /\ Current' = Current /\ p'.pc = "settle"
      BY <1>19 DEF SaveMessageLink, Current, TypeOK, PollerOK, PollerType
  <2>. QED
      BY <2>1 DEF HandOK
<1>20. ASSUME PollDirtyChats PROVE HandOK'
    BY <1>20, HandFrame
       DEF PollDirtyChats, db, Ready, NextLive, NextTopic, LiveMessage,
           LiveDone, TypeOK, PollerOK, PollerType
<1>21. ASSUME RecoverAfterReconnect PROVE HandOK'
    BY <1>21, HandFrame
       DEF RecoverAfterReconnect, db, Ready, NextLive, NextTopic, LiveMessage,
           LiveDone, TypeOK, PollerOK, PollerType
<1>22. ASSUME ReconnectStorm PROVE HandOK'
    BY <1>22, HandFrame
       DEF ReconnectStorm, db, Ready, NextLive, NextTopic, LiveMessage,
           LiveDone, TypeOK, PollerOK, PollerType
<1>23. ASSUME EndDirty PROVE HandOK'
    BY <1>23, HandFrame
       DEF EndDirty, db, Ready, NextLive, NextTopic, LiveMessage, LiveDone,
           TypeOK, PollerOK, PollerType
<1>24. ASSUME EndRecover PROVE HandOK'
    BY <1>24, HandFrame
       DEF EndRecover, db, Ready, NextLive, NextTopic, LiveMessage, LiveDone,
           TypeOK, PollerOK, PollerType
<1>25. ASSUME ReadTopic PROVE HandOK'
    BY <1>25, HandFrame
       DEF ReadTopic, db, Ready, NextLive, NextTopic, LiveMessage, LiveDone,
           TypeOK, PollerOK, PollerType
<1>26. ASSUME GetMessages PROVE HandOK'
    BY <1>26, HandFrame
       DEF GetMessages, db, Ready, NextLive, NextTopic, LiveMessage, LiveDone,
           TypeOK, PollerOK, PollerType
<1>27. ASSUME GetMessagesRaises PROVE HandOK'
    BY <1>27, HandFrame
       DEF GetMessagesRaises, db, Ready, NextLive, NextTopic, LiveMessage,
           LiveDone, TypeOK, PollerOK, PollerType
<1>28. ASSUME BatchSkipped PROVE HandOK'
    BY <1>28, HandFrame
       DEF BatchSkipped, db, Ready, NextLive, NextTopic, LiveMessage, LiveDone,
           TypeOK, PollerOK, PollerType
<1>29. ASSUME BatchDeliver PROVE HandOK'
  <2>1. /\ linked' = linked /\ Current' = Current
        /\ p'.pc = IF Current \in linked THEN "settle" ELSE "send"
      BY <1>29 DEF BatchDeliver, Current, db, TypeOK, PollerOK, PollerType
  <2>. QED
      BY <2>1 DEF HandOK
<1>30. ASSUME BatchSettle PROVE HandOK'
    BY <1>30, HandFrame
       DEF BatchSettle, db, Ready, NextLive, NextTopic, LiveMessage, LiveDone,
           TypeOK, PollerOK, PollerType
<1>31. ASSUME FinishChat PROVE HandOK'
    BY <1>31, HandFrame
       DEF FinishChat, db, Ready, NextLive, NextTopic, LiveMessage, LiveDone,
           TypeOK, PollerOK, PollerType
<1>32. ASSUME FindTopics PROVE HandOK'
    BY <1>32, HandFrame
       DEF FindTopics, db, Ready, NextLive, NextTopic, LiveMessage, LiveDone,
           TypeOK, PollerOK, PollerType
<1>33. ASSUME EndCatchUp PROVE HandOK'
    BY <1>33, HandFrame
       DEF EndCatchUp, db, Ready, NextLive, NextTopic, LiveMessage, LiveDone,
           TypeOK, PollerOK, PollerType
<1>34. ASSUME ReconcileUser PROVE HandOK'
    BY <1>34, HandFrame
       DEF ReconcileUser, db, Ready, NextLive, NextTopic, LiveMessage, LiveDone,
           TypeOK, PollerOK, PollerType
<1>35. ASSUME ReconcileRaises PROVE HandOK'
    BY <1>35, HandFrame
       DEF ReconcileRaises, db, Ready, NextLive, NextTopic, LiveMessage,
           LiveDone, TypeOK, PollerOK, PollerType
<1>36. ASSUME CreateTopic PROVE HandOK'
    BY <1>36, HandFrame
       DEF CreateTopic, db, Ready, NextLive, NextTopic, LiveMessage, LiveDone,
           TypeOK, PollerOK, PollerType
<1>37. ASSUME TopicFails PROVE HandOK'
    BY <1>37, HandFrame
       DEF TopicFails, db, Ready, NextLive, NextTopic, LiveMessage, LiveDone,
           TypeOK, PollerOK, PollerType
<1>38. ASSUME Backfill PROVE HandOK'
    BY <1>38, HandFrame
       DEF Backfill, db, Ready, NextLive, NextTopic, LiveMessage, LiveDone,
           TypeOK, PollerOK, PollerType
<1>39. ASSUME BackfillCursor PROVE HandOK'
    BY <1>39, HandFrame
       DEF BackfillCursor, db, Ready, NextLive, NextTopic, LiveMessage,
           LiveDone, TypeOK, PollerOK, PollerType
<1>40. ASSUME EndReconcile PROVE HandOK'
    BY <1>40, HandFrame
       DEF EndReconcile, db, Ready, NextLive, NextTopic, LiveMessage, LiveDone,
           TypeOK, PollerOK, PollerType
<1>42. ASSUME Resync PROVE HandOK'
    BY <1>42, ResyncLeaves, HandFrame
<1>41. CASE UNCHANGED vars
    BY <1>41, HandFrame DEF vars, db
<1>. QED
    BY <1>1, <1>2, <1>3, <1>4, <1>5, <1>6, <1>7, <1>8, <1>9, <1>10, <1>11, <1>12,
           <1>13, <1>14, <1>15, <1>16, <1>17, <1>18, <1>19, <1>20, <1>21, <1>22,
           <1>23, <1>24, <1>25, <1>26, <1>27, <1>28, <1>29, <1>30, <1>31, <1>32,
           <1>33, <1>34, <1>35, <1>36, <1>37, <1>38, <1>39, <1>40, <1>41, <1>42
    DEF Next, Environment, Callbacks, PollUser, Deliver

LEMMA AppendRange ==
    ASSUME NEW q \in Seq(Msgs), NEW m \in Msgs
    PROVE  {q[i] : i \in DOMAIN q} \cup {m}
               \subseteq {Append(q, m)[i] : i \in DOMAIN Append(q, m)}
<1>1. /\ Len(q) + 1 \in DOMAIN Append(q, m) /\ Append(q, m)[Len(q) + 1] = m
      /\ \A i \in DOMAIN q : i \in DOMAIN Append(q, m) /\ Append(q, m)[i] = q[i]
    OBVIOUS
<1>. QED
    BY <1>1

LEMMA TailRange ==
    ASSUME NEW q \in Seq(Msgs), q # <<>>
    PROVE  {q[i] : i \in DOMAIN q} \subseteq {q[1]} \cup {Tail(q)[i] : i \in DOMAIN Tail(q)}
<1>. SUFFICES ASSUME NEW i \in DOMAIN q, i # 1
              PROVE  q[i] \in {Tail(q)[j] : j \in DOMAIN Tail(q)}
    OBVIOUS
<1>1. i - 1 \in DOMAIN Tail(q) /\ Tail(q)[i - 1] = q[i]
    OBVIOUS
<1>. QED
    BY <1>1

\* What is carried stays carried or is settled, and what is settled stays settled.
LEMMA FateMoves ==
    ASSUME EveryTextHasAFate, hist' = hist, Settled \subseteq Settled',
           Carried \subseteq Carried' \cup Settled'
    PROVE  EveryTextHasAFate'
<1>. SUFFICES ASSUME NEW m \in Msgs, Text(m)' PROVE (Accounted(m) \/ m \in missed)'
    BY DEF EveryTextHasAFate
<1>1. Text(m)
    BY DEF Text
<1>2. m \in Settled \cup Carried
    BY <1>1 DEF EveryTextHasAFate, Accounted, InFlight, Settled, Carried
<1>3. m \in Settled' \cup Carried'
    BY <1>2
<1>. QED
    BY <1>3 DEF Accounted, InFlight, Settled, Carried

\* A step that moves no message.
LEMMA FateStays ==
    ASSUME EveryTextHasAFate, UNCHANGED <<hist, wire, buffer>>, Settled \subseteq Settled',
           p' = p \/ (p'.batch = p.batch /\ p'.mode = p.mode) \/ InHand = {}
    PROVE  EveryTextHasAFate'
BY FateMoves DEF Carried, Buffered, InHand

\* A step that settles the live message in hand.
LEMMA FateTail ==
    ASSUME TypeOK, EveryTextHasAFate, UNCHANGED <<hist, wire, buffer>>,
           Settled \subseteq Settled', Current \in Settled', p.batch # <<>>,
           p'.batch = Tail(p.batch), p'.mode = "live"
    PROVE  EveryTextHasAFate'
<1>1. {p.batch[i] : i \in DOMAIN p.batch} \subseteq {Current} \cup InHand'
    <2>1. p.batch \in Seq(Msgs)
        BY DEF TypeOK, PollerOK, PollerType
    <2>2. InHand' = {Tail(p.batch)[i] : i \in DOMAIN Tail(p.batch)}
        BY DEF InHand
    <2>. QED
        BY <2>1, <2>2, TailRange DEF Current
<1>2. InHand \subseteq Settled' \cup InHand'
    BY <1>1 DEF InHand
<1>. QED
    BY <1>2, FateMoves DEF Carried, Buffered

LEMMA FateStep ==
    TypeOK /\ ControlOK /\ CreateOK /\ HandOK /\ EveryTextHasAFate /\ [Next]_vars => EveryTextHasAFate'
<1>. SUFFICES ASSUME TypeOK, ControlOK, CreateOK, HandOK, EveryTextHasAFate, [Next]_vars
              PROVE  EveryTextHasAFate'
    OBVIOUS
<1>1. ASSUME NEW c \in Chats, NEW k \in PostKinds, Post(c, k) PROVE EveryTextHasAFate'
  <2>. DEFINE m == <<c, Len(hist[c]) + 1>>
  <2>1. /\ wire \cup missed \cup {m} = wire' \cup missed'
        /\ missed \subseteq missed' /\ UNCHANGED <<buffer, p, db, backfilled, skipped>>
      BY <1>1 DEF Post, mem
  <2>2. /\ Buffered' = Buffered /\ InHand' = InHand
        /\ UNCHANGED <<linked, audited, skipped, backfilled>>
      BY <2>1 DEF db, Buffered, InHand
  <2>3. \A n \in Msgs : Text(n)' => Text(n) \/ n = m
      BY <1>1 DEF Post, Text, TypeOK, MaxOK, Msgs, Ids
  <2>4. \A n \in Msgs : n = m => n \in wire' \cup missed'
      BY <2>1
  <2>. HIDE DEF m
  <2>. QED
      BY <2>1, <2>2, <2>3, <2>4 DEF EveryTextHasAFate, Accounted, InFlight
<1>2. ASSUME NEW c \in Chats, OutboundSend(c) PROVE EveryTextHasAFate'
  <2>1. UNCHANGED <<wire, buffer, p, linked, audited, skipped, missed, backfilled>>
      BY <1>2 DEF OutboundSend, db, seen
  <2>2. Buffered' = Buffered /\ InHand' = InHand
      BY <2>1 DEF Buffered, InHand
  <2>3. \A n \in Msgs : Text(n)' => Text(n)
      BY <1>2 DEF OutboundSend, Text, TypeOK, MaxOK, Msgs, Ids
  <2>. QED
      BY <2>1, <2>2, <2>3 DEF EveryTextHasAFate, Accounted, InFlight
<1>3. ASSUME NEW c \in Chats, MarkChatDirty(c) PROVE EveryTextHasAFate'
    BY <1>3, FateStays DEF MarkChatDirty, Settled, maxSide, mem, db, seen
<1>4. ASSUME NEW c \in Chats, Mute(c) PROVE EveryTextHasAFate'
    BY <1>4, FateStays DEF Mute, Settled, maxSide, mem, db, seen
<1>5. ASSUME NEW c \in Chats, Unmute(c) PROVE EveryTextHasAFate'
    BY <1>5, FateStays DEF Unmute, Settled, maxSide, mem, db, seen
<1>6. ASSUME NEW m \in wire, BufferMessage(m) PROVE EveryTextHasAFate'
  <2>1. m \in Msgs /\ buffer \in Seq(Msgs) /\ buffer' = Append(buffer, m)
      BY <1>6 DEF BufferMessage, TypeOK, MaxOK, MemOK
  <2>2. Buffered \cup {m} \subseteq Buffered'
      BY <2>1, AppendRange DEF Buffered
  <2>3. /\ wire \subseteq wire' \cup {m} /\ InHand' = InHand
        /\ hist' = hist /\ Settled' = Settled
      BY <1>6 DEF BufferMessage, InHand, Settled, db, seen
  <2>. QED
      BY <2>2, <2>3, FateMoves DEF Carried
<1>7. ASSUME SocketDrop PROVE EveryTextHasAFate'
  <2>1. /\ wire \subseteq missed' /\ Buffered' = Buffered /\ InHand' = InHand
        /\ hist' = hist /\ Settled \subseteq Settled'
      BY <1>7 DEF SocketDrop, Buffered, InHand, Settled, mem, db
  <2>. QED
      BY <2>1, FateMoves DEF Carried, Settled
<1>8. ASSUME Crash PROVE EveryTextHasAFate'
  <2>1. /\ wire \cup Buffered \cup InHand \subseteq missed'
        /\ hist' = hist /\ Settled \subseteq Settled'
      BY <1>8 DEF Crash, Settled, db
  <2>. QED
      BY <2>1, FateMoves DEF Carried, Settled
<1>9. ASSUME OnStartAgain PROVE EveryTextHasAFate'
    BY <1>9, FateStays DEF OnStartAgain, Settled, maxSide, mem, db, seen
<1>10. ASSUME HourPasses PROVE EveryTextHasAFate'
    BY <1>10, FateStays DEF HourPasses, Settled, maxSide, mem, db, seen
<1>11. ASSUME PollBegin PROVE EveryTextHasAFate'
    BY <1>11, FateStays
       DEF PollBegin, Settled, maxSide, mem, db, seen, InHand, HandOK,
           ControlOK, Ready, NextLive, NextTopic, LiveMessage, LiveDone, TypeOK,
           PollerOK, PollerType
<1>12. ASSUME DrainBufferedMessages PROVE EveryTextHasAFate'
  <2>1. /\ p.batch = <<>> /\ p'.batch = buffer /\ p'.mode = "live"
        /\ wire' = wire /\ hist' = hist /\ Settled' = Settled
      BY <1>12
         DEF DrainBufferedMessages, HandOK, ControlOK, TypeOK, PollerOK, PollerType,
             Settled, maxSide, db, seen
  <2>2. InHand = {} /\ InHand' = Buffered
      BY <2>1 DEF InHand, Buffered
  <2>. QED
      BY <2>1, <2>2, FateMoves DEF Carried
<1>13. ASSUME LiveSkipped PROVE EveryTextHasAFate'
  <2>1. /\ p'.batch = Tail(p.batch) /\ p'.mode = "live" /\ Current \in Settled'
        /\ Settled \subseteq Settled' /\ p.batch # <<>>
      BY <1>13
         DEF LiveSkipped, LiveMessage, Settled, ControlOK, TypeOK,
             PollerOK, PollerType, db, seen
  <2>2. UNCHANGED <<hist, wire, buffer>>
      BY <1>13 DEF LiveSkipped, maxSide, mem, seen
  <2>. QED
      BY <2>1, <2>2, FateTail
<1>14. ASSUME LiveUnmapped PROVE EveryTextHasAFate'
  <2>1. /\ p'.batch = Tail(p.batch) /\ p'.mode = "live" /\ Current \in Settled'
        /\ Settled \subseteq Settled' /\ p.batch # <<>>
      BY <1>14
         DEF LiveUnmapped, LiveMessage, Settled, ControlOK, TypeOK,
             PollerOK, PollerType, db, seen
  <2>2. UNCHANGED <<hist, wire, buffer>>
      BY <1>14 DEF LiveUnmapped, maxSide, mem, seen
  <2>. QED
      BY <2>1, <2>2, FateTail
<1>15. ASSUME LiveDeliver PROVE EveryTextHasAFate'
    BY <1>15, FateStays
       DEF LiveDeliver, Settled, maxSide, mem, db, seen, InHand, HandOK,
           ControlOK, Ready, NextLive, NextTopic, LiveMessage, LiveDone, TypeOK,
           PollerOK, PollerType
<1>16. ASSUME LiveSettle PROVE EveryTextHasAFate'
  <2>1. /\ p'.batch = Tail(p.batch) /\ p'.mode = "live" /\ Current \in Settled'
        /\ Settled \subseteq Settled' /\ p.batch # <<>>
      BY <1>16
         DEF LiveSettle, HandOK, NextLive, Ready, Settled, ControlOK, TypeOK,
             PollerOK, PollerType, db, seen
  <2>2. UNCHANGED <<hist, wire, buffer>>
      BY <1>16 DEF LiveSettle, maxSide, mem, seen
  <2>. QED
      BY <2>1, <2>2, FateTail
<1>17. ASSUME SendMessageToTelegram PROVE EveryTextHasAFate'
    BY <1>17, FateStays
       DEF SendMessageToTelegram, Settled, maxSide, mem, db, TypeOK, PollerOK, PollerType
<1>18. ASSUME SendFails PROVE EveryTextHasAFate'
  <2>1. /\ Current \in Settled' /\ Settled \subseteq Settled' /\ p.batch # <<>>
        /\ UNCHANGED <<hist, wire, buffer>>
      BY <1>18 DEF SendFails, Settled, ControlOK, maxSide, mem, seen
  <2>2. p.mode = "live" => p'.batch = Tail(p.batch) /\ p'.mode = "live"
      BY <1>18 DEF SendFails, Undelivered, NextLive, Ready, TypeOK, PollerOK, PollerType
  <2>. QED
      BY <2>1, <2>2, FateTail, FateStays DEF InHand
<1>19. ASSUME SaveMessageLink PROVE EveryTextHasAFate'
    BY <1>19, FateStays
       DEF SaveMessageLink, Settled, maxSide, mem, db, seen, InHand, HandOK,
           ControlOK, Ready, NextLive, NextTopic, LiveMessage, LiveDone, TypeOK,
           PollerOK, PollerType
<1>20. ASSUME PollDirtyChats PROVE EveryTextHasAFate'
    BY <1>20, FateStays
       DEF PollDirtyChats, Settled, maxSide, mem, db, seen, InHand, HandOK,
           ControlOK, Ready, NextLive, NextTopic, LiveMessage, LiveDone, TypeOK,
           PollerOK, PollerType
<1>21. ASSUME RecoverAfterReconnect PROVE EveryTextHasAFate'
    BY <1>21, FateStays
       DEF RecoverAfterReconnect, Settled, maxSide, mem, db, seen, InHand,
           HandOK, ControlOK, Ready, NextLive, NextTopic, LiveMessage, LiveDone,
           TypeOK, PollerOK, PollerType
<1>22. ASSUME ReconnectStorm PROVE EveryTextHasAFate'
  <2>1. /\ wire \cup Buffered \subseteq missed' /\ p.batch = <<>>
        /\ hist' = hist /\ Settled \subseteq Settled'
      BY <1>22 DEF ReconnectStorm, LiveDone, Settled, db
  <2>. QED
      BY <2>1, FateMoves DEF Carried, Settled, InHand
<1>23. ASSUME EndDirty PROVE EveryTextHasAFate'
    BY <1>23, FateStays
       DEF EndDirty, Settled, maxSide, mem, db, seen, InHand, HandOK, ControlOK,
           Ready, NextLive, NextTopic, LiveMessage, LiveDone, TypeOK, PollerOK,
           PollerType
<1>24. ASSUME EndRecover PROVE EveryTextHasAFate'
    BY <1>24, FateStays
       DEF EndRecover, Settled, maxSide, mem, db, seen, InHand, HandOK,
           ControlOK, Ready, NextLive, NextTopic, LiveMessage, LiveDone, TypeOK,
           PollerOK, PollerType
<1>25. ASSUME ReadTopic PROVE EveryTextHasAFate'
    BY <1>25, FateStays
       DEF ReadTopic, Settled, maxSide, mem, db, seen, InHand, HandOK,
           ControlOK, Ready, NextLive, NextTopic, LiveMessage, LiveDone, TypeOK,
           PollerOK, PollerType
<1>26. ASSUME GetMessages PROVE EveryTextHasAFate'
    BY <1>26, FateStays
       DEF GetMessages, Settled, maxSide, mem, db, seen, InHand, HandOK,
           ControlOK, Ready, NextLive, NextTopic, LiveMessage, LiveDone, TypeOK,
           PollerOK, PollerType
<1>27. ASSUME GetMessagesRaises PROVE EveryTextHasAFate'
    BY <1>27, FateStays
       DEF GetMessagesRaises, Settled, maxSide, mem, db, seen, InHand, HandOK,
           ControlOK, Ready, NextLive, NextTopic, LiveMessage, LiveDone, TypeOK,
           PollerOK, PollerType
<1>28. ASSUME BatchSkipped PROVE EveryTextHasAFate'
    BY <1>28, FateStays
       DEF BatchSkipped, Settled, maxSide, mem, db, seen, InHand, HandOK,
           ControlOK, Ready, NextLive, NextTopic, LiveMessage, LiveDone, TypeOK,
           PollerOK, PollerType
<1>29. ASSUME BatchDeliver PROVE EveryTextHasAFate'
    BY <1>29, FateStays
       DEF BatchDeliver, Settled, maxSide, mem, db, seen, InHand, HandOK,
           ControlOK, Ready, NextLive, NextTopic, LiveMessage, LiveDone, TypeOK,
           PollerOK, PollerType
<1>30. ASSUME BatchSettle PROVE EveryTextHasAFate'
    BY <1>30, FateStays
       DEF BatchSettle, Settled, maxSide, mem, db, seen, InHand, HandOK,
           ControlOK, Ready, NextLive, NextTopic, LiveMessage, LiveDone, TypeOK,
           PollerOK, PollerType
<1>31. ASSUME FinishChat PROVE EveryTextHasAFate'
    BY <1>31, FateStays
       DEF FinishChat, Settled, maxSide, mem, db, seen, InHand, HandOK,
           ControlOK, Ready, NextLive, NextTopic, LiveMessage, LiveDone, TypeOK,
           PollerOK, PollerType
<1>32. ASSUME FindTopics PROVE EveryTextHasAFate'
    BY <1>32, FateStays
       DEF FindTopics, Settled, maxSide, mem, db, seen, InHand, HandOK,
           ControlOK, Ready, NextLive, NextTopic, LiveMessage, LiveDone, TypeOK,
           PollerOK, PollerType
<1>33. ASSUME EndCatchUp PROVE EveryTextHasAFate'
    BY <1>33, FateStays
       DEF EndCatchUp, Settled, maxSide, mem, db, seen, InHand, HandOK,
           ControlOK, Ready, NextLive, NextTopic, LiveMessage, LiveDone, TypeOK,
           PollerOK, PollerType
<1>34. ASSUME ReconcileUser PROVE EveryTextHasAFate'
    BY <1>34, FateStays
       DEF ReconcileUser, Settled, maxSide, mem, db, seen, InHand, HandOK,
           ControlOK, Ready, NextLive, NextTopic, LiveMessage, LiveDone, TypeOK,
           PollerOK, PollerType
<1>35. ASSUME ReconcileRaises PROVE EveryTextHasAFate'
  <2>1. /\ InHand \subseteq missed' /\ wire' = wire /\ Buffered' = Buffered
        /\ hist' = hist /\ Settled \subseteq Settled'
      BY <1>35 DEF ReconcileRaises, Buffered, Settled, maxSide, mem, db
  <2>. QED
      BY <2>1, FateMoves DEF Carried, Settled
<1>36. ASSUME CreateTopic PROVE EveryTextHasAFate'
    BY <1>36, FateStays
       DEF CreateTopic, Settled, maxSide, mem, db, seen, InHand, HandOK,
           ControlOK, Ready, NextLive, NextTopic, LiveMessage, LiveDone, TypeOK,
           PollerOK, PollerType
<1>37. ASSUME TopicFails PROVE EveryTextHasAFate'
    BY <1>37, FateStays
       DEF TopicFails, Settled, maxSide, mem, db, seen, InHand, HandOK,
           ControlOK, Ready, NextLive, NextTopic, LiveMessage, LiveDone, TypeOK,
           PollerOK, PollerType
<1>38. ASSUME Backfill PROVE EveryTextHasAFate'
  <2>1. PICK ok \in BOOLEAN : BackfillSends(p.chat, ok)
      BY <1>38 DEF Backfill
  <2>2. Settled \subseteq Settled'
      BY <1>38, <2>1, BackfillEffect DEF Backfill, ControlOK, Settled
  <2>3. UNCHANGED <<hist, wire, buffer>> /\ p'.batch = p.batch /\ p'.mode = p.mode
      BY <1>38 DEF Backfill, NextTopic, maxSide, mem, TypeOK, PollerOK, PollerType
  <2>. QED
      BY <2>2, <2>3, FateStays
<1>39. ASSUME BackfillCursor PROVE EveryTextHasAFate'
    BY <1>39, FateStays
       DEF BackfillCursor, Settled, maxSide, mem, db, seen, InHand, HandOK,
           ControlOK, Ready, NextLive, NextTopic, LiveMessage, LiveDone, TypeOK,
           PollerOK, PollerType
<1>40. ASSUME EndReconcile PROVE EveryTextHasAFate'
    BY <1>40, FateStays
       DEF EndReconcile, Settled, maxSide, mem, db, seen, InHand, HandOK,
           ControlOK, Ready, NextLive, NextTopic, LiveMessage, LiveDone, TypeOK,
           PollerOK, PollerType
<1>42. ASSUME Resync PROVE EveryTextHasAFate'
  <2>1. audited \subseteq audited' /\ backfilled \subseteq backfilled'
    <3>1. CASE ResyncBackfill
        BY <3>1, BackfillEffect DEF ResyncBackfill, CreateOK
    <3>2. CASE ~ResyncBackfill
        BY <1>42, <3>2
           DEF Resync, ResyncBegin, ResyncCreate, ResyncCursor, ResyncFails, db, seen
    <3>. QED
        BY <3>1, <3>2
  <2>. QED
      BY <1>42, <2>1, ResyncLeaves, FateStays DEF Settled, maxSide, mem
<1>41. CASE UNCHANGED vars
    BY <1>41, FateStays DEF vars, Settled, maxSide, mem, db, seen
<1>. QED
    BY <1>1, <1>2, <1>3, <1>4, <1>5, <1>6, <1>7, <1>8, <1>9, <1>10, <1>11, <1>12,
           <1>13, <1>14, <1>15, <1>16, <1>17, <1>18, <1>19, <1>20, <1>21, <1>22,
           <1>23, <1>24, <1>25, <1>26, <1>27, <1>28, <1>29, <1>30, <1>31, <1>32,
           <1>33, <1>34, <1>35, <1>36, <1>37, <1>38, <1>39, <1>40, <1>41, <1>42
    DEF Next, Environment, Callbacks, PollUser, Deliver

-----------------------------------------------------------------------------
(* A poll passes only the gap: what is carried was written, and what a     *)
(* poll has passed was dealt with.                                         *)

\* Chats and records only grow.
LEMMA RecordsGrow ==
    ASSUME TypeOK, CreateOK, [Next]_vars
    PROVE  /\ \A c \in Chats : Len(hist[c]) \in Nat /\ Len(hist'[c]) \in Nat
                               /\ Len(hist[c]) <= Len(hist'[c])
           /\ linked \cup audited \cup skipped \subseteq linked' \cup audited' \cup skipped'
<1>. DEFINE Kept == linked \cup audited \cup skipped \subseteq linked' \cup audited' \cup skipped'
<1>0. \A c \in Chats : hist[c] \in Seq(Kinds) /\ Len(hist[c]) \in Nat
    BY DEF TypeOK, MaxOK
<1>1. ASSUME NEW c \in Chats, \/ \E k \in PostKinds : Post(c, k)
                              \/ OutboundSend(c)
      PROVE  Kept /\ \E k \in Kinds : hist' = [hist EXCEPT ![c] = Append(@, k)]
    BY <1>1, BoundsAssumption DEF Post, OutboundSend, Kinds, db, seen
<1>2. ASSUME NEW c \in Chats, MarkChatDirty(c) \/ Mute(c) \/ Unmute(c)
      PROVE  Kept /\ hist' = hist
    BY <1>2 DEF MarkChatDirty, Mute, Unmute, maxSide, db, seen
<1>3. CASE SocketDrop \/ Crash \/ HourPasses \/ Callbacks
    <2>1. Kept /\ hist' = hist
        BY <1>3 DEF SocketDrop, Crash, HourPasses, Callbacks, OnStartAgain, BufferMessage,
                    maxSide, db, seen
    <2>. QED
        BY <1>0, <2>1
<1>4. CASE \/ PollBegin \/ DrainBufferedMessages \/ LiveSkipped \/ LiveUnmapped
           \/ LiveDeliver \/ LiveSettle \/ Deliver
    <2>1. Kept /\ hist' = hist
        BY <1>4 DEF PollBegin, DrainBufferedMessages, LiveSkipped, LiveUnmapped, LiveDeliver,
                    LiveSettle, Deliver, SendMessageToTelegram, SendFails, SaveMessageLink,
                    maxSide, db, seen
    <2>. QED
        BY <1>0, <2>1
<1>5. CASE \/ PollDirtyChats \/ RecoverAfterReconnect \/ ReconnectStorm \/ EndDirty
           \/ EndRecover \/ FindTopics \/ EndCatchUp \/ ReconcileUser
    <2>1. Kept /\ hist' = hist
        BY <1>5 DEF PollDirtyChats, RecoverAfterReconnect, ReconnectStorm, EndDirty, EndRecover,
                    FindTopics, EndCatchUp, ReconcileUser, maxSide, db, seen
    <2>. QED
        BY <1>0, <2>1
<1>6. CASE \/ ReadTopic \/ GetMessages \/ GetMessagesRaises \/ BatchSkipped
           \/ BatchDeliver \/ BatchSettle \/ FinishChat
    <2>1. Kept /\ hist' = hist
        BY <1>6 DEF ReadTopic, GetMessages, GetMessagesRaises, BatchSkipped, BatchDeliver,
                    BatchSettle, FinishChat, maxSide, db, seen
    <2>. QED
        BY <1>0, <2>1
<1>7. CASE \/ ReconcileRaises \/ CreateTopic \/ TopicFails \/ Backfill \/ BackfillCursor
           \/ EndReconcile
    <2>1. Kept /\ hist' = hist
        BY <1>7 DEF ReconcileRaises, CreateTopic, TopicFails, Backfill, BackfillSends,
                    BackfillCursor, EndReconcile, maxSide, db, seen
    <2>. QED
        BY <1>0, <2>1
<1>8. CASE Resync
    <2>1. Kept /\ hist' = hist
        BY <1>8 DEF Resync, ResyncBegin, ResyncCreate, ResyncBackfill, BackfillSends,
                    ResyncCursor, ResyncFails, maxSide, db, seen
    <2>. QED
        BY <1>0, <2>1
<1>9. CASE UNCHANGED vars
    BY <1>0, <1>9 DEF vars, maxSide, db, seen
<1>10. ASSUME NEW c \in Chats, \/ \E k \in PostKinds : Post(c, k)
                               \/ OutboundSend(c)
       PROVE  Kept /\ \A d \in Chats : Len(hist'[d]) \in Nat /\ Len(hist[d]) <= Len(hist'[d])
    <2>1. PICK k \in Kinds : hist' = [hist EXCEPT ![c] = Append(@, k)]
        BY <1>1, <1>10
    <2>2. \A d \in Chats : Len(hist'[d]) = IF d = c THEN Len(hist[d]) + 1 ELSE Len(hist[d])
        BY <1>0, <2>1 DEF TypeOK, MaxOK
    <2>. QED
        BY <1>0, <1>1, <1>10, <2>2
<1>. QED
    BY <1>0, <1>2, <1>3, <1>4, <1>5, <1>6, <1>7, <1>8, <1>9, <1>10
    DEF Next, Environment, PollUser

\* What a fetch returns was written, and below each of its messages lie the earlier
\* ones and the gap.
LEMMA FetchedReach ==
    ASSUME MaxOK, NEW c \in Chats, NEW pos \in Nat, NEW n \in Nat, NEW k \in DOMAIN Fetched(c, pos, n)
    PROVE  /\ Written(Fetched(c, pos, n)[k])
           /\ \A i \in (pos + 1)..(Fetched(c, pos, n)[k][2] - 1) :
                 i + n <= Len(hist[c]) \/ \E j \in 1..(k - 1) : Fetched(c, pos, n)[j] = <<c, i>>
<1>. DEFINE lo   == IF pos + n < Len(hist[c]) THEN Len(hist[c]) - n ELSE pos
            size == Len(hist[c]) - lo
<1>1. Len(hist[c]) \in Nat
    BY DEF MaxOK
<1>2. lo \in Nat /\ size \in Int /\ (pos < lo => lo + n = Len(hist[c]))
    BY <1>1
<1>3. Fetched(c, pos, n) = [i \in 1..size |-> <<c, lo + i>>]
    BY DEF Fetched
<1>4. size = Len(hist[c]) - lo
    OBVIOUS
<1>. HIDE DEF lo, size
<1>5. k \in 1..size /\ Fetched(c, pos, n)[k] = <<c, lo + k>>
    BY <1>3
<1>6. Written(Fetched(c, pos, n)[k])
    BY <1>1, <1>2, <1>4, <1>5 DEF Written
<1>7. Fetched(c, pos, n)[k][2] = lo + k
    BY <1>5
<1>8. ASSUME NEW i \in (pos + 1)..(Fetched(c, pos, n)[k][2] - 1)
      PROVE  i + n <= Len(hist[c]) \/ \E j \in 1..(k - 1) : Fetched(c, pos, n)[j] = <<c, i>>
    <2>0. i \in (pos + 1)..((lo + k) - 1)
        BY <1>7, Zenon
    <2>1. CASE i <= lo
        BY <1>1, <1>2, <2>0, <2>1
    <2>2. CASE i > lo
        <3>1. i - lo \in 1..(k - 1) /\ i - lo \in 1..size /\ lo + (i - lo) = i
            BY <1>2, <1>5, <2>0, <2>2
        <3>. QED
            BY <1>3, <3>1
    <2>. QED
        BY <1>2, <2>0, <2>1, <2>2
<1>. QED
    BY <1>6, <1>8

\* The message in hand and what is left of the batch after it.
LEMMA BatchTail ==
    ASSUME TypeOK, p.batch # <<>>
    PROVE  /\ Current \in Msgs /\ Current[2] \in Nat /\ 1 \in DOMAIN p.batch
           /\ \A i \in DOMAIN Tail(p.batch) :
                 /\ i \in Nat /\ i + 1 \in DOMAIN p.batch
                 /\ Tail(p.batch)[i] = p.batch[i + 1]
<1>1. p.batch \in Seq(Msgs)
    BY DEF TypeOK, PollerOK, PollerType
<1>. QED
    BY <1>1, BoundsAssumption DEF Current, Msgs, Ids

\* The messages of the batch in hand.
Batched == {p.batch[i] : i \in DOMAIN p.batch}

\* Nothing is carried that was not written.
LEMMA WrittenKept ==
    ASSUME TypeOK, TypeOK', WrittenOK,
           \A c \in Chats : /\ Len(hist[c]) \in Nat /\ Len(hist'[c]) \in Nat
                            /\ Len(hist[c]) <= Len(hist'[c]),
           wire' \cup Buffered' \cup Batched' \subseteq wire \cup Buffered \cup Batched,
           cursor' = cursor \/ \A c \in Chats : cursor'[c] <= Len(hist'[c]),
           InBatch' => \/ InBatch /\ p'.chat \in Chats /\ p'.chat = p.chat /\ p'.latest = p.latest
                       \/ p'.latest <= Len(hist'[p'.chat]),
           p'.pc \in {"send", "link", "settle"} => Current'[1] = p'.chat
    PROVE  WrittenOK'
<1>1. \A m \in wire \cup Buffered \cup Batched : m \in Msgs /\ m[1] \in Chats /\ m[2] \in Nat
    <2>1. wire \subseteq Msgs /\ buffer \in Seq(Msgs) /\ p.batch \in Seq(Msgs)
        BY DEF TypeOK, MaxOK, MemOK, PollerOK, PollerType
    <2>2. wire \cup Buffered \cup Batched \subseteq Msgs
        BY <2>1 DEF Buffered, Batched
    <2>. QED
        BY <2>2, BoundsAssumption DEF Msgs, Ids
<1>2. \A m \in wire' \cup Buffered' \cup Batched' : m[2] <= Len(hist'[m[1]])
    <2>. SUFFICES ASSUME NEW m \in wire' \cup Buffered' \cup Batched'
                  PROVE  m[2] <= Len(hist'[m[1]])
        OBVIOUS
    <2>1. m \in wire \cup Buffered \cup Batched
        OBVIOUS
    <2>2. m[2] <= Len(hist[m[1]]) /\ m[1] \in Chats /\ m[2] \in Nat
        BY <1>1, <2>1 DEF WrittenOK, Written, Batched
    <2>. QED
        BY <2>2
<1>3. \A c \in Chats : cursor'[c] <= Len(hist'[c])
    <2>1. \A c \in Chats : cursor[c] \in Nat /\ cursor[c] <= Len(hist[c])
        BY BoundsAssumption DEF WrittenOK, Written, TypeOK, DbOK
    <2>. QED
        BY <2>1
<1>4. InBatch' => p'.latest <= Len(hist'[p'.chat])
    <2>1. p.latest \in Nat
        BY BoundsAssumption DEF TypeOK, PollerOK, PollerType
    <2>. QED
        BY <2>1 DEF WrittenOK, Written
<1>. QED
    BY <1>2, <1>3, <1>4 DEF WrittenOK, Written, Batched

\* What a step may do to the batch in hand, where it puts no cursor.
LEMMA BatchMoves ==
    ASSUME TypeOK,
           p'.batch = p.batch \/ p'.batch = <<>> \/ (p.batch # <<>> /\ p'.batch = Tail(p.batch))
    PROVE  Batched' \subseteq Batched
<1>1. DOMAIN <<>> = {}
    OBVIOUS
<1>2. p.batch # <<>> => \A i \in DOMAIN Tail(p.batch) : Tail(p.batch)[i] \in Batched
    BY BatchTail DEF Batched
<1>. QED
    BY <1>1, <1>2 DEF Batched

LEMMA WrittenStep ==
    TypeOK /\ ControlOK /\ CreateOK /\ QuietOK /\ WrittenOK /\ [Next]_vars => WrittenOK'
<1>. SUFFICES ASSUME TypeOK, ControlOK, CreateOK, QuietOK, WrittenOK, [Next]_vars
              PROVE  WrittenOK'
    OBVIOUS
<1>0. /\ TypeOK' /\ ControlOK'
      /\ \A c \in Chats : /\ Len(hist[c]) \in Nat /\ Len(hist'[c]) \in Nat
                          /\ Len(hist[c]) <= Len(hist'[c])
    BY TypeStep, ControlStep, RecordsGrow
<1>a. InBatch' => p'.chat \in Chats
    BY <1>0 DEF InBatch, ControlOK
<1>b. p'.batch = p.batch => Batched' = Batched /\ Current' = Current
    BY DEF Batched, Current
<1>1. ASSUME NEW c \in Chats, NEW k \in PostKinds, Post(c, k) PROVE WrittenOK'
  <2>. DEFINE m == <<c, Len(hist[c]) + 1>>
  <2>1. UNCHANGED <<buffer, p, cursor>> /\ wire' \subseteq wire \cup {m}
      BY <1>1 DEF Post, mem, db
  <2>2. m[1] = c /\ m[2] = Len(hist'[c])
      BY <1>1 DEF Post, TypeOK, MaxOK
  <2>3. \A n \in wire \cup Buffered \cup Batched : n \in Msgs /\ n[1] \in Chats /\ n[2] \in Nat
      <3>1. wire \subseteq Msgs /\ buffer \in Seq(Msgs) /\ p.batch \in Seq(Msgs)
          BY DEF TypeOK, MaxOK, MemOK, PollerOK, PollerType
      <3>2. wire \cup Buffered \cup Batched \subseteq Msgs
          BY <3>1 DEF Buffered, Batched
      <3>. QED
          BY <3>2, BoundsAssumption DEF Msgs, Ids
  <2>. HIDE DEF m
  <2>4. \A n \in wire' \cup Buffered' \cup Batched' : n[2] <= Len(hist'[n[1]])
      <3>. SUFFICES ASSUME NEW n \in wire' \cup Buffered' \cup Batched', n # m
                    PROVE  n[2] <= Len(hist'[n[1]])
          BY <1>0, <2>2
      <3>1. n \in wire \cup Buffered \cup Batched
          BY <2>1, <1>b DEF Buffered
      <3>2. n[2] <= Len(hist[n[1]])
          BY <3>1 DEF WrittenOK, Written, Batched
      <3>. QED
          BY <1>0, <2>3, <3>1, <3>2
  <2>5. \A d \in Chats : cursor'[d] <= Len(hist'[d])
      <3>1. \A d \in Chats : cursor[d] \in Nat /\ cursor[d] <= Len(hist[d])
          BY BoundsAssumption DEF WrittenOK, Written, TypeOK, DbOK
      <3>. QED
          BY <1>0, <2>1, <3>1
  <2>6. InBatch' => p'.latest <= Len(hist'[p'.chat])
      <3>1. p.latest \in Nat /\ (InBatch' => InBatch)
          BY <2>1, BoundsAssumption DEF InBatch, TypeOK, PollerOK, PollerType
      <3>. QED
          BY <1>0, <1>a, <2>1, <3>1 DEF WrittenOK, Written
  <2>. QED
      BY <1>b, <2>1, <2>4, <2>5, <2>6 DEF WrittenOK, Written, Batched
<1>2. ASSUME NEW c \in Chats, OutboundSend(c) \/ MarkChatDirty(c) \/ Mute(c) \/ Unmute(c)
      PROVE  WrittenOK'
  <2>1. UNCHANGED <<wire, buffer, p, cursor>>
      BY <1>2 DEF OutboundSend, MarkChatDirty, Mute, Unmute, maxSide, mem, db
  <2>. QED
      BY <1>0, <1>a, <1>b, <2>1, WrittenKept DEF Buffered, InBatch, WrittenOK
<1>3. ASSUME NEW m \in wire, BufferMessage(m) PROVE WrittenOK'
  <2>1. UNCHANGED <<p, cursor>> /\ wire' \subseteq wire /\ buffer' = Append(buffer, m)
      BY <1>3 DEF BufferMessage, db
  <2>2. Buffered' \subseteq Buffered \cup {m}
      BY <2>1 DEF Buffered, TypeOK, MemOK, MaxOK
  <2>. QED
      BY <1>0, <1>a, <1>b, <2>1, <2>2, WrittenKept DEF InBatch, WrittenOK
<1>4. CASE SocketDrop \/ OnStartAgain \/ HourPasses
  <2>1. UNCHANGED <<buffer, p, cursor>> /\ wire' \subseteq wire
      BY <1>4 DEF SocketDrop, OnStartAgain, HourPasses, maxSide, mem, db
  <2>. QED
      BY <1>0, <1>a, <1>b, <2>1, WrittenKept DEF Buffered, InBatch, WrittenOK
<1>5. CASE Resync
  <2>1. UNCHANGED <<wire, buffer, p, hist>>
      BY <1>5, ResyncLeaves DEF maxSide, mem
  <2>2. cursor' = cursor \/ \A d \in Chats : cursor'[d] <= Len(hist'[d])
      <3>1. CASE ResyncCursor
          <4>1. cursor' = NewestCursor(r.chat)
              BY <3>1 DEF ResyncCursor
          <4>2. \A d \in Chats : cursor[d] <= Len(hist[d])
              BY DEF WrittenOK, Written
          <4>. QED
              BY <1>0, <2>1, <4>1, <4>2 DEF NewestCursor, TypeOK, DbOK
      <3>2. CASE ~ResyncCursor
          BY <1>5, <3>2 DEF Resync, ResyncBegin, ResyncCreate, ResyncBackfill, BackfillSends,
                            ResyncFails, db
      <3>. QED
          BY <3>1, <3>2
  <2>. QED
      BY <1>0, <1>a, <1>b, <2>1, <2>2, WrittenKept DEF Buffered, InBatch, WrittenOK
<1>6. CASE Crash \/ ReconnectStorm \/ DrainBufferedMessages
  <2>1. /\ cursor' = cursor /\ wire' \subseteq wire /\ buffer' = <<>>
        /\ p'.batch \in {<<>>, buffer} /\ p'.pc \notin {"send", "link", "settle"} /\ ~InBatch'
      <3>1. CASE Crash \/ ReconnectStorm
          BY <3>1 DEF Crash, ReconnectStorm, Ready, InBatch, maxSide, db
      <3>2. CASE DrainBufferedMessages
          BY <3>2 DEF DrainBufferedMessages, ControlOK, InBatch, maxSide, db, TypeOK, PollerOK,
                      PollerType
      <3>. QED
          BY <1>6, <3>1, <3>2
  <2>2. Buffered' = {} /\ Batched' \subseteq Buffered
      BY <2>1 DEF Buffered, Batched
  <2>. QED
      BY <1>0, <2>1, <2>2, WrittenKept
<1>7. CASE \/ PollBegin \/ LiveSkipped \/ LiveUnmapped \/ PollDirtyChats
           \/ RecoverAfterReconnect \/ EndDirty \/ EndRecover \/ FindTopics \/ EndCatchUp
           \/ ReconcileUser \/ ReconcileRaises \/ CreateTopic \/ TopicFails \/ Backfill
           \/ EndReconcile \/ ReadTopic \/ GetMessagesRaises
  <2>1. /\ UNCHANGED <<wire, buffer, cursor>>
        /\ p'.batch = p.batch \/ p'.batch = <<>> \/ (p.batch # <<>> /\ p'.batch = Tail(p.batch))
        /\ p'.pc \notin {"batch", "send", "link", "settle"}
      <3>1. CASE PollBegin
          BY <3>1 DEF PollBegin, Ready, maxSide, mem, db, TypeOK, PollerOK, PollerType
      <3>2. CASE PollDirtyChats
          BY <3>2 DEF PollDirtyChats, LiveDone, maxSide, mem, db, TypeOK, PollerOK, PollerType
      <3>3. CASE RecoverAfterReconnect
          BY <3>3 DEF RecoverAfterReconnect, LiveDone, maxSide, mem, db, TypeOK, PollerOK,
                      PollerType
      <3>4. CASE EndDirty
          BY <3>4 DEF EndDirty, Ready, maxSide, mem, db, TypeOK, PollerOK, PollerType
      <3>5. CASE EndRecover
          BY <3>5 DEF EndRecover, Ready, maxSide, mem, db, TypeOK, PollerOK, PollerType
      <3>6. CASE LiveSkipped
          BY <3>6 DEF LiveSkipped, LiveMessage, maxSide, mem, db, TypeOK, PollerOK, PollerType
      <3>7. CASE LiveUnmapped
          BY <3>7 DEF LiveUnmapped, LiveMessage, maxSide, mem, db, TypeOK, PollerOK,
                      PollerType
      <3>8. CASE FindTopics
          BY <3>8 DEF FindTopics, maxSide, mem, db, TypeOK, PollerOK, PollerType
      <3>9. CASE EndCatchUp
          BY <3>9 DEF EndCatchUp, Ready, maxSide, mem, db, TypeOK, PollerOK, PollerType
      <3>10. CASE ReconcileUser
          BY <3>10 DEF ReconcileUser, maxSide, mem, db, TypeOK, PollerOK, PollerType
      <3>11. CASE ReconcileRaises
          BY <3>11 DEF ReconcileRaises, Ready, maxSide, mem, db, TypeOK, PollerOK, PollerType
      <3>12. CASE CreateTopic
          BY <3>12 DEF CreateTopic, maxSide, mem, db, TypeOK, PollerOK, PollerType
      <3>13. CASE TopicFails
          BY <3>13 DEF TopicFails, NextTopic, maxSide, mem, db, TypeOK, PollerOK, PollerType
      <3>14. CASE Backfill
          BY <3>14 DEF Backfill, NextTopic, maxSide, mem, db, TypeOK, PollerOK, PollerType
      <3>15. CASE EndReconcile
          BY <3>15 DEF EndReconcile, maxSide, mem, db, TypeOK, PollerOK, PollerType
      <3>16. CASE ReadTopic
          BY <3>16 DEF ReadTopic, maxSide, mem, db, TypeOK, PollerOK, PollerType
      <3>17. CASE GetMessagesRaises
          BY <3>17 DEF GetMessagesRaises, Ready, maxSide, mem, db, TypeOK, PollerOK,
                      PollerType
      <3>. QED
          BY <1>7, <3>1, <3>2, <3>3, <3>4, <3>5, <3>6, <3>7, <3>8, <3>9, <3>10, <3>11,
             <3>12, <3>13, <3>14, <3>15, <3>16, <3>17
  <2>. QED
      BY <1>0, <2>1, BatchMoves, WrittenKept DEF Buffered, InBatch
<1>8. CASE LiveDeliver \/ SendMessageToTelegram \/ SaveMessageLink \/ BatchDeliver
  <2>1. /\ UNCHANGED <<wire, buffer, cursor>>
        /\ p'.batch = p.batch /\ p'.mode = p.mode /\ p'.latest = p.latest
      BY <1>8 DEF LiveDeliver, SendMessageToTelegram, SaveMessageLink, BatchDeliver,
                  maxSide, mem, db, TypeOK, PollerOK, PollerType
  <2>2. InBatch' => InBatch /\ p'.chat = p.chat
      BY <1>8, <2>1 DEF LiveDeliver, LiveMessage, SendMessageToTelegram, SaveMessageLink,
                        BatchDeliver, InBatch, ControlOK, TypeOK, PollerOK, PollerType
  <2>3. Current[1] = p'.chat
      <3>1. CASE LiveDeliver
          BY <3>1 DEF LiveDeliver, TypeOK, PollerOK, PollerType
      <3>2. CASE SendMessageToTelegram \/ SaveMessageLink
          BY <3>2 DEF SendMessageToTelegram, SaveMessageLink, WrittenOK, TypeOK, PollerOK,
                      PollerType
      <3>3. CASE BatchDeliver
          <4>1. Polling /\ p.pc = "batch" /\ p.batch # <<>> /\ p'.chat = p.chat
              BY <3>3 DEF BatchDeliver, Polling, ControlOK, TypeOK, PollerOK, PollerType
          <4>. QED
              BY <4>1, BatchTail DEF QuietOK, QuietPolls, Current
      <3>. QED
          BY <1>8, <3>1, <3>2, <3>3
  <2>. QED
      BY <1>0, <1>a, <1>b, <2>1, <2>2, <2>3, WrittenKept DEF Buffered
<1>9. CASE SendFails \/ BatchSkipped \/ BatchSettle
  <2>1. /\ UNCHANGED <<wire, buffer, cursor>> /\ p.batch # <<>>
        /\ p'.batch = Tail(p.batch) /\ p'.pc \in {"live", "batch"}
      BY <1>9 DEF SendFails, Undelivered, NextLive, BatchSkipped, BatchSettle, Ready, ControlOK,
                  maxSide, mem, db, TypeOK, PollerOK, PollerType
  <2>2. InBatch' => /\ InBatch /\ p'.chat = p.chat
                    /\ p'.latest \in {p.latest, Current[2]}
      BY <1>9 DEF SendFails, Undelivered, NextLive, BatchSkipped, BatchSettle, Ready, InBatch,
                  ControlOK, TypeOK, PollerOK, PollerType
  <2>3. InBatch' => Current[2] <= Len(hist'[p.chat])
      <3>1. Current \in Batched /\ Current[2] \in Nat
          BY <2>1, BatchTail DEF Batched, Current
      <3>2. InBatch => Current[1] = p.chat
          BY <2>1, BatchTail DEF InBatch, Polling, QuietOK, QuietPolls, Current
      <3>3. Current[2] <= Len(hist[Current[1]])
          BY <3>1 DEF WrittenOK, Written, Batched
      <3>. QED
          BY <1>0, <1>a, <2>2, <3>1, <3>2, <3>3
  <2>4. Batched' \subseteq Batched
      BY <2>1, BatchMoves
  <2>. QED
      BY <1>0, <1>a, <2>1, <2>2, <2>3, <2>4, WrittenKept DEF Buffered
<1>10. CASE LiveSettle \/ FinishChat \/ BackfillCursor
  <2>1. /\ UNCHANGED <<wire, buffer, hist>>
        /\ p'.batch = p.batch \/ p'.batch = <<>> \/ (p.batch # <<>> /\ p'.batch = Tail(p.batch))
        /\ p'.pc \notin {"batch", "send", "link", "settle"}
      BY <1>10 DEF LiveSettle, NextLive, FinishChat, BackfillCursor, NextTopic, Ready, ControlOK,
                   maxSide, mem, TypeOK, PollerOK, PollerType
  <2>2. \A d \in Chats : cursor'[d] <= Len(hist'[d])
      <3>1. \A d \in Chats : cursor[d] <= Len(hist[d])
          BY DEF WrittenOK, Written
      <3>2. CASE LiveSettle
          <4>1. cursor' = [cursor EXCEPT ![p.chat] = Current[2]] /\ Current[1] = p.chat
              BY <3>2 DEF LiveSettle, WrittenOK
          <4>2. Current \in Batched
              BY <3>2, BatchTail DEF LiveSettle, ControlOK, Batched, Current
          <4>3. Current[2] <= Len(hist[p.chat])
              BY <4>1, <4>2 DEF WrittenOK, Written, Batched
          <4>. QED
              BY <2>1, <3>1, <4>1, <4>3 DEF TypeOK, DbOK
      <3>3. CASE FinishChat
          <4>1. p.latest <= Len(hist[p.chat])
              BY <3>3 DEF FinishChat, ControlOK, InBatch, WrittenOK, Written
          <4>2. cursor' = cursor \/ cursor' = [cursor EXCEPT ![p.chat] = p.latest]
              BY <3>3 DEF FinishChat
          <4>. QED
              BY <2>1, <3>1, <4>1, <4>2 DEF TypeOK, DbOK
      <3>4. CASE BackfillCursor
          <4>1. cursor' = NewestCursor(p.chat)
              BY <3>4 DEF BackfillCursor
          <4>. QED
              BY <1>0, <2>1, <3>1, <4>1 DEF NewestCursor, TypeOK, DbOK
      <3>. QED
          BY <1>10, <3>2, <3>3, <3>4
  <2>. QED
      BY <1>0, <2>1, <2>2, BatchMoves, WrittenKept DEF Buffered, InBatch
<1>11. CASE GetMessages
  <2>1. /\ UNCHANGED <<wire, buffer, cursor, hist>> /\ p.chat \in Chats /\ p.pos \in Nat
        /\ p'.batch = Fetched(p.chat, p.pos, HistoryLimit)
        /\ p'.latest = 0 /\ p'.pc = "batch"
      BY <1>11 DEF GetMessages, ControlOK, maxSide, mem, db, TypeOK, PollerOK, PollerType
  <2>2. \A i \in DOMAIN p'.batch : Written(p'.batch[i])
      BY <2>1, FetchedReach, BoundsAssumption DEF TypeOK
  <2>3. \A m \in wire' \cup Buffered' : Written(m)'
      BY <2>1 DEF WrittenOK, Written, Buffered
  <2>4. \A c \in Chats : Written(<<c, cursor[c]>>)'
      BY <2>1 DEF WrittenOK, Written
  <2>5. InBatch' => Written(<<p.chat, p.latest>>)'
      BY <1>0, <1>a, <2>1 DEF Written
  <2>6. \A i \in DOMAIN p'.batch : Written(p.batch[i])'
      BY <2>1, <2>2 DEF Written
  <2>. QED
      BY <2>1, <2>3, <2>4, <2>5, <2>6 DEF WrittenOK
<1>12. CASE UNCHANGED vars
  <2>1. UNCHANGED <<wire, buffer, p, cursor>>
      BY <1>12 DEF vars, maxSide, mem, db
  <2>. QED
      BY <1>0, <1>a, <1>b, <2>1, WrittenKept DEF Buffered, InBatch, WrittenOK
<1>. QED
    BY <1>1, <1>2, <1>3, <1>4, <1>5, <1>6, <1>7, <1>8, <1>9, <1>10, <1>11, <1>12
    DEF Next, Environment, Callbacks, PollUser, Deliver

\* Dealt with once the step is done.
DealtAfter(c, i) ==
    <<c, i>> \in linked' \cup audited' \cup skipped' \/ i + HistoryLimit <= Len(hist'[c])

\* What was dealt with stays so.
LEMMA DealtStays ==
    ASSUME TypeOK, CreateOK, [Next]_vars, NEW c \in Chats, NEW i \in Int, Dealt(c, i)
    PROVE  DealtAfter(c, i)
<1>1. /\ Len(hist[c]) \in Nat /\ Len(hist'[c]) \in Nat /\ Len(hist[c]) <= Len(hist'[c])
      /\ linked \cup audited \cup skipped \subseteq linked' \cup audited' \cup skipped'
    BY RecordsGrow
<1>. QED
    BY <1>1, BoundsAssumption DEF Dealt, DealtAfter

\* A step that leaves the batch of a poll alone.
LEMMA ReachKept ==
    ASSUME TypeOK, ControlOK, CreateOK, ReachOK, [Next]_vars,
           Polling' => /\ Polling /\ p'.chat = p.chat /\ p'.pos = p.pos
                       /\ cursor[p.chat] <= cursor'[p.chat] /\ cursor'[p.chat] \in Nat,
           InBatch' => InBatch /\ p'.latest = p.latest /\ p'.batch = p.batch
    PROVE  ReachOK'
<1>0. InBatch => Polling
    BY DEF InBatch, Polling
<1>1. Polling => p.chat \in Chats /\ p.pos \in Nat /\ cursor[p.chat] \in Nat /\ p.latest \in Nat
    BY BoundsAssumption DEF Polling, ControlOK, TypeOK, PollerOK, PollerType, DbOK
<1>2. Polling' => p'.pos <= cursor'[p'.chat]
    BY <1>1 DEF ReachOK
<1>3. InBatch' => \A i \in (p'.pos + 1)..p'.latest : DealtAfter(p'.chat, i)
    <2>. SUFFICES ASSUME InBatch', NEW i \in (p'.pos + 1)..p'.latest PROVE DealtAfter(p'.chat, i)
        OBVIOUS
    <2>1. InBatch /\ Polling' /\ p'.chat = p.chat /\ p'.pos = p.pos /\ p'.latest = p.latest
        BY DEF InBatch, Polling
    <2>2. Dealt(p.chat, i) /\ i \in Int /\ p.chat \in Chats
        BY <1>0, <1>1, <2>1 DEF ReachOK
    <2>. QED
        BY <2>1, <2>2, DealtStays
<1>4. InBatch' =>
        \A k \in DOMAIN p'.batch : \A i \in (p'.pos + 1)..(p'.batch[k][2] - 1) :
            DealtAfter(p'.chat, i) \/ \E j \in 1..(k - 1) : p'.batch[j] = <<p'.chat, i>>
    <2>. SUFFICES ASSUME InBatch', NEW k \in DOMAIN p'.batch,
                         NEW i \in (p'.pos + 1)..(p'.batch[k][2] - 1)
                  PROVE  DealtAfter(p'.chat, i) \/ \E j \in 1..(k - 1) : p'.batch[j] = <<p'.chat, i>>
        OBVIOUS
    <2>1. InBatch /\ p'.chat = p.chat /\ p'.pos = p.pos /\ p'.batch = p.batch
        BY DEF InBatch, Polling
    <2>2. Dealt(p.chat, i) \/ \E j \in 1..(k - 1) : p.batch[j] = <<p.chat, i>>
        BY <2>1 DEF ReachOK
    <2>3. i \in Int /\ p.chat \in Chats
        <3>1. p.batch[k] \in Msgs
            BY <2>1 DEF TypeOK, PollerOK, PollerType
        <3>2. p.batch[k][2] \in Int /\ p.pos \in Nat
            BY <1>0, <1>1, <2>1, <3>1, BoundsAssumption DEF Msgs, Ids
        <3>. QED
            BY <1>0, <1>1, <2>1, <3>2
    <2>. QED
        BY <2>1, <2>2, <2>3, DealtStays
<1>. QED
    BY <1>2, <1>3, <1>4 DEF ReachOK, Dealt, DealtAfter

\* A poll goes on behind the message in hand, which has been dealt with.
LEMMA ReachTail ==
    ASSUME TypeOK, ControlOK, CreateOK, QuietOK, ReachOK, [Next]_vars, InBatch, p.batch # <<>>,
           Current \in linked' \cup audited' \cup skipped', cursor' = cursor,
           p'.batch = Tail(p.batch), p'.latest \in {p.latest, Current[2]},
           p'.chat = p.chat, p'.pos = p.pos
    PROVE  ReachOK'
<1>1. /\ p.chat \in Chats /\ p.pos \in Nat /\ p.pos <= cursor[p.chat] /\ p.latest \in Nat
      /\ p.batch \in Seq(Msgs)
    BY BoundsAssumption
       DEF InBatch, Polling, ControlOK, ReachOK, TypeOK, PollerOK, PollerType
<1>2. /\ Current = p.batch[1] /\ Current[1] = p.chat /\ Current[2] \in Nat
      /\ Current = <<p.chat, Current[2]>>
    <2>1. Current = p.batch[1] /\ Current \in Msgs /\ Current[2] \in Nat /\ 1 \in DOMAIN p.batch
        BY BatchTail DEF Current
    <2>2. Current[1] = p.chat
        BY <2>1 DEF InBatch, Polling, QuietOK, QuietPolls
    <2>. QED
        BY <2>1, <2>2 DEF Msgs
<1>3. DealtAfter(p.chat, Current[2])
    BY <1>2 DEF DealtAfter
<1>4. ASSUME NEW i \in (p.pos + 1)..p'.latest PROVE DealtAfter(p'.chat, i)
    <2>1. CASE i = Current[2]
        BY <1>3, <2>1
    <2>2. CASE p'.latest = p.latest
        <3>1. Dealt(p.chat, i) /\ i \in Int
            BY <1>1, <2>2 DEF ReachOK
        <3>. QED
            BY <1>1, <3>1, DealtStays
    <2>3. CASE p'.latest = Current[2] /\ i # Current[2]
        <3>1. i \in (p.pos + 1)..(Current[2] - 1) /\ i \in Int
            BY <1>1, <1>2, <2>3
        <3>2. 1 \in DOMAIN p.batch /\ i \in (p.pos + 1)..(p.batch[1][2] - 1)
            BY <1>2, <3>1, BatchTail
        <3>3. Dealt(p.chat, i) \/ \E j \in 1..(1 - 1) : p.batch[j] = <<p.chat, i>>
            BY <3>2 DEF ReachOK
        <3>. QED
            BY <1>1, <3>1, <3>3, DealtStays
    <2>. QED
        BY <2>1, <2>2, <2>3
<1>5. ASSUME NEW k \in DOMAIN p'.batch, NEW i \in (p.pos + 1)..(p'.batch[k][2] - 1)
      PROVE  DealtAfter(p'.chat, i) \/ \E j \in 1..(k - 1) : p'.batch[j] = <<p'.chat, i>>
    <2>1. k \in Nat /\ k + 1 \in DOMAIN p.batch /\ p'.batch[k] = p.batch[k + 1]
        BY BatchTail
    <2>2. Dealt(p.chat, i) \/ \E j \in 1..((k + 1) - 1) : p.batch[j] = <<p.chat, i>>
        BY <2>1 DEF ReachOK
    <2>3. i \in Int
        <3>1. p.batch[k + 1] \in Msgs
            BY <1>1, <2>1
        <3>2. p'.batch[k][2] \in Int
            BY <2>1, <3>1, BoundsAssumption DEF Msgs, Ids
        <3>. QED
            BY <1>1, <3>2
    <2>4. CASE Dealt(p.chat, i)
        BY <1>1, <2>3, <2>4, DealtStays
    <2>5. ASSUME NEW j \in 1..((k + 1) - 1), p.batch[j] = <<p.chat, i>>
          PROVE  DealtAfter(p'.chat, i) \/ \E l \in 1..(k - 1) : p'.batch[l] = <<p'.chat, i>>
        <3>1. CASE j = 1
            BY <1>2, <1>3, <2>5, <3>1
        <3>2. CASE j # 1
            <4>1. j - 1 \in 1..(k - 1) /\ (j - 1) + 1 = j /\ j - 1 \in DOMAIN Tail(p.batch)
                BY <1>1, <2>1, <3>2
            <4>2. p'.batch[j - 1] = p.batch[j]
                BY <4>1, BatchTail
            <4>. QED
                BY <2>5, <4>1, <4>2
        <3>. QED
            BY <3>1, <3>2
    <2>. QED
        BY <2>2, <2>4, <2>5
<1>. QED
    BY <1>1, <1>4, <1>5 DEF ReachOK, Dealt, DealtAfter

LEMMA ReachStep ==
    TypeOK /\ ControlOK /\ CreateOK /\ QuietOK /\ HandOK /\ WrittenOK /\ ReachOK /\ [Next]_vars
        => ReachOK'
<1>. SUFFICES ASSUME TypeOK, ControlOK, CreateOK, QuietOK, HandOK, WrittenOK, ReachOK, [Next]_vars
              PROVE  ReachOK'
    OBVIOUS
<1>0. /\ Polling => p.chat \in Chats
      /\ \A c \in Chats : cursor[c] \in Nat /\ Len(hist[c]) \in Nat
    BY BoundsAssumption DEF Polling, ControlOK, TypeOK, MaxOK, DbOK
<1>1. ASSUME p' = p, cursor' = cursor PROVE ReachOK'
    BY <1>0, <1>1, ReachKept DEF Polling, InBatch
<1>2. ASSUME ~Polling' PROVE ReachOK'
    <2>1. ~InBatch'
        BY <1>2 DEF Polling, InBatch
    <2>. QED
        BY <1>2, <2>1, ReachKept
<1>3. ASSUME NEW c \in Chats, \/ \E k \in PostKinds : Post(c, k)
                              \/ OutboundSend(c) \/ MarkChatDirty(c) \/ Mute(c) \/ Unmute(c)
      PROVE  p' = p /\ cursor' = cursor
    BY <1>3 DEF Post, OutboundSend, MarkChatDirty, Mute, Unmute, db
<1>4. CASE SocketDrop \/ HourPasses \/ Callbacks \/ UNCHANGED vars
    <2>1. p' = p /\ cursor' = cursor
        BY <1>4 DEF SocketDrop, HourPasses, Callbacks, OnStartAgain, BufferMessage, db, vars
    <2>. QED
        BY <1>1, <2>1
<1>5. CASE Resync
    <2>1. UNCHANGED <<p, hist>>
        BY <1>5, ResyncLeaves DEF maxSide
    <2>2. CASE ResyncCursor
        <3>1. cursor' = NewestCursor(r.chat)
            BY <2>2 DEF ResyncCursor
        <3>2. \A c \in Chats : cursor[c] <= Len(hist[c])
            BY DEF WrittenOK, Written
        <3>3. \A c \in Chats : cursor[c] <= cursor'[c] /\ cursor'[c] \in Nat
            BY <1>0, <3>1, <3>2 DEF NewestCursor, TypeOK, DbOK
        <3>. QED
            BY <1>0, <2>1, <3>3, ReachKept DEF Polling, InBatch
    <2>3. CASE ~ResyncCursor
        <3>1. cursor' = cursor
            BY <1>5, <2>3 DEF Resync, ResyncBegin, ResyncCreate, ResyncBackfill, BackfillSends,
                              ResyncFails, db
        <3>. QED
            BY <1>1, <2>1, <3>1
    <2>. QED
        BY <2>2, <2>3
<1>6. CASE \/ Crash \/ ReconnectStorm \/ PollBegin \/ DrainBufferedMessages \/ LiveSkipped
           \/ LiveUnmapped \/ LiveDeliver \/ LiveSettle
    <2>1. p'.mode = "live"
        <3>1. CASE Crash
            BY <3>1 DEF Crash, Ready, ControlOK, TypeOK, PollerOK, PollerType
        <3>2. CASE ReconnectStorm
            BY <3>2 DEF ReconnectStorm, Ready, ControlOK, TypeOK, PollerOK, PollerType
        <3>3. CASE PollBegin
            BY <3>3 DEF PollBegin, Ready, ControlOK, TypeOK, PollerOK, PollerType
        <3>4. CASE DrainBufferedMessages
            BY <3>4 DEF DrainBufferedMessages, ControlOK, TypeOK, PollerOK, PollerType
        <3>5. CASE LiveSkipped
            BY <3>5 DEF LiveSkipped, LiveMessage, ControlOK, TypeOK, PollerOK, PollerType
        <3>6. CASE LiveUnmapped
            BY <3>6 DEF LiveUnmapped, LiveMessage, ControlOK, TypeOK, PollerOK, PollerType
        <3>7. CASE LiveDeliver
            BY <3>7 DEF LiveDeliver, LiveMessage, ControlOK, TypeOK, PollerOK, PollerType
        <3>8. CASE LiveSettle
            BY <3>8 DEF LiveSettle, NextLive, Ready, ControlOK, TypeOK, PollerOK, PollerType
        <3>. QED
            BY <1>6, <3>1, <3>2, <3>3, <3>4, <3>5, <3>6, <3>7, <3>8
    <2>. QED
        BY <1>2, <2>1 DEF Polling
<1>7. CASE \/ PollDirtyChats \/ RecoverAfterReconnect \/ EndDirty \/ EndRecover \/ FindTopics
           \/ EndCatchUp \/ ReconcileUser \/ ReconcileRaises \/ CreateTopic \/ TopicFails
           \/ Backfill \/ BackfillCursor \/ EndReconcile \/ GetMessagesRaises \/ FinishChat
    <2>1. p'.pc \notin {"fetch", "batch", "send", "link", "settle"}
        <3>1. CASE PollDirtyChats
            BY <3>1 DEF PollDirtyChats, TypeOK, PollerOK, PollerType
        <3>2. CASE RecoverAfterReconnect
            BY <3>2 DEF RecoverAfterReconnect, TypeOK, PollerOK, PollerType
        <3>3. CASE EndDirty
            BY <3>3 DEF EndDirty, Ready, TypeOK, PollerOK, PollerType
        <3>4. CASE EndRecover
            BY <3>4 DEF EndRecover, Ready, TypeOK, PollerOK, PollerType
        <3>5. CASE FindTopics
            BY <3>5 DEF FindTopics, TypeOK, PollerOK, PollerType
        <3>6. CASE EndCatchUp
            BY <3>6 DEF EndCatchUp, Ready, TypeOK, PollerOK, PollerType
        <3>7. CASE ReconcileUser
            BY <3>7 DEF ReconcileUser, TypeOK, PollerOK, PollerType
        <3>8. CASE ReconcileRaises
            BY <3>8 DEF ReconcileRaises, Ready, TypeOK, PollerOK, PollerType
        <3>9. CASE CreateTopic
            BY <3>9 DEF CreateTopic, TypeOK, PollerOK, PollerType
        <3>10. CASE TopicFails
            BY <3>10 DEF TopicFails, NextTopic, TypeOK, PollerOK, PollerType
        <3>11. CASE Backfill
            BY <3>11 DEF Backfill, NextTopic, TypeOK, PollerOK, PollerType
        <3>12. CASE BackfillCursor
            BY <3>12 DEF BackfillCursor, NextTopic, TypeOK, PollerOK, PollerType
        <3>13. CASE EndReconcile
            BY <3>13 DEF EndReconcile, TypeOK, PollerOK, PollerType
        <3>14. CASE GetMessagesRaises
            BY <3>14 DEF GetMessagesRaises, Ready, TypeOK, PollerOK, PollerType
        <3>15. CASE FinishChat
            BY <3>15 DEF FinishChat, Ready, TypeOK, PollerOK, PollerType
        <3>. QED
            BY <1>7, <3>1, <3>2, <3>3, <3>4, <3>5, <3>6, <3>7, <3>8, <3>9, <3>10,
               <3>11, <3>12, <3>13, <3>14, <3>15
    <2>. QED
        BY <1>2, <2>1 DEF Polling
<1>8. CASE SendMessageToTelegram \/ SaveMessageLink \/ BatchDeliver
    <2>1. /\ cursor' = cursor /\ p.pc \in {"send", "link", "batch"} /\ p'.mode = p.mode
          /\ p'.batch = p.batch /\ p'.latest = p.latest /\ p'.chat = p.chat /\ p'.pos = p.pos
        BY <1>8 DEF SendMessageToTelegram, SaveMessageLink, BatchDeliver, db, TypeOK, PollerOK,
                    PollerType
    <2>. QED
        BY <1>0, <2>1, ReachKept DEF Polling, InBatch
<1>9. CASE SendFails \/ BatchSkipped \/ BatchSettle
    <2>1. CASE p.mode = "live"
        <3>1. p'.mode = "live"
            BY <1>9, <2>1 DEF SendFails, Undelivered, NextLive, BatchSkipped, BatchSettle, Ready,
                              ControlOK, TypeOK, PollerOK, PollerType
        <3>. QED
            BY <1>2, <3>1 DEF Polling
    <2>2. CASE p.mode # "live"
        <3>1. /\ InBatch /\ p.batch # <<>> /\ cursor' = cursor /\ p'.batch = Tail(p.batch)
              /\ p'.latest \in {p.latest, Current[2]} /\ p'.chat = p.chat /\ p'.pos = p.pos
            BY <1>9, <2>2 DEF SendFails, Undelivered, BatchSkipped, BatchSettle, InBatch,
                              ControlOK, db, TypeOK, PollerOK, PollerType
        <3>2. Current \in linked' \cup audited' \cup skipped'
            BY <1>9 DEF SendFails, BatchSkipped, BatchSettle, HandOK, db
        <3>. QED
            BY <3>1, <3>2, ReachTail
    <2>. QED
        BY <2>1, <2>2
<1>10. CASE ReadTopic
    <2>1. /\ cursor' = cursor /\ p'.pc \in {"fetch", "next"} /\ p.todo \in Seq(Chats)
          /\ p.todo # <<>>
          /\ p'.pc = "fetch" => p'.chat = p.todo[1] /\ p'.pos = cursor[p.todo[1]]
        BY <1>10 DEF ReadTopic, db, TypeOK, PollerOK, PollerType
    <2>2. p.todo[1] \in Chats
        BY <2>1
    <2>. QED
        BY <1>0, <2>1, <2>2 DEF ReachOK, Polling, InBatch
<1>11. CASE GetMessages
    <2>1. /\ UNCHANGED <<cursor, hist>> /\ p.pc = "fetch" /\ p.chat \in Chats /\ p.pos \in Nat
          /\ p'.batch = Fetched(p.chat, p.pos, HistoryLimit) /\ p'.mode = p.mode
          /\ p'.latest = 0 /\ p'.pc = "batch" /\ p'.chat = p.chat /\ p'.pos = p.pos
        BY <1>11 DEF GetMessages, ControlOK, maxSide, db, TypeOK, PollerOK, PollerType
    <2>2. Polling' => p'.pos <= cursor'[p'.chat]
        BY <2>1 DEF ReachOK, Polling
    <2>3. \A i \in (p'.pos + 1)..p'.latest : DealtAfter(p'.chat, i)
        BY <2>1
    <2>4. ASSUME NEW k \in DOMAIN p'.batch, NEW i \in (p'.pos + 1)..(p'.batch[k][2] - 1)
          PROVE  DealtAfter(p'.chat, i) \/ \E j \in 1..(k - 1) : p'.batch[j] = <<p'.chat, i>>
        <3>1. MaxOK /\ HistoryLimit \in Nat
            BY BoundsAssumption DEF TypeOK
        <3>2. /\ k \in DOMAIN Fetched(p.chat, p.pos, HistoryLimit)
              /\ i \in (p.pos + 1)..(Fetched(p.chat, p.pos, HistoryLimit)[k][2] - 1)
            BY <2>1, Zenon
        <3>3. \/ i + HistoryLimit <= Len(hist[p.chat])
              \/ \E j \in 1..(k - 1) : Fetched(p.chat, p.pos, HistoryLimit)[j] = <<p.chat, i>>
            BY <2>1, <3>1, <3>2, FetchedReach
        <3>. QED
            BY <2>1, <3>3 DEF DealtAfter
    <2>. QED
        BY <2>2, <2>3, <2>4 DEF ReachOK, Dealt, DealtAfter
<1>. QED
    BY <1>1, <1>3, <1>4, <1>5, <1>6, <1>7, <1>8, <1>9, <1>10, <1>11
    DEF Next, Environment, PollUser, Deliver

-----------------------------------------------------------------------------
(* The theorems.                                                           *)

LEMMA IInvInit == Init => IInv
<1>. SUFFICES ASSUME Init PROVE IInv
    OBVIOUS
<1>1. TypeOK
    BY TypeInit
<1>2. p.pc = "idle" /\ p.mode = "live"
    BY DEF Init, Ready
<1>3. ControlOK /\ CreateOK /\ QuietOK
    BY <1>2
       DEF Init, ControlOK, CreateOK, Creating, NoResync, QuietOK, QuietTopics, QuietPolls,
           QuietSends, Polling
<1>4. LinkOK
    BY <1>2 DEF Init, LinkOK
<1>5. HandOK
    BY <1>2 DEF Init, Ready, HandOK
<1>6. EveryTextHasAFate
    <2>1. \A m \in Msgs : hist[m[1]] = <<>>
        BY DEF Init, Msgs
    <2>2. DOMAIN <<>> = {}
        OBVIOUS
    <2>. QED
        BY <2>1, <2>2 DEF EveryTextHasAFate, Text
<1>7. WrittenOK
    <2>1. /\ wire = {} /\ buffer = <<>> /\ p.batch = <<>> /\ p.pc = "idle" /\ p.mode = "live"
          /\ \A c \in Chats : hist[c] = <<>> /\ cursor[c] = 0
        BY DEF Init, Ready
    <2>2. DOMAIN <<>> = {} /\ Len(<<>>) = 0
        OBVIOUS
    <2>3. wire \cup Buffered \cup {p.batch[i] : i \in DOMAIN p.batch} = {}
        BY <2>1, <2>2 DEF Buffered
    <2>. QED
        BY <2>1, <2>2, <2>3 DEF WrittenOK, Written, InBatch
<1>8. ReachOK
    BY <1>2 DEF ReachOK, Polling, InBatch
<1>. QED
    BY <1>1, <1>3, <1>4, <1>5, <1>6, <1>7, <1>8 DEF IInv

LEMMA IInvStep == IInv /\ [Next]_vars => IInv'
BY TypeStep, ControlStep, LinkStep, CreateStep, QuietStep, HandStep, FateStep, WrittenStep,
   ReachStep
DEF IInv

\* The strengthened invariant holds of every behaviour of the inbound path.
THEOREM Inductive == Spec => []IInv
BY IInvInit, IInvStep, PTL DEF Spec

\* Every state of the inbound path is well typed, whatever the chats, the bounds,
\* the failures and the crashes (all of InboundSync).
THEOREM TypeCorrect == Spec => []TypeOK
<1>1. IInv => TypeOK
    BY DEF IInv
<1>. QED
    BY <1>1, Inductive, PTL

\* A text written while its topic was muted is never sent over the live path, and over a
\* poll only by one that had read the topic before the text was written
\* (_is_before_inbound_window, /unmute); the backfill of a /resync is not claimed.
THEOREM MuteLateByOneRead == Spec => []MuteIsLateAtMostByOneRead
<1>1. IInv => MuteIsLateAtMostByOneRead
    BY DEF IInv, QuietOK, QuietTopics, QuietPolls, QuietSends, MuteIsLateAtMostByOneRead
<1>. QED
    BY <1>1, Inductive, PTL

\* No text is lost without a trace: each one is linked, audited, skipped, backfilled or
\* still in hand, or its live copy went with the socket, the client, the batch or the
\* process (the buffer, poll_user and _deliver_message).
THEOREM EveryTextIsAccounted == Spec => []EveryTextHasAFate
<1>1. IInv => EveryTextHasAFate
    BY DEF IInv
<1>. QED
    BY <1>1, Inductive, PTL

\* Of the steps from a batch only FinishChat writes a cursor.
LEMMA BatchCursor ==
    ASSUME [Next]_vars, p.pc = "batch", p' # p, ~FinishChat
    PROVE  cursor' = cursor
<1>1. ASSUME NEW c \in Chats, \/ \E k \in PostKinds : Post(c, k)
                              \/ OutboundSend(c) \/ MarkChatDirty(c) \/ Mute(c) \/ Unmute(c)
      PROVE  cursor' = cursor
    BY <1>1 DEF Post, OutboundSend, MarkChatDirty, Mute, Unmute, db
<1>2. CASE SocketDrop \/ Crash \/ HourPasses \/ Callbacks \/ UNCHANGED vars
    BY <1>2 DEF SocketDrop, Crash, HourPasses, Callbacks, OnStartAgain, BufferMessage, db, vars
<1>3. CASE Resync
    BY <1>3, ResyncLeaves
<1>4. CASE BatchSkipped \/ BatchDeliver
    BY <1>4 DEF BatchSkipped, BatchDeliver, db
<1>5. \/ SocketDrop \/ Crash \/ HourPasses \/ Callbacks \/ UNCHANGED vars \/ Resync
      \/ BatchSkipped \/ BatchDeliver
      \/ \E c \in Chats : \/ \E k \in PostKinds : Post(c, k)
                          \/ OutboundSend(c) \/ MarkChatDirty(c) \/ Mute(c) \/ Unmute(c)
    BY DEF Next, Environment, PollUser, Deliver, PollBegin, DrainBufferedMessages, LiveSkipped,
           LiveUnmapped, LiveDeliver, LiveMessage, LiveSettle, SendMessageToTelegram, SendFails,
           SaveMessageLink, LiveDone, PollDirtyChats, RecoverAfterReconnect, ReconnectStorm,
           EndDirty, EndRecover, ReadTopic, GetMessages, GetMessagesRaises, BatchSettle,
           FindTopics, EndCatchUp, ReconcileUser, ReconcileRaises, CreateTopic, TopicFails,
           Backfill, BackfillCursor, EndReconcile
<1>. QED
    BY <1>1, <1>2, <1>3, <1>4, <1>5

\* When a poll writes the cursor, it passes only what it dealt with or could not fetch.
LEMMA GapStep ==
    ASSUME IInv, [Next]_vars, p.pc = "batch", p' # p,
           NEW c \in Chats, NEW i \in (cursor[c] + 1)..cursor'[c]
    PROVE  Dealt(c, i)
<1>1. /\ Polling /\ InBatch /\ p.chat \in Chats /\ p.pos \in Nat /\ p.latest \in Nat
      /\ cursor \in [Chats -> 0..MaxMessages] /\ cursor[c] \in Nat
    BY BoundsAssumption DEF IInv, ControlOK, Polling, InBatch, TypeOK, PollerOK, PollerType, DbOK
<1>2. cursor' # cursor
    BY <1>1
<1>3. FinishChat
    BY <1>2, BatchCursor
<1>4. cursor' = [cursor EXCEPT ![p.chat] = p.latest]
    BY <1>2, <1>3 DEF FinishChat
<1>5. c = p.chat /\ cursor'[c] = p.latest
    BY <1>1, <1>4
<1>6. p.pos <= cursor[c] /\ \A j \in (p.pos + 1)..p.latest : Dealt(c, j)
    BY <1>1, <1>5 DEF IInv, ReachOK
<1>. QED
    BY <1>1, <1>5, <1>6

\* A poll writes the cursor past nothing but what it delivered, audited or skipped on
\* purpose, and what lay deeper in the chat than its fetch (_poll_chat_with_client).
THEOREM OnlyTheGapIsPassed == Spec => PollsPassOnlyTheGap
<1>1. IInv /\ [Next]_vars
        => (p.pc = "batch" /\ p' # p
              => \A c \in Chats : \A i \in (cursor[c] + 1)..cursor'[c] : Dealt(c, i))
    BY GapStep
<1>. QED
    BY <1>1, Inductive, PTL DEF Spec, PollsPassOnlyTheGap

-----------------------------------------------------------------------------
(* InboundSync implements Delivery.                                        *)

PromiseKept == [Promise!Next]_(Promise!state)

\* A step that neither sends nor links is a stutter of Delivery, or its crash.
LEMMA PromiseFrame ==
    ASSUME tg' = tg, failures' = failures, linked' = linked,
           \/ crashes' = crashes /\ p' = p
           \/ crashes' = crashes /\ p.pc # "link" /\ p'.pc # "link"
           \/ crashes' = crashes + 1 /\ p'.pc # "link"
    PROVE  PromiseKept
<1>1. CASE crashes' = crashes /\ p' = p
    BY <1>1 DEF PromiseKept, Promise!state, Current
<1>2. CASE crashes' = crashes /\ p.pc # "link" /\ p'.pc # "link"
    BY <1>2 DEF PromiseKept, Promise!state
<1>3. CASE crashes' = crashes + 1 /\ p'.pc # "link"
    <2>1. Promise!Crash
        BY <1>3 DEF Promise!Crash
    <2>. QED
        BY <2>1 DEF PromiseKept, Promise!Next
<1>. QED
    BY <1>1, <1>2, <1>3

LEMMA PromiseInit == Init => Promise!Init
BY DEF Init, Ready, Promise!Init

LEMMA PromiseStep == TypeOK /\ ControlOK /\ LinkOK /\ [Next]_vars => PromiseKept
<1>. SUFFICES ASSUME TypeOK, ControlOK, LinkOK, [Next]_vars PROVE PromiseKept
    OBVIOUS
<1>1. ASSUME NEW c \in Chats, NEW k \in PostKinds, Post(c, k) PROVE PromiseKept
    BY <1>1, PromiseFrame DEF Post, seen, db, budgets
<1>2. ASSUME NEW c \in Chats, OutboundSend(c) PROVE PromiseKept
    BY <1>2, PromiseFrame DEF OutboundSend, seen, db, budgets
<1>3. ASSUME NEW c \in Chats, MarkChatDirty(c) PROVE PromiseKept
    BY <1>3, PromiseFrame DEF MarkChatDirty, seen, db, budgets
<1>4. ASSUME NEW c \in Chats, Mute(c) PROVE PromiseKept
    BY <1>4, PromiseFrame DEF Mute, seen, db, budgets, Command
<1>5. ASSUME NEW c \in Chats, Unmute(c) PROVE PromiseKept
    BY <1>5, PromiseFrame DEF Unmute, seen, db, budgets, Command
<1>6. ASSUME NEW m \in wire, BufferMessage(m) PROVE PromiseKept
    BY <1>6, PromiseFrame DEF BufferMessage, seen, db, budgets
<1>7. ASSUME SocketDrop PROVE PromiseKept
    BY <1>7, PromiseFrame DEF SocketDrop, seen, db, budgets, Fault
<1>8. ASSUME Crash PROVE PromiseKept
    BY <1>8, PromiseFrame
       DEF Crash, seen, db, budgets, Ready, LiveMessage, LiveDone, TypeOK, PollerOK,
           PollerType
<1>9. ASSUME OnStartAgain PROVE PromiseKept
    BY <1>9, PromiseFrame DEF OnStartAgain, seen, db, budgets
<1>10. ASSUME HourPasses PROVE PromiseKept
    BY <1>10, PromiseFrame DEF HourPasses, seen, db, budgets
<1>11. ASSUME PollBegin PROVE PromiseKept
    BY <1>11, PromiseFrame
       DEF PollBegin, seen, db, budgets, Ready, LiveMessage, LiveDone, TypeOK, PollerOK,
           PollerType
<1>12. ASSUME DrainBufferedMessages PROVE PromiseKept
    BY <1>12, PromiseFrame
       DEF DrainBufferedMessages, seen, db, budgets, Ready, LiveMessage, LiveDone,
           TypeOK, PollerOK, PollerType
<1>13. ASSUME LiveSkipped PROVE PromiseKept
    BY <1>13, PromiseFrame
       DEF LiveSkipped, seen, db, budgets, Ready, LiveMessage, LiveDone, TypeOK,
           PollerOK, PollerType
<1>14. ASSUME LiveUnmapped PROVE PromiseKept
    BY <1>14, PromiseFrame
       DEF LiveUnmapped, seen, db, budgets, Ready, LiveMessage, LiveDone, TypeOK,
           PollerOK, PollerType
<1>15. ASSUME LiveDeliver PROVE PromiseKept
    BY <1>15, PromiseFrame
       DEF LiveDeliver, seen, db, budgets, LiveMessage, TypeOK, PollerOK, PollerType
<1>16. ASSUME LiveSettle PROVE PromiseKept
    BY <1>16, PromiseFrame DEF LiveSettle, seen, db, budgets, NextLive, Ready
<1>17. ASSUME SendMessageToTelegram PROVE PromiseKept
  <2>1. Current \in Msgs /\ Current \notin linked
      BY <1>17, InHandType DEF SendMessageToTelegram, ControlOK, TypeOK, LinkOK
  <2>2. /\ linked' = linked /\ crashes' = crashes /\ failures' = failures
        /\ p.pc = "send" /\ p'.pc = "link" /\ Current' = Current
        /\ tg' = [tg EXCEPT ![Current] = @ + 1]
      BY <1>17
         DEF SendMessageToTelegram, Current, db, budgets, TypeOK, PollerOK, PollerType
  <2>3. Promise!Send(Current)
      BY <2>1, <2>2 DEF Promise!Send
  <2>. QED
      BY <2>1, <2>3 DEF PromiseKept, Promise!Next
<1>18. ASSUME SendFails PROVE PromiseKept
  <2>1. Current \in Msgs /\ Current \notin linked
      BY <1>18, InHandType DEF SendFails, ControlOK, TypeOK, LinkOK
  <2>2. /\ linked' = linked /\ crashes' = crashes /\ tg' = tg
        /\ failures' = [failures EXCEPT ![Current] = @ + 1] /\ p'.pc # "link"
      BY <1>18
         DEF SendFails, Undelivered, NextLive, Ready, Fault, TypeOK, PollerOK, PollerType
  <2>3. Promise!Fail(Current)
      BY <2>1, <2>2 DEF Promise!Fail
  <2>. QED
      BY <2>1, <2>3 DEF PromiseKept, Promise!Next
<1>19. ASSUME SaveMessageLink PROVE PromiseKept
  <2>1. /\ tg' = tg /\ linked' = linked \cup {Current} /\ crashes' = crashes
        /\ p.pc = "link" /\ p'.pc = "settle" /\ failures' = failures
      BY <1>19 DEF SaveMessageLink, budgets, seen, TypeOK, PollerOK, PollerType
  <2>2. Promise!Record
      BY <2>1 DEF Promise!Record
  <2>. QED
      BY <2>2 DEF PromiseKept, Promise!Next
<1>20. ASSUME PollDirtyChats PROVE PromiseKept
    BY <1>20, PromiseFrame
       DEF PollDirtyChats, seen, db, budgets, Ready, LiveMessage, LiveDone, TypeOK,
           PollerOK, PollerType
<1>21. ASSUME RecoverAfterReconnect PROVE PromiseKept
    BY <1>21, PromiseFrame
       DEF RecoverAfterReconnect, seen, db, budgets, Ready, LiveMessage, LiveDone,
           TypeOK, PollerOK, PollerType
<1>22. ASSUME ReconnectStorm PROVE PromiseKept
    BY <1>22, PromiseFrame
       DEF ReconnectStorm, seen, db, budgets, Ready, LiveMessage, LiveDone, TypeOK,
           PollerOK, PollerType
<1>23. ASSUME EndDirty PROVE PromiseKept
    BY <1>23, PromiseFrame
       DEF EndDirty, seen, db, budgets, Ready, LiveMessage, LiveDone, TypeOK, PollerOK,
           PollerType
<1>24. ASSUME EndRecover PROVE PromiseKept
    BY <1>24, PromiseFrame
       DEF EndRecover, seen, db, budgets, Ready, LiveMessage, LiveDone, TypeOK, PollerOK,
           PollerType
<1>25. ASSUME ReadTopic PROVE PromiseKept
    BY <1>25, PromiseFrame
       DEF ReadTopic, seen, db, budgets, Ready, LiveMessage, LiveDone, TypeOK, PollerOK,
           PollerType
<1>26. ASSUME GetMessages PROVE PromiseKept
    BY <1>26, PromiseFrame
       DEF GetMessages, seen, db, budgets, Ready, LiveMessage, LiveDone, TypeOK,
           PollerOK, PollerType
<1>27. ASSUME GetMessagesRaises PROVE PromiseKept
    BY <1>27, PromiseFrame DEF GetMessagesRaises, seen, db, budgets, Ready, Fault
<1>28. ASSUME BatchSkipped PROVE PromiseKept
    BY <1>28, PromiseFrame
       DEF BatchSkipped, seen, db, budgets, Ready, LiveMessage, LiveDone, TypeOK,
           PollerOK, PollerType
<1>29. ASSUME BatchDeliver PROVE PromiseKept
    BY <1>29, PromiseFrame
       DEF BatchDeliver, seen, db, budgets, LiveMessage, TypeOK, PollerOK, PollerType
<1>30. ASSUME BatchSettle PROVE PromiseKept
    BY <1>30, PromiseFrame
       DEF BatchSettle, seen, db, budgets, Ready, LiveMessage, LiveDone, TypeOK,
           PollerOK, PollerType
<1>31. ASSUME FinishChat PROVE PromiseKept
    BY <1>31, PromiseFrame
       DEF FinishChat, seen, db, budgets, Ready, LiveMessage, LiveDone, TypeOK, PollerOK,
           PollerType
<1>32. ASSUME FindTopics PROVE PromiseKept
    BY <1>32, PromiseFrame
       DEF FindTopics, seen, db, budgets, Ready, LiveMessage, LiveDone, TypeOK, PollerOK,
           PollerType
<1>33. ASSUME EndCatchUp PROVE PromiseKept
    BY <1>33, PromiseFrame
       DEF EndCatchUp, seen, db, budgets, Ready, LiveMessage, LiveDone, TypeOK, PollerOK,
           PollerType
<1>34. ASSUME ReconcileUser PROVE PromiseKept
    BY <1>34, PromiseFrame
       DEF ReconcileUser, seen, db, budgets, Ready, LiveMessage, LiveDone, TypeOK,
           PollerOK, PollerType
<1>35. ASSUME ReconcileRaises PROVE PromiseKept
    BY <1>35, PromiseFrame DEF ReconcileRaises, seen, db, budgets, Ready, Fault
<1>36. ASSUME CreateTopic PROVE PromiseKept
    BY <1>36, PromiseFrame
       DEF CreateTopic, seen, db, budgets, Ready, LiveMessage, LiveDone, TypeOK,
           PollerOK, PollerType
<1>37. ASSUME TopicFails PROVE PromiseKept
    BY <1>37, PromiseFrame
       DEF TopicFails, seen, db, budgets, NextTopic, Fault, TypeOK, PollerOK, PollerType
<1>38. ASSUME Backfill PROVE PromiseKept
    BY <1>38, PromiseFrame DEF Backfill, NextTopic, TypeOK, PollerOK, PollerType
<1>39. ASSUME BackfillCursor PROVE PromiseKept
    BY <1>39, PromiseFrame
       DEF BackfillCursor, seen, db, budgets, NextTopic, TypeOK, PollerOK, PollerType
<1>40. ASSUME EndReconcile PROVE PromiseKept
    BY <1>40, PromiseFrame
       DEF EndReconcile, seen, db, budgets, Ready, LiveMessage, LiveDone, TypeOK,
           PollerOK, PollerType
<1>42. ASSUME Resync PROVE PromiseKept
    BY <1>42, ResyncLeaves, PromiseFrame
<1>41. CASE UNCHANGED vars
    BY <1>41, PromiseFrame DEF vars, seen, db, budgets
<1>. QED
    BY <1>1, <1>2, <1>3, <1>4, <1>5, <1>6, <1>7, <1>8, <1>9, <1>10, <1>11, <1>12, <1>13,
           <1>14, <1>15, <1>16, <1>17, <1>18, <1>19, <1>20, <1>21, <1>22, <1>23, <1>24,
           <1>25, <1>26, <1>27, <1>28, <1>29, <1>30, <1>31, <1>32, <1>33, <1>34, <1>35,
           <1>36, <1>37, <1>38, <1>39, <1>40, <1>41, <1>42
    DEF Next, Environment, Callbacks, PollUser, Deliver

\* The sends and links of the inbound path are what Delivery promises.
THEOREM Implements == Spec => DeliversAsPromised
<1>1. IInv => TypeOK /\ ControlOK /\ LinkOK
    BY DEF IInv
<1>2. IInv /\ [Next]_vars => [Promise!Next]_(Promise!state)
    BY <1>1, PromiseStep DEF PromiseKept
<1>. QED
    BY <1>2, Inductive, PromiseInit, PTL DEF Spec, DeliversAsPromised, Promise!Spec

Promised == INSTANCE DeliveryProofs WITH
    Messages <- Msgs, done <- linked, flight <- IF p.pc = "link" THEN {Current} ELSE {},
    count <- tg, fails <- failures

\* Each message the live path or a poll sends to Telegram again was paid for by a crash of
\* its own, or by an audited failure of its own delivery (_deliver_message checks and saves
\* the message link): Delivery promises it.
THEOREM EveryRedeliveryIsPaid == Spec => []RedeliveryIsPaid
<1>1. Promise!Spec <=> Promised!Spec
    BY DEF Promise!Spec, Promised!Spec, Promise!Init, Promised!Init, Promise!Next,
           Promised!Next, Promise!state, Promised!state, Promise!Send, Promised!Send,
           Promise!Record, Promised!Record, Promise!Crash, Promised!Crash,
           Promise!Fail, Promised!Fail
<1>2. Promised!EveryRepeatIsPaid <=> RedeliveryIsPaid
    BY DEF RedeliveryIsPaid, Promise!EveryRepeatIsPaid, Promised!EveryRepeatIsPaid,
           Promise!Payers, Promised!Payers, Promise!Owed, Promised!Owed, Promise!Lost,
           Promised!Lost
<1>. QED
    BY <1>1, <1>2, Implements, Promised!RepeatsArePaidFor, PTL DEF DeliversAsPromised
=============================================================================
