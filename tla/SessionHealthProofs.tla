------------------------ MODULE SessionHealthProofs ------------------------
(***************************************************************************)
(* Proofs about SessionHealth for any number of handlers and every bound.  *)
(* OutsideEffect, PollerEffect and HandlerEffect say, action by action,    *)
(* what a step may do; from them TypeStep, CooldownStep and JudgedStep     *)
(* show that a step keeps each conjunct of the inductive invariant IInv.   *)
(***************************************************************************)
EXTENDS SessionHealth, TLAPS

PollerPcs  == {"idle", "visit", "cooldown", "start", "mark", "log", "notify", "read", "poll",
               "dead"}
HandlerPcs == {"idle", "qr", "scan", "save", "reconcile", "mark", "log"}

\* The actions by who takes them.
Outside == Expire \/ Lose \/ IntervalPasses \/ DayPasses \/ Crash \/ OutboundSend

LEMMA NextCases ==
    ASSUME [Next]_vars
    PROVE  Outside \/ Poller \/ (\E t \in Handlers : Handler(t)) \/ UNCHANGED vars
BY DEF Next, Outside

LEMMA RestingType == Resting \in Tasks(PollerPcs) /\ Resting \in Tasks(HandlerPcs)
<1>1. 0 \in Sessions
    BY BoundsAssumption DEF Sessions
<1>. QED
    BY <1>1 DEF Resting, Tasks, PollerPcs, HandlerPcs

\* A task that moves on, its memory kept.
LEMMA Moves ==
    ASSUME NEW pcs, NEW task \in Tasks(pcs), NEW pc \in pcs
    PROVE  /\ [task EXCEPT !.pc = pc] \in Tasks(pcs)
           /\ [task EXCEPT !.pc = pc].pc = pc
           /\ [task EXCEPT !.pc = pc].saw = task.saw
           /\ [task EXCEPT !.pc = pc].blind = task.blind
BY DEF Tasks

\* A task that is to mark.
LEMMA Marks ==
    ASSUME TypeOK, NEW pcs, "mark" \in pcs, NEW task \in Tasks(pcs), NEW blind \in BOOLEAN
    PROVE  /\ ToMark(task, blind) \in Tasks(pcs)
           /\ ToMark(task, blind).pc = "mark"
           /\ ToMark(task, blind).saw = stored
           /\ ToMark(task, blind).blind = blind
BY DEF Tasks, ToMark, TypeOK

-----------------------------------------------------------------------------
(* What a step may do.                                                     *)

\* A step of MAX, of time, of a crash or of an outbound send.
LEMMA OutsideEffect ==
    ASSUME TypeOK, Outside
    PROVE  /\ UNCHANGED <<binding, stored, faults>>
           /\ state' \in {"accepted", "refused", "lost"} /\ recent' \in BOOLEAN /\ due' \in BOOLEAN
           /\ client' \in Sessions /\ owner' \in BOOLEAN /\ crashes' \in Nat
           /\ state = "lost" => state' = "lost"
           /\ poller' = poller \/ poller' = Resting
           /\ handler' = handler \/ handler' = [t \in Handlers |-> Resting]
           /\ \/ recent' = recent /\ notices' = notices
              \/ recent' = FALSE /\ notices' = 0 /\ poller' = poller /\ poller.pc # "notify"
<1>. USE DEF TypeOK, session, runtime, bounds
<1>1. CASE Expire
    BY <1>1 DEF Expire
<1>6. CASE Lose
    BY <1>6 DEF Lose
<1>2. CASE IntervalPasses
    BY <1>2 DEF IntervalPasses
<1>3. CASE DayPasses
    BY <1>3 DEF DayPasses
<1>4. CASE Crash
    <2>1. 0 \in Sessions
        BY BoundsAssumption DEF Sessions
    <2>2. handler' = [t \in Handlers |-> Resting]
        BY <1>4, Zenon DEF Crash
    <2>3. /\ UNCHANGED <<binding, stored, state, recent, faults, notices>>
          /\ client' = 0 /\ owner' = FALSE /\ due' = TRUE /\ crashes' = crashes + 1
          /\ poller' = Resting
        BY <1>4 DEF Crash
    <2>4. crashes' \in Nat /\ recent \in BOOLEAN
        BY <2>3
    <2>. QED
        BY <2>1, <2>2, <2>3, <2>4
<1>5. CASE OutboundSend
    BY <1>5 DEF OutboundSend, GetClient
<1>. QED
    BY <1>1, <1>2, <1>3, <1>4, <1>5, <1>6 DEF Outside

\* A step of the poller: what it writes, and how it comes nearer to a notice.
PollerMoves ==
    /\ poller' \in Tasks(PollerPcs)
    /\ poller'.pc \in {"start", "mark", "log", "notify"} =>
         \/ poller.pc = "cooldown" /\ poller'.pc = "start" /\ ~recent
         \/ /\ poller.pc = "start" /\ poller'.pc = "mark" /\ poller'.saw = stored
            /\ poller'.blind \/ state = "lost"
         \/ poller.pc = "mark" /\ poller'.pc = "log"
         \/ poller.pc = "log" /\ poller'.pc = "notify" /\ recent'
    /\ notices' = notices \/ (poller.pc = "notify" /\ notices' = notices + 1)

LEMMA PollerEffect ==
    ASSUME TypeOK, Poller
    PROVE  /\ UNCHANGED <<stored, state, handler, crashes>>
           /\ binding' = binding \/ binding' = "reauth"
           /\ client' \in Sessions /\ owner' \in BOOLEAN /\ due' \in BOOLEAN /\ faults' \in Nat
           /\ recent' \in BOOLEAN /\ (recent => recent')
           /\ PollerMoves
<1>. USE DEF session, runtime, bounds, EndCheck
<1>1. /\ poller \in Tasks(PollerPcs) /\ stored \in Sessions /\ 0 \in Sessions
      /\ Resting \in Tasks(PollerPcs) /\ Resting.pc = "idle"
      /\ recent \in BOOLEAN /\ owner \in BOOLEAN /\ due \in BOOLEAN
      /\ client \in Sessions /\ faults \in Nat
    BY RestingType, BoundsAssumption DEF TypeOK, PollerPcs, Sessions, Resting
<1>2. \A pc \in PollerPcs :
        /\ [poller EXCEPT !.pc = pc] \in Tasks(PollerPcs)
        /\ [poller EXCEPT !.pc = pc].pc = pc
    BY <1>1, Moves
<1>17. ASSUME NEW blind \in BOOLEAN
       PROVE  /\ ToMark(poller, blind) \in Tasks(PollerPcs)
              /\ ToMark(poller, blind).pc = "mark"
              /\ ToMark(poller, blind).saw = stored
              /\ ToMark(poller, blind).blind = blind
    BY <1>1, Marks DEF PollerPcs
<1>3. CASE PollOnce
    <2>1. PollerMoves
        BY <1>1, <1>2, <1>3 DEF PollOnce, At, PollerMoves, PollerPcs
    <2>. QED
        BY <1>1, <1>3, <2>1 DEF PollOnce
<1>4. CASE VisitBetweenChecks
    <2>1. PollerMoves
        BY <1>1, <1>2, <1>4 DEF VisitBetweenChecks, At, PollerMoves, PollerPcs
    <2>. QED
        BY <1>1, <1>4, <2>1 DEF VisitBetweenChecks
<1>5. CASE CheckBinding
    <2>1. PollerMoves
        BY <1>1, <1>2, <1>5 DEF CheckBinding, At, PollerMoves, PollerPcs
    <2>. QED
        BY <1>1, <1>5, <2>1 DEF CheckBinding
<1>6. CASE Cooldown
    <2>1. PollerMoves
        BY <1>1, <1>2, <1>6 DEF Cooldown, At, PollerMoves, PollerPcs
    <2>. QED
        BY <1>1, <1>6, <2>1 DEF Cooldown
<1>7. CASE StartCheck
    <2>1. CASE poller' = [poller EXCEPT !.pc = "read"]
        <3>1. PollerMoves
            BY <1>1, <1>2, <1>7, <2>1 DEF StartCheck, PollerMoves, PollerPcs
        <3>. QED
            BY <1>1, <1>7, <3>1 DEF StartCheck
    <2>2. CASE state = "lost" /\ poller' = ToMark(poller, FALSE)
        <3>1. PollerMoves
            BY <1>1, <1>7, <1>17, <2>2 DEF StartCheck, PollerMoves
        <3>. QED
            BY <1>1, <1>7, <3>1 DEF StartCheck
    <2>. QED
        BY <1>7, <2>1, <2>2 DEF StartCheck
<1>18. CASE CheckUnreadable
    <2>1. poller' = ToMark(poller, TRUE) /\ notices' = notices /\ poller.pc = "start"
        BY <1>18 DEF CheckUnreadable
    <2>2. PollerMoves
        BY <1>17, <2>1 DEF PollerMoves
    <2>3. faults' \in Nat /\ crashes' = crashes
        BY <1>1, <1>18 DEF CheckUnreadable, Fault
    <2>. QED
        BY <1>1, <1>18, <2>2, <2>3 DEF CheckUnreadable
<1>8. CASE CheckFails
    <2>1. PollerMoves
        BY <1>1, <1>2, <1>8 DEF CheckFails, At, PollerMoves, PollerPcs
    <2>2. faults' \in Nat /\ crashes' = crashes
        BY <1>1, <1>8 DEF CheckFails, Fault
    <2>3. UNCHANGED <<stored, state, handler, binding, recent>>
        BY <1>8 DEF CheckFails
    <2>4. client' \in Sessions /\ owner' \in BOOLEAN /\ due' \in BOOLEAN
        BY <1>1, <1>8 DEF CheckFails
    <2>. QED
        BY <1>1, <2>1, <2>2, <2>3, <2>4
<1>9. CASE CheckMarks
    <2>1. PollerMoves
        BY <1>1, <1>2, <1>9 DEF CheckMarks, At, PollerMoves, PollerPcs
    <2>. QED
        BY <1>1, <1>9, <2>1 DEF CheckMarks
<1>10. CASE CheckLogs
    <2>1. PollerMoves
        BY <1>1, <1>2, <1>10 DEF CheckLogs, At, PollerMoves, PollerPcs
    <2>. QED
        BY <1>1, <1>10, <2>1 DEF CheckLogs
<1>11. CASE CheckNotifies
    <2>1. PollerMoves
        BY <1>1, <1>2, <1>11 DEF CheckNotifies, At, PollerMoves, PollerPcs
    <2>. QED
        BY <1>1, <1>11, <2>1 DEF CheckNotifies
<1>12. CASE CheckNotifyFails
    <2>1. PollerMoves
        BY <1>1, <1>2, <1>12 DEF CheckNotifyFails, At, PollerMoves, PollerPcs
    <2>2. faults' \in Nat /\ crashes' = crashes
        BY <1>1, <1>12 DEF CheckNotifyFails, Fault
    <2>3. UNCHANGED <<stored, state, handler, binding, recent>>
        BY <1>12 DEF CheckNotifyFails
    <2>4. client' \in Sessions /\ owner' \in BOOLEAN /\ due' \in BOOLEAN
        BY <1>1, <1>12 DEF CheckNotifyFails
    <2>. QED
        BY <1>1, <2>1, <2>2, <2>3, <2>4
<1>13. CASE ReadBinding
    <2>1. PollerMoves
        BY <1>1, <1>2, <1>13 DEF ReadBinding, PollerMoves, PollerPcs
    <2>. QED
        BY <1>1, <1>13, <2>1 DEF ReadBinding
<1>19. CASE CloseEndsLoop
    <2>1. PollerMoves
        BY <1>1, <1>2, <1>19 DEF CloseEndsLoop, At, PollerMoves, PollerPcs
    <2>. QED
        BY <1>1, <1>19, <2>1 DEF CloseEndsLoop
<1>14. CASE PollUser
    <2>1. PollerMoves
        BY <1>1, <1>2, <1>14 DEF PollUser, PollerMoves, PollerPcs
    <2>. QED
        BY <1>1, <1>14, <2>1 DEF PollUser, GetClient
<1>15. CASE PollUserFails
    <2>1. PollerMoves
        BY <1>1, <1>2, <1>15 DEF PollUserFails, PollerMoves, PollerPcs
    <2>2. faults' \in Nat /\ crashes' = crashes
        BY <1>1, <1>15 DEF PollUserFails, Fault
    <2>3. UNCHANGED <<stored, state, handler, binding, recent>>
        BY <1>15 DEF PollUserFails
    <2>4. client' \in Sessions /\ owner' \in BOOLEAN /\ due' \in BOOLEAN
        BY <1>1, <1>15 DEF PollUserFails
    <2>. QED
        BY <1>1, <2>1, <2>2, <2>3, <2>4
<1>16. CASE StormCloses
    <2>1. PollerMoves
        BY <1>1, <1>2, <1>16 DEF StormCloses, PollerMoves, PollerPcs
    <2>2. faults' \in Nat /\ crashes' = crashes
        BY <1>1, <1>16 DEF StormCloses, Fault
    <2>3. UNCHANGED <<stored, state, handler, binding, recent>>
        BY <1>16 DEF StormCloses
    <2>4. client' \in Sessions /\ owner' \in BOOLEAN /\ due' \in BOOLEAN
        BY <1>1, <1>16 DEF StormCloses
    <2>. QED
        BY <1>1, <2>1, <2>2, <2>3, <2>4
<1>. QED
    BY <1>3, <1>4, <1>5, <1>6, <1>7, <1>8, <1>9, <1>10, <1>11, <1>12, <1>13, <1>14, <1>15, <1>16,
       <1>18, <1>19 DEF Poller

\* A step of a handler: what it writes, and what it remembers when it is to mark.
HandlerMoves(t) ==
    \E task \in Tasks(HandlerPcs) :
        /\ handler' = [handler EXCEPT ![t] = task]
        /\ task.pc = "mark" =>
             task.saw = stored /\ (task.blind \/ state = "lost") /\ UNCHANGED session

LEMMA HandlerEffect ==
    ASSUME TypeOK, NEW t \in Handlers, Handler(t)
    PROVE  /\ UNCHANGED <<client, owner, due, poller, crashes, notices>>
           /\ binding' \in {"none", "active", "reauth"}
           /\ stored' \in Sessions /\ state' \in {"accepted", "refused", "lost"}
           /\ faults' \in Nat
           /\ \/ UNCHANGED session
              \/ stored' = stored + 1
           /\ recent' \in BOOLEAN /\ (recent => recent')
           /\ HandlerMoves(t)
<1>. USE DEF TypeOK, session, runtime, bounds, Fault
<1>1. /\ handler \in [Handlers -> Tasks(HandlerPcs)] /\ handler[t] \in Tasks(HandlerPcs)
      /\ stored \in Sessions /\ Resting \in Tasks(HandlerPcs) /\ Resting.pc = "idle"
    BY RestingType DEF HandlerPcs, Resting
<1>2. \A pc \in HandlerPcs :
        /\ [handler[t] EXCEPT !.pc = pc] \in Tasks(HandlerPcs)
        /\ [handler[t] EXCEPT !.pc = pc].pc = pc
    BY <1>1, Moves
<1>3. ASSUME NEW pc \in HandlerPcs \ {"mark"}, NEW from, Turn(t, from, pc)
      PROVE  HandlerMoves(t)
    BY <1>1, <1>2, <1>3 DEF Turn, HandlerMoves
<1>4. ASSUME NEW from, Ends(t, from)
      PROVE  HandlerMoves(t)
    BY <1>1, <1>4 DEF Ends, HandlerMoves
<1>16. ASSUME NEW blind \in BOOLEAN, Refuse(t, blind), blind \/ state = "lost", UNCHANGED session
       PROVE  HandlerMoves(t)
    <2>1. CASE handler[t].restored
        BY <1>1, <1>16, <2>1 DEF Refuse, HandlerMoves
    <2>2. CASE ~handler[t].restored
        <3>. DEFINE task == ToMark(handler[t], blind)
        <3>1. task \in Tasks(HandlerPcs) /\ task.saw = stored /\ task.blind = blind
            BY <1>1, <1>16, Marks DEF HandlerPcs
        <3>2. handler' = [handler EXCEPT ![t] = task]
            BY <1>1, <1>16, <2>2 DEF Refuse
        <3>. HIDE DEF task
        <3>. QED
            BY <1>16, <3>1, <3>2 DEF HandlerMoves
    <2>. QED
        BY <2>1, <2>2
<1>5. CASE StartCommand(t)
    <2>1. HandlerMoves(t)
        BY <1>3, <1>4, <1>5 DEF StartCommand, HandlerPcs
    <2>. QED
        BY <1>5, <2>1 DEF StartCommand
<1>6. CASE ResyncCommand(t)
    <2>1. HandlerMoves(t)
        BY <1>3, <1>4, <1>6 DEF ResyncCommand, HandlerPcs
    <2>. QED
        BY <1>6, <2>1 DEF ResyncCommand
<1>7. CASE BeginQrAuth(t)
    <2>. DEFINE task == [handler[t] EXCEPT !.pc = IF state = "accepted" THEN "save" ELSE "scan",
                                          !.restored = (state = "accepted")]
    <2>1. task \in Tasks(HandlerPcs) /\ task.pc # "mark"
        BY <1>1 DEF Tasks, HandlerPcs
    <2>2. handler' = [handler EXCEPT ![t] = task]
        BY <1>1, <1>7 DEF BeginQrAuth, Tasks
    <2>3. HandlerMoves(t)
        BY <2>1, <2>2 DEF HandlerMoves
    <2>. QED
        BY <1>7, <2>3 DEF BeginQrAuth
<1>8. CASE QrAuthFails(t)
    <2>1. HandlerMoves(t)
        BY <1>3, <1>4, <1>8 DEF QrAuthFails, HandlerPcs
    <2>. QED
        BY <1>8, <2>1 DEF QrAuthFails
<1>9. CASE Scan(t)
    <2>1. HandlerMoves(t)
        BY <1>3, <1>9 DEF Scan, HandlerPcs
    <2>2. stored + 1 \in Sessions
        BY <1>1, <1>9, BoundsAssumption DEF Scan, Sessions
    <2>. QED
        BY <1>9, <2>1, <2>2 DEF Scan
<1>10. CASE CompleteQrAuth(t)
    <2>1. HandlerMoves(t)
        BY <1>3, <1>4, <1>10 DEF CompleteQrAuth, HandlerPcs
    <2>. QED
        BY <1>10, <2>1 DEF CompleteQrAuth
<1>11. CASE Reconcile(t)
    <2>1. HandlerMoves(t)
        BY <1>4, <1>11, <1>16 DEF Reconcile
    <2>. QED
        BY <1>11, <2>1 DEF Reconcile
<1>17. CASE ReconcileUnreadable(t)
    <2>1. HandlerMoves(t)
        BY <1>16, <1>17 DEF ReconcileUnreadable
    <2>. QED
        BY <1>17, <2>1 DEF ReconcileUnreadable
<1>12. CASE ReconcileFails(t)
    <2>1. HandlerMoves(t)
        BY <1>3, <1>4, <1>12 DEF ReconcileFails, HandlerPcs
    <2>. QED
        BY <1>12, <2>1 DEF ReconcileFails
<1>13. CASE AnswerFails(t)
    <2>1. HandlerMoves(t)
        BY <1>3, <1>4, <1>13 DEF AnswerFails, HandlerPcs
    <2>. QED
        BY <1>13, <2>1 DEF AnswerFails
<1>14. CASE MarkReauthRequired(t)
    <2>1. HandlerMoves(t)
        BY <1>3, <1>4, <1>14 DEF MarkReauthRequired, HandlerPcs
    <2>. QED
        BY <1>14, <2>1 DEF MarkReauthRequired
<1>15. CASE LogReauthRequired(t)
    <2>1. HandlerMoves(t)
        BY <1>3, <1>4, <1>15 DEF LogReauthRequired, HandlerPcs
    <2>. QED
        BY <1>15, <2>1 DEF LogReauthRequired
<1>. QED
    BY <1>5, <1>6, <1>7, <1>8, <1>9, <1>10, <1>11, <1>12, <1>13, <1>14, <1>15, <1>17 DEF Handler

-----------------------------------------------------------------------------
(* The steps of the invariant.                                             *)

LEMMA InitOK == Init => IInv
<1>1. ASSUME Init PROVE TypeOK
    <2>1. 0 \in Sessions
        BY BoundsAssumption DEF Sessions
    <2>. QED
        BY <1>1, <2>1, RestingType DEF Init, TypeOK, PollerPcs, HandlerPcs
<1>2. ASSUME Init PROVE CooldownOK /\ JudgedOK
    BY <1>2 DEF Init, CooldownOK, JudgedOK, Judged, Resting
<1>. QED
    BY <1>1, <1>2 DEF IInv

LEMMA TypeStep ==
    ASSUME TypeOK, CooldownOK, [Next]_vars
    PROVE  TypeOK'
<1>1. CASE Outside
    <2>1. poller' \in Tasks(PollerPcs)
        BY <1>1, OutsideEffect, RestingType DEF TypeOK, PollerPcs
    <2>2. handler' \in [Handlers -> Tasks(HandlerPcs)]
        BY <1>1, OutsideEffect, RestingType DEF TypeOK, HandlerPcs
    <2>3. notices \in Nat /\ (notices' = notices \/ notices' = 0)
        BY <1>1, OutsideEffect DEF TypeOK
    <2>4. notices' \in Nat
        BY <2>3
    <2>5. binding \in {"none", "active", "reauth"} /\ stored \in Sessions /\ faults \in Nat
        BY DEF TypeOK
    <2>. QED
        BY <1>1, <2>1, <2>2, <2>4, <2>5, OutsideEffect DEF TypeOK, PollerPcs, HandlerPcs
<1>2. CASE Poller
    BY <1>2, PollerEffect DEF TypeOK, PollerPcs, PollerMoves
<1>3. CASE \E t \in Handlers : Handler(t)
    <2>1. PICK t \in Handlers : Handler(t)
        BY <1>3
    <2>2. handler' \in [Handlers -> Tasks(HandlerPcs)]
        BY <2>1, HandlerEffect DEF TypeOK, HandlerPcs, HandlerMoves
    <2>. QED
        BY <2>1, <2>2, HandlerEffect DEF TypeOK, HandlerPcs
<1>4. CASE UNCHANGED vars
    BY <1>4 DEF TypeOK, vars, session, runtime, bounds
<1>. QED
    BY <1>1, <1>2, <1>3, <1>4, NextCases

LEMMA CooldownStep ==
    ASSUME TypeOK, CooldownOK, [Next]_vars
    PROVE  CooldownOK'
<1>1. CASE Outside
    <2>1. CASE recent' = recent /\ notices' = notices
        BY <1>1, <2>1, OutsideEffect DEF CooldownOK, Resting
    <2>2. CASE recent' = FALSE /\ notices' = 0 /\ poller' = poller /\ poller.pc # "notify"
        BY <2>2 DEF CooldownOK
    <2>. QED
        BY <1>1, <2>1, <2>2, OutsideEffect
<1>2. CASE Poller
    BY <1>2, PollerEffect DEF CooldownOK, TypeOK, PollerMoves
<1>3. CASE \E t \in Handlers : Handler(t)
    BY <1>3, HandlerEffect DEF CooldownOK, TypeOK
<1>4. CASE UNCHANGED vars
    BY <1>4 DEF CooldownOK, vars
<1>. QED
    BY <1>1, <1>2, <1>3, <1>4, NextCases

\* A task that judged a session stays right about it while a lost session can only be
\* replaced.
LEMMA JudgedFrame ==
    ASSUME TypeOK, NEW task \in Tasks(PollerPcs) \cup Tasks(HandlerPcs), Judged(task),
           \/ stored' = stored /\ (state = "lost" => state' = "lost")
           \/ stored' = stored + 1
    PROVE  task.pc = "mark" =>
               task.blind \/ task.saw < stored' \/ (task.saw = stored' /\ state' = "lost")
<1>1. task.saw \in Nat /\ stored \in Nat
    BY BoundsAssumption DEF Tasks, TypeOK, Sessions
<1>. QED
    BY <1>1 DEF Judged

LEMMA JudgedStep ==
    ASSUME TypeOK, JudgedOK, [Next]_vars
    PROVE  JudgedOK'
<1>. USE DEF JudgedOK
<1>0. /\ poller \in Tasks(PollerPcs)
      /\ \A t \in Handlers : handler[t] \in Tasks(HandlerPcs)
      /\ Resting.pc # "mark"
    BY DEF TypeOK, PollerPcs, HandlerPcs, Resting
<1>1. CASE Outside
    <2>1. stored' = stored /\ (state = "lost" => state' = "lost")
        BY <1>1, OutsideEffect
    <2>2. Judged(poller)'
        BY <1>0, <1>1, <2>1, OutsideEffect, JudgedFrame DEF Judged
    <2>3. ASSUME NEW t \in Handlers PROVE Judged(handler[t])'
        BY <1>0, <1>1, <2>1, OutsideEffect, JudgedFrame DEF Judged
    <2>. QED
        BY <2>2, <2>3
<1>2. CASE Poller
    <2>1. UNCHANGED <<stored, state, handler>>
        BY <1>2, PollerEffect
    <2>2. Judged(poller)'
        BY <1>2, <2>1, PollerEffect DEF Judged, PollerMoves
    <2>. QED
        BY <2>1, <2>2 DEF Judged
<1>3. CASE \E t \in Handlers : Handler(t)
    <2>1. PICK t \in Handlers : Handler(t)
        BY <1>3
    <2>2. \/ stored' = stored /\ (state = "lost" => state' = "lost")
          \/ stored' = stored + 1
        BY <2>1, HandlerEffect DEF session
    <2>3. Judged(poller)'
        BY <1>0, <2>1, <2>2, HandlerEffect, JudgedFrame DEF Judged
    <2>4. ASSUME NEW u \in Handlers PROVE Judged(handler[u])'
        <3>1. PICK task \in Tasks(HandlerPcs) :
                /\ handler' = [handler EXCEPT ![t] = task]
                /\ task.pc = "mark" =>
                     task.saw = stored /\ (task.blind \/ state = "lost") /\ UNCHANGED session
            BY <2>1, HandlerEffect DEF HandlerMoves
        <3>2. CASE u = t
            BY <2>1, <3>1, <3>2 DEF Judged, TypeOK, session
        <3>3. CASE u # t
            <4>1. handler'[u] = handler[u]
                BY <3>1, <3>3 DEF TypeOK
            <4>. QED
                BY <1>0, <2>2, <4>1, JudgedFrame DEF Judged
        <3>. QED
            BY <3>2, <3>3
    <2>. QED
        BY <2>3, <2>4
<1>4. CASE UNCHANGED vars
    BY <1>4 DEF Judged, vars, session
<1>. QED
    BY <1>1, <1>2, <1>3, <1>4, NextCases

-----------------------------------------------------------------------------
(* The theorems.                                                           *)

\* The strengthened invariant holds of every behaviour of the poller's health check
\* and the handlers beside it.
THEOREM Inductive == Spec => []IInv
<1>1. ASSUME IInv, [Next]_vars PROVE IInv'
    BY <1>1, TypeStep, CooldownStep, JudgedStep DEF IInv
<1>. QED
    BY <1>1, InitOK, PTL DEF Spec

\* Every reachable state is well typed.
THEOREM TypeCorrect == Spec => []TypeOK
<1>1. IInv => TypeOK
    BY DEF IInv
<1>. QED
    BY <1>1, Inductive, PTL

\* The health check sends one notice a day at most (check_and_notify).
THEOREM NoticeOnceADay == Spec => []OneNoticeADay
<1>1. IInv => OneNoticeADay
    BY DEF IInv, CooldownOK, OneNoticeADay
<1>. QED
    BY <1>1, Inductive, PTL

\* A binding is marked for a session.db that holds no session, or was unreadable when
\* it was looked at, or has been written by a scan since; never because MAX refused
\* (check_and_notify, /start, /resync).
THEOREM MarkedWasLost == Spec => []OnlyLostAreMarked
<1>1. ASSUME IInv, NEW task \in Tasks(PollerPcs) \cup Tasks(HandlerPcs), Judged(task)
      PROVE  Founded(task)
    <2>1. task.saw \in Nat /\ stored \in Nat
        BY <1>1, BoundsAssumption DEF IInv, TypeOK, Tasks, Sessions
    <2>. QED
        BY <1>1, <2>1 DEF Judged, Founded
<1>2. IInv => OnlyLostAreMarked
    BY <1>1 DEF IInv, JudgedOK, TypeOK, OnlyLostAreMarked, PollerPcs, HandlerPcs
<1>. QED
    BY <1>2, Inductive, PTL
=============================================================================
