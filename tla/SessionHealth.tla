--------------------------- MODULE SessionHealth ---------------------------
(***************************************************************************)
(* The MAX session of one user, the binding that says whether it is good,  *)
(* and everybody who looks at either: the poller with its health check,    *)
(* /start and /resync with the QR authorisation, and outbound sends, which *)
(* share the registry's cached client with the poller.                     *)
(*                                                                         *)
(* A session is a number that grows with each authorisation; MAX and the   *)
(* user's scan are external.  The registry calls its clients by the string *)
(* "qr_auth" whatever the session, so a cached client is never out of date *)
(* for it.                                                                 *)
(*                                                                         *)
(* A session is accepted, refused (MAX answers LOGIN with an error) or     *)
(* lost (session.db is gone, holds no token or cannot be read).  Only the  *)
(* last is ever marked: when MAX refuses, close() raises the LOGIN error   *)
(* of the client's ended task again, out of the finally in which the       *)
(* health check and reconcile call it, and the AuthError is gone.          *)
(***************************************************************************)
EXTENDS Naturals, FiniteSets

CONSTANTS
    Handlers,      \* running /start and /resync handlers
    MaxSessions,   \* bound: QR scans
    MaxFaults,     \* bound: failed calls to MAX and Telegram
    MaxCrashes     \* bound: process crashes

ASSUME BoundsAssumption ==
    MaxSessions \in Nat /\ MaxFaults \in Nat /\ MaxCrashes \in Nat

VARIABLES
    binding,               \* user_bindings.status, "none" without a row
    stored, state,         \* session.db, and what a client that starts with it meets
    recent,                \* audit_events has a BINDING_REAUTH_REQUIRED of the last day
    client, owner,         \* the registry's client; the inbound service knows it
    due, poller, handler,  \* the health check's clock and the tasks
    faults, crashes,       \* environment bounds
    notices                \* observed: notices sent in the last day

session == <<stored, state>>
runtime == <<client, owner>>
bounds  == <<faults, crashes>>
vars    == <<binding, session, recent, runtime, due, poller, handler, bounds, notices>>

Sessions == 0..MaxSessions
Resting  == [pc |-> "idle", saw |-> 0, blind |-> FALSE, restored |-> FALSE]
ToMark(task, blind) == [task EXCEPT !.pc = "mark", !.saw = stored, !.blind = blind]
Fault    == faults < MaxFaults /\ faults' = faults + 1 /\ UNCHANGED crashes

Init ==
    /\ binding = "none" /\ stored = 0 /\ state = "lost" /\ recent = FALSE
    /\ client = 0 /\ owner = FALSE
    /\ due = TRUE /\ poller = Resting /\ handler = [t \in Handlers |-> Resting]
    /\ faults = 0 /\ crashes = 0 /\ notices = 0

-----------------------------------------------------------------------------
(* MAX, time and crashes.                                                  *)

\* MAX lets the token expire or revokes it.
Expire ==
    /\ state = "accepted" /\ state' = "refused"
    /\ UNCHANGED <<binding, stored, recent, runtime, due, poller, handler, bounds, notices>>

\* session.db is deleted or damaged.
Lose ==
    /\ state # "lost" /\ state' = "lost"
    /\ UNCHANGED <<binding, stored, recent, runtime, due, poller, handler, bounds, notices>>

IntervalPasses ==
    /\ ~due /\ due' = TRUE
    /\ UNCHANGED <<binding, session, recent, runtime, poller, handler, bounds, notices>>

\* The audit event is a day old, and so is the notice that followed it: one await
\* lies between them, never a day.
DayPasses ==
    /\ recent /\ poller.pc # "notify" /\ recent' = FALSE /\ notices' = 0
    /\ UNCHANGED <<binding, session, runtime, due, poller, handler, bounds>>

Crash ==
    /\ crashes < MaxCrashes /\ crashes' = crashes + 1
    /\ client' = 0 /\ owner' = FALSE
    /\ due' = TRUE /\ poller' = Resting /\ handler' = [t \in Handlers |-> Resting]
    /\ UNCHANGED <<binding, session, recent, faults, notices>>

-----------------------------------------------------------------------------
(* BackgroundPoller and HealthCheckService.                                *)

At(pc, next) == poller.pc = pc /\ poller' = [poller EXCEPT !.pc = next]

\* _poll_once visits the bindings that are active.
PollOnce ==
    /\ binding = "active" /\ At("idle", "visit")
    /\ UNCHANGED <<binding, session, recent, runtime, due, handler, bounds, notices>>

EndCheck == due' = FALSE

VisitBetweenChecks ==
    /\ ~due /\ At("visit", "read")
    /\ UNCHANGED <<binding, session, recent, runtime, due, handler, bounds, notices>>

CheckBinding ==
    /\ due
    /\ \/ binding = "active" /\ At("visit", "cooldown") /\ UNCHANGED due
       \/ binding # "active" /\ At("visit", "read") /\ EndCheck
    /\ UNCHANGED <<binding, session, recent, runtime, handler, bounds, notices>>

\* Within a day of any event the session is not looked at.
Cooldown ==
    /\ \/ recent /\ At("cooldown", "read") /\ EndCheck
       \/ ~recent /\ At("cooldown", "start") /\ UNCHANGED due
    /\ UNCHANGED <<binding, session, recent, runtime, handler, bounds, notices>>

\* Mutant of StartCheck: the session is not looked for before the login.
StartCheckTrusts ==
    /\ At("start", "read") /\ EndCheck
    /\ UNCHANGED <<binding, session, recent, runtime, handler, bounds, notices>>

\* A one-shot client looks for a session in session.db and logs in with it.  When MAX
\* refuses it the check ends without a verdict, as it does for a good one.
StartCheck ==
    /\ poller.pc = "start"
    /\ \/ state # "lost" /\ EndCheck /\ poller' = [poller EXCEPT !.pc = "read"]
       \/ state = "lost" /\ UNCHANGED due /\ poller' = ToMark(poller, FALSE)
    /\ UNCHANGED <<binding, session, recent, runtime, handler, bounds, notices>>

\* A session.db that is locked for a moment counts as a lost one.
CheckUnreadable ==
    /\ Fault
    /\ poller.pc = "start" /\ poller' = ToMark(poller, TRUE)
    /\ UNCHANGED <<binding, session, recent, runtime, due, handler, notices>>

\* Mutant of CheckFails: an unreachable MAX counts as a refusal.
CheckFailsRefuses ==
    /\ Fault
    /\ poller.pc = "start" /\ poller' = ToMark(poller, FALSE)
    /\ UNCHANGED <<binding, session, recent, runtime, due, handler, notices>>

\* MAX is not reached: the check ends without a verdict.
CheckFails ==
    /\ Fault /\ At("start", "read") /\ EndCheck
    /\ UNCHANGED <<binding, session, recent, runtime, handler, notices>>

CheckMarks ==
    /\ At("mark", "log") /\ binding' = "reauth"
    /\ UNCHANGED <<session, recent, runtime, due, handler, bounds, notices>>

\* Mutant of CheckLogs: the event is not recorded.
CheckLogsNothing ==
    /\ At("log", "notify")
    /\ UNCHANGED <<binding, session, recent, runtime, due, handler, bounds, notices>>

CheckLogs ==
    /\ At("log", "notify") /\ recent' = TRUE
    /\ UNCHANGED <<binding, session, runtime, due, handler, bounds, notices>>

CheckNotifies ==
    /\ At("notify", "read") /\ notices' = notices + 1 /\ EndCheck
    /\ UNCHANGED <<binding, session, recent, runtime, handler, bounds>>

\* The failed send is suppressed: nobody sends the notice again.
CheckNotifyFails ==
    /\ Fault /\ At("notify", "read") /\ EndCheck
    /\ UNCHANGED <<binding, session, recent, runtime, handler, notices>>

\* The service of a user who is no longer active is closed, and the runtime with it
\* if the service has used it.
ReadBinding ==
    /\ poller.pc = "read"
    /\ \/ /\ binding = "active"
          /\ poller' = [poller EXCEPT !.pc = "poll"] /\ UNCHANGED runtime
       \/ /\ binding # "active"
          /\ poller' = Resting /\ owner' = FALSE /\ client' = IF owner THEN 0 ELSE client
    /\ UNCHANGED <<binding, session, recent, due, handler, bounds, notices>>

\* The client's task had ended with an error: close() raises it, out of the poll loop.
CloseEndsLoop ==
    /\ binding # "active" /\ owner /\ client # 0 /\ At("read", "dead")
    /\ owner' = FALSE /\ client' = 0
    /\ UNCHANGED <<binding, session, recent, due, handler, bounds, notices>>

\* get_client, atomic under the registry's lock: the cached client, or a new one that
\* logs in with what session.db holds.
GetClient(next) ==
    \/ client # 0 /\ client' = client /\ owner' = next
    \/ client = 0 /\ state = "accepted" /\ client' = stored /\ owner' = next
    \/ client = 0 /\ state # "accepted" /\ UNCHANGED runtime

PollUser ==
    /\ poller.pc = "poll" /\ poller' = Resting /\ GetClient(TRUE)
    /\ UNCHANGED <<binding, session, recent, due, handler, bounds, notices>>

PollUserFails ==
    /\ poller.pc = "poll" /\ poller' = Resting /\ Fault /\ UNCHANGED runtime
    /\ UNCHANGED <<binding, session, recent, due, handler, notices>>

\* A reconnect storm closes the client: it takes a session MAX accepts to reconnect.
StormCloses ==
    /\ poller.pc = "poll" /\ poller' = Resting /\ Fault
    /\ client = stored /\ state = "accepted" /\ client' = 0 /\ owner' = FALSE
    /\ UNCHANGED <<binding, session, recent, due, handler, notices>>

-----------------------------------------------------------------------------
(* Handlers.                                                               *)

Turn(t, pc, next) == handler[t].pc = pc /\ handler' = [handler EXCEPT ![t].pc = next]
Ends(t, pc)       == handler[t].pc = pc /\ handler' = [handler EXCEPT ![t] = Resting]

StartCommand(t) ==
    /\ Turn(t, "idle", IF binding = "active" THEN "reconcile" ELSE "qr")
    /\ UNCHANGED <<binding, session, recent, runtime, due, poller, bounds, notices>>

ResyncCommand(t) ==
    /\ binding = "active" /\ Turn(t, "idle", "reconcile")
    /\ UNCHANGED <<binding, session, recent, runtime, due, poller, bounds, notices>>

\* begin_qr_auth: an accepted session is restored without a scan.
BeginQrAuth(t) ==
    /\ handler[t].pc = "qr"
    /\ handler' = [handler EXCEPT ![t].pc = IF state = "accepted" THEN "save" ELSE "scan",
                                  ![t].restored = (state = "accepted")]
    /\ UNCHANGED <<binding, session, recent, runtime, due, poller, bounds, notices>>

\* No QR code, no scan, or the client stops.
QrAuthFails(t) ==
    /\ Ends(t, "qr") \/ Ends(t, "scan")
    /\ UNCHANGED <<binding, session, recent, runtime, due, poller, bounds, notices>>

\* The user scans; pymax stores the new session before the bridge knows of it.
Scan(t) ==
    /\ stored < MaxSessions /\ stored' = stored + 1 /\ state' = "accepted"
    /\ Turn(t, "scan", "save")
    /\ UNCHANGED <<binding, recent, runtime, due, poller, bounds, notices>>

\* complete_qr_auth; a restored session is reconciled at once.
CompleteQrAuth(t) ==
    /\ binding' = "active"
    /\ IF handler[t].restored THEN Turn(t, "save", "reconcile") ELSE Ends(t, "save")
    /\ UNCHANGED <<session, recent, runtime, due, poller, bounds, notices>>

\* The handler's answer to an AuthError: to mark, except after a restore.
Refuse(t, blind) ==
    /\ handler[t].pc = "reconcile"
    /\ handler' = [handler EXCEPT ![t] = IF handler[t].restored THEN Resting
                                         ELSE ToMark(handler[t], blind)]

\* reconcile's own client does what the check's does: a refusal by MAX is one more
\* unexpected error to the handler.
Reconcile(t) ==
    /\ IF state = "lost" THEN Refuse(t, FALSE) ELSE Ends(t, "reconcile")
    /\ UNCHANGED <<binding, session, recent, runtime, due, poller, bounds, notices>>

ReconcileUnreadable(t) ==
    /\ Fault /\ Refuse(t, TRUE)
    /\ UNCHANGED <<binding, session, recent, runtime, due, poller, notices>>

ReconcileFails(t) ==
    /\ Fault /\ Ends(t, "reconcile")
    /\ UNCHANGED <<binding, session, recent, runtime, due, poller, notices>>

\* The answer to the user comes first; when it fails nothing is marked.
AnswerFails(t) ==
    /\ Fault /\ Ends(t, "mark")
    /\ UNCHANGED <<binding, session, recent, runtime, due, poller, notices>>

\* Mutant of MarkReauthRequired: a status the table does not know.
MarkReauthRequiredElse(t) ==
    /\ Turn(t, "mark", "log") /\ binding' = "expired"
    /\ UNCHANGED <<session, recent, runtime, due, poller, bounds, notices>>

MarkReauthRequired(t) ==
    /\ Turn(t, "mark", "log") /\ binding' = "reauth"
    /\ UNCHANGED <<session, recent, runtime, due, poller, bounds, notices>>

LogReauthRequired(t) ==
    /\ Ends(t, "log") /\ recent' = TRUE
    /\ UNCHANGED <<binding, session, runtime, due, poller, bounds, notices>>

\* An outbound send takes the registry's client, whatever the binding's status.
OutboundSend ==
    /\ binding # "none" /\ client = 0 /\ GetClient(owner)
    /\ UNCHANGED <<binding, session, recent, due, poller, handler, bounds, notices>>

-----------------------------------------------------------------------------
Poller ==
    \/ PollOnce \/ VisitBetweenChecks \/ CheckBinding \/ Cooldown
    \/ StartCheck \/ CheckUnreadable \/ CheckFails
    \/ CheckMarks \/ CheckLogs \/ CheckNotifies \/ CheckNotifyFails
    \/ ReadBinding \/ CloseEndsLoop \/ PollUser \/ PollUserFails \/ StormCloses

Handler(t) ==
    \/ StartCommand(t) \/ ResyncCommand(t)
    \/ BeginQrAuth(t) \/ QrAuthFails(t) \/ Scan(t) \/ CompleteQrAuth(t)
    \/ Reconcile(t) \/ ReconcileUnreadable(t) \/ ReconcileFails(t)
    \/ AnswerFails(t) \/ MarkReauthRequired(t) \/ LogReauthRequired(t)

Next ==
    \/ Expire \/ Lose \/ IntervalPasses \/ DayPasses \/ Crash \/ OutboundSend
    \/ Poller
    \/ \E t \in Handlers : Handler(t)

Spec == Init /\ [][Next]_vars

\* The poll loop sleeps a second and goes on, unless a close has ended it, every call
\* it makes ends, and time passes; nothing is assumed of handlers, failures or crashes.
Fairness == WF_vars(Poller) /\ WF_vars(IntervalPasses) /\ WF_vars(DayPasses)

FairSpec == Spec /\ Fairness

-----------------------------------------------------------------------------
(* Properties.                                                             *)

Tasks(pcs) == [pc : pcs, saw : Sessions, blind : BOOLEAN, restored : BOOLEAN]

\* Every variable keeps its type.
TypeOK ==
    /\ binding \in {"none", "active", "reauth"} /\ stored \in Sessions
    /\ state \in {"accepted", "refused", "lost"} /\ recent \in BOOLEAN
    /\ client \in Sessions /\ owner \in BOOLEAN /\ due \in BOOLEAN
    /\ poller \in Tasks({"idle", "visit", "cooldown", "start", "mark", "log", "notify",
                         "read", "poll", "dead"})
    /\ handler \in [Handlers -> Tasks({"idle", "qr", "scan", "save", "reconcile", "mark", "log"})]
    /\ faults \in Nat /\ crashes \in Nat /\ notices \in Nat

\* The health check sends at most one notice in a day, through crashes and beside
\* handlers that record events of their own (check_and_notify, BACKGROUND-03).
OneNoticeADay == notices <= 1

\* Who is about to mark a binding has seen that session.db holds no session, and it
\* holds none still: no refusal by MAX leads to a mark, and a session MAX accepts is
\* marked only if the file was unreadable for a moment or the user has scanned since
\* (check_and_notify, /start, /resync).
Founded(task) == task.pc = "mark" => task.blind \/ task.saw # stored \/ state = "lost"
OnlyLostAreMarked == Founded(poller) /\ \A t \in Handlers : Founded(handler[t])

\* Inductive: what has been sent today, and what the check may still send, go with
\* a recorded event.
CooldownOK ==
    /\ notices \in {0, 1} /\ (notices = 1 => recent)
    /\ poller.pc \in {"start", "mark", "log", "notify"} => notices = 0
    /\ poller.pc = "notify" => recent

\* Inductive: a task remembers a session that was lost, and no later one.
Judged(task) == task.pc = "mark" =>
    task.blind \/ task.saw < stored \/ (task.saw = stored /\ state = "lost")
JudgedOK == Judged(poller) /\ \A t \in Handlers : Judged(handler[t])

IInv == TypeOK /\ CooldownOK /\ JudgedOK

\* While the poll loop runs, an active binding does not outlast its session for ever:
\* the check or a handler marks it, or the user authorises anew.
Noticed(lapsed) == binding = "active" /\ state \in lapsed ~>
                       binding = "reauth" \/ state = "accepted" \/ poller.pc = "dead"

\* A lost session is noticed, through cooldowns, failed checks and crashes.
LossIsNoticed == Noticed({"lost"})

\* "HealthCheckService marks expired sessions as `reauth_required`" (README.md,
\* BACKGROUND-02): a session MAX refuses is noticed too.
ExpiryIsNoticed == Noticed({"refused", "lost"})
=============================================================================
