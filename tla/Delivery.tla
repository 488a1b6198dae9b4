------------------------------ MODULE Delivery ------------------------------
(***************************************************************************)
(* What the inbound service promises about the sends of a MAX message: one *)
(* delivery is under way at a time; a message whose delivery was recorded  *)
(* is never sent again; and the record of a send is lost only with a crash *)
(* or with a delivery that raised and was audited, which Telegram may have *)
(* accepted in whole or in part all the same.  InboundSync implements it   *)
(* for one user, SharedTables for several who share the link table.        *)
(***************************************************************************)
EXTENDS Naturals

CONSTANT Messages

VARIABLES
    done,     \* the messages whose delivery is recorded
    flight,   \* the message sent and not recorded yet: one or none
    count,    \* how often Telegram was given each, in whole or in part
    fails,    \* how many deliveries of each raised
    crashes

state == <<done, flight, count, fails, crashes>>

Init ==
    /\ done = {} /\ flight = {} /\ crashes = 0
    /\ count = [m \in Messages |-> 0] /\ fails = [m \in Messages |-> 0]

Send(m) ==
    /\ flight = {} /\ m \notin done
    /\ flight' = {m} /\ count' = [count EXCEPT ![m] = @ + 1]
    /\ UNCHANGED <<done, fails, crashes>>

Record ==
    /\ done' = done \cup flight /\ flight' = {}
    /\ UNCHANGED <<count, fails, crashes>>

\* The delivery of m raises, before or after Telegram was given something.
Fail(m) ==
    /\ flight \subseteq {m} /\ m \notin done
    /\ flight' = {} /\ fails' = [fails EXCEPT ![m] = @ + 1]
    /\ UNCHANGED <<done, count, crashes>>

Crash ==
    /\ flight' = {} /\ crashes' = crashes + 1
    /\ UNCHANGED <<done, count, fails>>

Next == Record \/ Crash \/ \E m \in Messages : Send(m) \/ Fail(m)

Spec == Init /\ [][Next]_state

-----------------------------------------------------------------------------
\* What was sent and has no record, nor will have one.
Lost == {m \in Messages : count[m] > 0} \ (done \cup flight)

\* The sends of a message after its first, and its last one if the record of it is lost.
Owed == (UNION {{m} \X (2..count[m]) : m \in Messages}) \cup {<<m, 1>> : m \in Lost}

\* What can pay for them: a crash, or a failed delivery of the message itself.
Payers(m) == ({"crash"} \X (1..crashes)) \cup ({"failure"} \X (1..fails[m]))

\* Every repeated send, of whatever message, and every send that lost its record, has a
\* crash or a failed delivery of that message of its own: a crash costs the record of one
\* message at most, and a failure that of its message once.
EveryRepeatIsPaid ==
    \E paid \in [Owed -> UNION {Payers(m) : m \in Messages}] :
        /\ \A x \in DOMAIN paid : paid[x] \in Payers(x[1])
        /\ \A x, y \in DOMAIN paid :
             paid[x] = paid[y] => x = y \/ (paid[x][1] = "failure" /\ x[1] # y[1])
=============================================================================
