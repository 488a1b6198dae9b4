--------------------------- MODULE DeliveryProofs ---------------------------
(***************************************************************************)
(* What follows from Delivery alone, for any set of messages.  InboundSync *)
(* and SharedTables implement Delivery, so it holds of them too.           *)
(***************************************************************************)
EXTENDS Delivery, TLAPS

\* One message at most is in flight, it is not recorded, and what is recorded or in
\* flight was sent.
FlightOK ==
    /\ done \subseteq Messages /\ crashes \in Nat /\ count \in [Messages -> Nat]
    /\ fails \in [Messages -> Nat]
    /\ flight = {} \/ \E m \in Messages : flight = {m}
    /\ flight \cap done = {}
    /\ \A m \in done \cup flight : count[m] > 0

LEMMA FlightInit == Init => FlightOK
BY DEF Init, FlightOK

LEMMA FlightStep == FlightOK /\ [Next]_state => FlightOK'
<1>. SUFFICES ASSUME FlightOK, [Next]_state PROVE FlightOK'
    OBVIOUS
<1>1. ASSUME NEW m \in Messages, Send(m) PROVE FlightOK'
    BY <1>1 DEF Send, FlightOK
<1>2. CASE Record
    BY <1>2 DEF Record, FlightOK
<1>3. CASE Crash
    BY <1>3 DEF Crash, FlightOK
<1>5. ASSUME NEW m \in Messages, Fail(m) PROVE FlightOK'
    BY <1>5 DEF Fail, FlightOK
<1>4. CASE UNCHANGED state
    BY <1>4 DEF state, FlightOK
<1>. QED
    BY <1>1, <1>2, <1>3, <1>4, <1>5 DEF Next

\* What Owed holds, before and after a step.
LEMMA OwedIs ==
    ASSUME NEW x
    PROVE  x \in Owed <=> \/ \E m \in Messages : \E k \in 2..count[m] : x = <<m, k>>
                          \/ \E m \in Lost : x = <<m, 1>>
BY DEF Owed

LEMMA OwedWillBe ==
    ASSUME NEW x
    PROVE  x \in Owed' <=> \/ \E m \in Messages : \E k \in 2..count'[m] : x = <<m, k>>
                           \/ \E m \in Lost' : x = <<m, 1>>
BY DEF Owed

LEMMA OwedMessages ==
    /\ \A x \in Owed : x[1] \in Messages
    /\ \A x \in Owed' : x[1] \in Messages
<1>1. \A m \in Lost : m \in Messages
    BY DEF Lost
<1>2. \A m \in Lost' : m \in Messages
    BY DEF Lost
<1>. QED
    BY <1>1, <1>2, OwedIs, OwedWillBe

\* Payers stay, and a function that gives each owed send a payer of its own proves the
\* promise.
LEMMA PayersIs ==
    ASSUME NEW m, NEW t
    PROVE  /\ t \in Payers(m) <=> \/ \E k \in 1..crashes : t = <<"crash", k>>
                                  \/ \E k \in 1..fails[m] : t = <<"failure", k>>
           /\ t \in Payers(m)' <=> \/ \E k \in 1..crashes' : t = <<"crash", k>>
                                   \/ \E k \in 1..fails'[m] : t = <<"failure", k>>
BY DEF Payers

LEMMA PaidAfter ==
    ASSUME NEW paid, paid = [x \in Owed' |-> paid[x]],
           \A x \in Owed' : paid[x] \in Payers(x[1])',
           \A x, y \in Owed' :
             paid[x] = paid[y] => x = y \/ (paid[x][1] = "failure" /\ x[1] # y[1])
    PROVE  EveryRepeatIsPaid'
<1>1. \A x \in Owed' : paid[x] \in UNION {Payers(m)' : m \in Messages}
    BY OwedMessages
<1>2. paid \in [Owed' -> UNION {Payers(m)' : m \in Messages}]
    BY <1>1
<1>. QED
    BY <1>2 DEF EveryRepeatIsPaid

LEMMA PaidInit == Init => EveryRepeatIsPaid
<1>. SUFFICES ASSUME Init PROVE EveryRepeatIsPaid
    OBVIOUS
<1>0. Lost = {} /\ \A m \in Messages : count[m] = 0
    BY DEF Init, Lost
<1>1. Owed = {}
  <2>1. ASSUME NEW x PROVE x \notin Owed
    <3>1. \A m \in Messages : \A k \in 2..count[m] : FALSE
        BY <1>0
    <3>. QED
        BY <1>0, <3>1, OwedIs
  <2>. QED
      BY <2>1
<1>. DEFINE none == [x \in Owed |-> 1]
<1>2. none \in [Owed -> UNION {Payers(m) : m \in Messages}]
    BY <1>1
<1>. QED
    BY <1>1, <1>2 DEF EveryRepeatIsPaid

\* A step that owes nothing new leaves the payers what they were, or adds to them.
LEMMA PaidStays ==
    ASSUME FlightOK, EveryRepeatIsPaid, Owed' = Owed,
           crashes' = crashes, \A m \in Messages : fails'[m] \in Nat /\ fails[m] <= fails'[m]
    PROVE  EveryRepeatIsPaid'
<1>0. PICK paid \in [Owed -> UNION {Payers(m) : m \in Messages}] :
        /\ \A x \in Owed : paid[x] \in Payers(x[1])
        /\ \A x, y \in Owed :
             paid[x] = paid[y] => x = y \/ (paid[x][1] = "failure" /\ x[1] # y[1])
    BY DEF EveryRepeatIsPaid
<1>1. paid = [x \in Owed' |-> paid[x]]
    BY <1>0
<1>2. ASSUME NEW m \in Messages, NEW t \in Payers(m) PROVE t \in Payers(m)'
  <2>1. \A k \in 1..fails[m] : k \in 1..fails'[m]
      BY DEF FlightOK
  <2>. QED
      BY <1>2, <2>1, PayersIs
<1>3. \A x \in Owed' : paid[x] \in Payers(x[1])'
    BY <1>0, <1>2, OwedMessages
<1>4. \A x, y \in Owed' :
        paid[x] = paid[y] => x = y \/ (paid[x][1] = "failure" /\ x[1] # y[1])
    BY <1>0
<1>. HIDE DEF FlightOK
<1>. QED
    BY <1>1, <1>3, <1>4, PaidAfter

\* A step that loses the record of the message in flight brings the payer for it.
LEMMA PaidLoss ==
    ASSUME FlightOK, EveryRepeatIsPaid, NEW t,
           Owed' = Owed \cup {<<m, 1>> : m \in flight},
           \A m \in Messages : \A s : s \in Payers(m) => s \in Payers(m)',
           \A m \in flight : t \in Payers(m)' /\ t \notin Payers(m),
           t[1] = "failure" \/ \A m \in Messages : t \notin Payers(m)
    PROVE  EveryRepeatIsPaid'
<1>0. PICK paid \in [Owed -> UNION {Payers(m) : m \in Messages}] :
        /\ \A x \in Owed : paid[x] \in Payers(x[1])
        /\ \A x, y \in Owed :
             paid[x] = paid[y] => x = y \/ (paid[x][1] = "failure" /\ x[1] # y[1])
    BY DEF EveryRepeatIsPaid
<1>. DEFINE next == [x \in Owed' |-> IF x \in Owed THEN paid[x] ELSE t]
<1>1. next = [x \in Owed' |-> next[x]]
    OBVIOUS
<1>2. \A x \in Owed' : x \notin Owed => x[1] \in flight
    OBVIOUS
<1>3. \A x \in Owed' : next[x] \in Payers(x[1])'
    BY <1>0, <1>2, OwedMessages
<1>4. \A x, y \in Owed' : x \notin Owed /\ y \notin Owed => x = y
    BY DEF FlightOK
<1>5. ASSUME NEW x \in Owed', x \notin Owed, NEW y \in Owed, paid[y] = t
      PROVE  t[1] = "failure" /\ x[1] # y[1]
  <2>1. t \in Payers(y[1]) /\ y[1] \in Messages
      BY <1>5, <1>0, OwedMessages
  <2>2. t \notin Payers(x[1])
      BY <1>5, <1>2
  <2>. QED
      BY <2>1, <2>2
<1>6. \A x, y \in Owed' :
        next[x] = next[y] => x = y \/ (next[x][1] = "failure" /\ x[1] # y[1])
  <2>. SUFFICES ASSUME NEW x \in Owed', NEW y \in Owed', next[x] = next[y], x # y
                PROVE  next[x][1] = "failure" /\ x[1] # y[1]
      OBVIOUS
  <2>1. CASE x \in Owed /\ y \in Owed
      BY <2>1, <1>0
  <2>2. CASE x \notin Owed /\ y \in Owed
      BY <2>2, <1>5
  <2>3. CASE x \in Owed /\ y \notin Owed
      BY <2>3, <1>5
  <2>. QED
      BY <2>1, <2>2, <2>3, <1>4
<1>7. PICK all : all = next
    OBVIOUS
<1>. HIDE DEF next
<1>8. all = [x \in Owed' |-> all[x]]
    BY <1>1, <1>7
<1>9. \A x \in Owed' : all[x] \in Payers(x[1])'
    BY <1>3, <1>7
<1>10. \A x, y \in Owed' : all[x] = all[y] => x = y \/ (all[x][1] = "failure" /\ x[1] # y[1])
    BY <1>6, <1>7
<1>11. all \in [Owed' -> UNION {Payers(m)' : m \in Messages}]
  <2>1. \A x \in Owed' : all[x] \in UNION {Payers(m)' : m \in Messages}
      BY <1>9, OwedMessages
  <2>. QED
      BY <1>8, <2>1
<1>12. DOMAIN all = Owed'
    BY <1>8
<1>13. /\ \A x \in DOMAIN all : all[x] \in Payers(x[1])'
       /\ \A x, y \in DOMAIN all :
            all[x] = all[y] => x = y \/ (all[x][1] = "failure" /\ x[1] # y[1])
    BY <1>9, <1>10, <1>12
<1>. QED
    BY <1>11, <1>13, Zenon DEF EveryRepeatIsPaid

\* The message sent takes over the payer of the record it had lost.
LEMMA PaidSend ==
    ASSUME FlightOK, EveryRepeatIsPaid, NEW m \in Messages, Send(m)
    PROVE  EveryRepeatIsPaid'
<1>0. PICK paid \in [Owed -> UNION {Payers(l) : l \in Messages}] :
        /\ \A x \in Owed : paid[x] \in Payers(x[1])
        /\ \A x, y \in Owed :
             paid[x] = paid[y] => x = y \/ (paid[x][1] = "failure" /\ x[1] # y[1])
    BY DEF EveryRepeatIsPaid
<1>. DEFINE n == count[m] + 1
<1>1. /\ n \in Nat /\ count' = [count EXCEPT ![m] = n] /\ flight = {} /\ m \notin done
      /\ flight' = {m} /\ done' = done /\ crashes' = crashes /\ fails' = fails
      /\ count[m] \in Nat /\ \A x \in Messages : fails[x] \in Nat
      /\ \A x \in Messages : count[x] \in Nat /\ count'[x] = IF x = m THEN n ELSE count[x]
    BY DEF Send, FlightOK
<1>2. Lost' = Lost \ {m}
    BY <1>1 DEF Lost
<1>3. CASE count[m] = 0
  <2>1. Owed' = Owed
      BY <1>1, <1>2, <1>3 DEF Owed, Lost
  <2>. QED
      BY <1>1, <2>1, PaidStays
<1>4. CASE count[m] > 0
  <2>0. m \in Lost /\ n # 1 /\ 2..n = (2..count[m]) \cup {n} /\ n \notin 2..count[m]
      BY <1>1, <1>4 DEF Lost
  <2>1. ASSUME NEW x
        PROVE  x \in Owed' <=> x \in (Owed \ {<<m, 1>>}) \cup {<<m, n>>}
    <3>1. x \in Owed' <=> \/ \E l \in Messages : \E k \in 2..count'[l] : x = <<l, k>>
                          \/ \E l \in Lost \ {m} : x = <<l, 1>>
        BY <1>2, OwedWillBe
    <3>2. x \in Owed <=> \/ \E l \in Messages : \E k \in 2..count[l] : x = <<l, k>>
                         \/ \E l \in Lost : x = <<l, 1>>
        BY OwedIs
    <3>3. \A l \in Messages : \A k \in Nat :
            k \in 2..count'[l] <=> k \in 2..count[l] \/ (l = m /\ k = n)
        BY <1>1, <2>0
    <3>4. \A l \in Messages : 1 \notin 2..count[l] /\ 2..count[l] \subseteq Nat
                              /\ 2..count'[l] \subseteq Nat
        BY <1>1
    <3>. QED
        BY <3>1, <3>2, <3>3, <3>4, <2>0, <1>1
  <2>2. <<m, 1>> \in Owed
      BY <2>0, OwedIs
  <2>3. <<m, n>> \notin Owed
      BY <2>0, OwedIs
  <2>4. Owed' = (Owed \ {<<m, 1>>}) \cup {<<m, n>>}
      BY <2>1
  <2>5. <<m, 1>> # <<m, n>> /\ <<m, 1>>[1] = m /\ <<m, n>>[1] = m
      BY <2>0
  <2>. DEFINE next == [x \in Owed' |-> IF x = <<m, n>> THEN paid[<<m, 1>>] ELSE paid[x]]
  <2>6. next = [x \in Owed' |-> next[x]]
      OBVIOUS
  <2>7. \A l, t : t \in Payers(l)' <=> t \in Payers(l)
      BY <1>1, PayersIs
  <2>8. \A x \in Owed' : next[x] \in Payers(x[1])'
      BY <1>0, <2>2, <2>4, <2>5, <2>7
  <2>9. \A x, y \in Owed' :
          next[x] = next[y] => x = y \/ (next[x][1] = "failure" /\ x[1] # y[1])
      BY <1>0, <2>2, <2>3, <2>4, <2>5
  <2>. HIDE DEF next
  <2>. QED
      BY <2>6, <2>8, <2>9, PaidAfter
<1>. QED
    BY <1>1, <1>3, <1>4

LEMMA PaidStep == FlightOK /\ EveryRepeatIsPaid /\ [Next]_state => EveryRepeatIsPaid'
<1>. SUFFICES ASSUME FlightOK, EveryRepeatIsPaid, [Next]_state PROVE EveryRepeatIsPaid'
    OBVIOUS
<1>0. crashes \in Nat /\ \A m \in Messages : fails[m] \in Nat
    BY DEF FlightOK
<1>1. ASSUME NEW m \in Messages, Send(m) PROVE EveryRepeatIsPaid'
    BY <1>1, PaidSend
<1>2. CASE Record
  <2>1. Owed' = Owed
      BY <1>2 DEF Record, Owed, Lost
  <2>2. crashes' = crashes /\ fails' = fails
      BY <1>2 DEF Record
  <2>. QED
      BY <1>0, <2>1, <2>2, PaidStays
<1>3. CASE Crash
  <2>. DEFINE t == <<"crash", crashes + 1>>
  <2>1. /\ Lost' = Lost \cup flight /\ count' = count /\ flight \subseteq Messages
        /\ crashes' = crashes + 1 /\ fails' = fails
      BY <1>3 DEF Crash, Lost, FlightOK
  <2>2. Owed' = Owed \cup {<<m, 1>> : m \in flight}
    <3>1. ASSUME NEW x PROVE x \in Owed' <=> x \in Owed \cup {<<m, 1>> : m \in flight}
      <4>1. x \in Owed' <=> \/ \E l \in Messages : \E k \in 2..count[l] : x = <<l, k>>
                            \/ \E l \in Lost \cup flight : x = <<l, 1>>
          BY <2>1, OwedWillBe
      <4>. QED
          BY <4>1, OwedIs
    <3>. QED
        BY <3>1
  <2>3. \A m \in Messages : \A s : s \in Payers(m) => s \in Payers(m)'
    <3>1. \A k \in 1..crashes : k \in 1..crashes'
        BY <1>0, <2>1
    <3>. QED
        BY <2>1, <3>1, PayersIs
  <2>4. crashes + 1 \in 1..crashes' /\ crashes + 1 \notin 1..crashes
      BY <1>0, <2>1
  <2>5. \A m \in Messages : t \in Payers(m)' /\ t \notin Payers(m)
      BY <2>4, PayersIs
  <2>. HIDE DEF t
  <2>. QED
      BY <2>1, <2>2, <2>3, <2>5, PaidLoss
<1>4. ASSUME NEW m \in Messages, Fail(m) PROVE EveryRepeatIsPaid'
  <2>. DEFINE t == <<"failure", fails[m] + 1>>
  <2>1. /\ Lost' = Lost \cup {l \in flight : count[l] > 0} /\ count' = count
        /\ \A l \in flight : count[l] > 0
        /\ flight \subseteq {m} /\ crashes' = crashes
        /\ \A l \in Messages : fails'[l] = IF l = m THEN fails[l] + 1 ELSE fails[l]
      BY <1>4 DEF Fail, Lost, FlightOK
  <2>2. Owed' = Owed \cup {<<l, 1>> : l \in flight}
    <3>1. ASSUME NEW x PROVE x \in Owed' <=> x \in Owed \cup {<<l, 1>> : l \in flight}
      <4>1. x \in Owed' <=> \/ \E l \in Messages : \E k \in 2..count[l] : x = <<l, k>>
                            \/ \E l \in Lost \cup flight : x = <<l, 1>>
          BY <2>1, OwedWillBe
      <4>. QED
          BY <4>1, OwedIs
    <3>. QED
        BY <3>1
  <2>3. \A l \in Messages : \A s : s \in Payers(l) => s \in Payers(l)'
    <3>1. \A l \in Messages : \A k \in 1..fails[l] : k \in 1..fails'[l]
        BY <1>0, <2>1
    <3>. QED
        BY <2>1, <3>1, PayersIs
  <2>4. fails[m] + 1 \in 1..fails'[m] /\ fails[m] + 1 \notin 1..fails[m]
      BY <1>0, <2>1
  <2>5. \A l \in flight : t \in Payers(l)' /\ t \notin Payers(l)
      BY <2>1, <2>4, PayersIs
  <2>6. t[1] = "failure"
      OBVIOUS
  <2>. HIDE DEF t
  <2>. QED
      BY <2>2, <2>3, <2>5, <2>6, PaidLoss
<1>5. CASE UNCHANGED state
  <2>1. Owed' = Owed
      BY <1>5 DEF state, Owed, Lost
  <2>2. crashes' = crashes /\ fails' = fails
      BY <1>5 DEF state
  <2>. QED
      BY <1>0, <2>1, <2>2, PaidStays
<1>. QED
    BY <1>1, <1>2, <1>3, <1>4, <1>5 DEF Next

\* What implements Delivery repeats a message only for a crash or for a failed delivery
\* of that message.
THEOREM RepeatsArePaidFor == Spec => []EveryRepeatIsPaid
<1>1. Init => FlightOK /\ EveryRepeatIsPaid
    BY FlightInit, PaidInit
<1>2. FlightOK /\ EveryRepeatIsPaid /\ [Next]_state => (FlightOK /\ EveryRepeatIsPaid)'
    BY FlightStep, PaidStep
<1>. QED
    BY <1>1, <1>2, PTL DEF Spec
=============================================================================
