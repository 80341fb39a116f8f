--------------------------- MODULE Delivery_proofs ---------------------------
(* The delivery of alerts, for any devices, clients, alerts and limits: one  *)
(* action per button, no nagging once settled, what a snooze held stays      *)
(* within reach, and, where nobody snoozes, no alert is passed over.         *)
EXTENDS DeliveryProps, FiniteSetTheorems, TLAPS

USE DEF vars, alertVars, actionVars, nagVars, deviceVars, sessionVars, wireVars, screenVars, napVars, noteVars

-----------------------------------------------------------------------------
(* Buttons and nags *)

Reborn == \E marks \in {Marks, filed} : Restart(marks)

ActInv ==
  /\ taken \in [Alerts -> Devices \cup {NoDevice}] /\ filed.taken \in [Alerts -> Devices \cup {NoDevice}]
  /\ fired \in [Alerts -> Nat] /\ forgotten \in [Alerts -> Nat]
  /\ \A a \in Alerts : fired[a] <= forgotten[a] + (IF taken[a] = NoDevice THEN 0 ELSE 1)

LEMMA Marked ==
  ASSUME NEW r, NEW t PROVE MarksOf(r, t).resolved = r /\ MarksOf(r, t).taken = t
  BY DEF MarksOf

\* A press counts only where none did before; only a process that found no record of it
\* counts another.
LEMMA ActStep == ConstantsAssumption /\ ActInv /\ [Next]_vars => ActInv'
<1> SUFFICES ASSUME ConstantsAssumption, ActInv, [Next]_vars PROVE ActInv'
  OBVIOUS
<1>1. CASE UNCHANGED <<taken, fired, forgotten>> /\ (filed' = filed \/ \E r : filed' = MarksOf(r, taken))
  <2>1. filed'.taken = filed.taken \/ filed'.taken = taken
    BY <1>1, Marked
  <2> QED
    BY <1>1, <2>1 DEF ActInv
<1>2. CASE \E k \in Clients : HandleAck(k)
  <2>1. PICK k \in Clients : HandleAck(k)
    BY <1>2
  <2>2. CASE UNCHANGED actionVars
    BY <1>1, <2>2
  <2>3. CASE \E m : /\ taken[m.n] = NoDevice /\ taken' = [taken EXCEPT ![m.n] = Owner[k]]
                    /\ fired' = [fired EXCEPT ![m.n] = @ + 1]
                    /\ TouchHistory(resolved, taken') /\ UNCHANGED forgotten
    <3>1. PICK m : /\ taken[m.n] = NoDevice /\ taken' = [taken EXCEPT ![m.n] = Owner[k]]
                   /\ fired' = [fired EXCEPT ![m.n] = @ + 1]
                   /\ TouchHistory(resolved, taken') /\ UNCHANGED forgotten
      BY <2>3
    <3>2. Owner[k] \in Devices /\ Owner[k] # NoDevice
      BY ConstantsAssumption DEF ConstantsAssumption
    <3> DEFINE n == m.n
    <3> HIDE DEF n
    <3>3. /\ taken[n] = NoDevice /\ taken' = [taken EXCEPT ![n] = Owner[k]]
          /\ fired' = [fired EXCEPT ![n] = fired[n] + 1]
      BY <3>1 DEF n
    <3>4. taken' \in [Alerts -> Devices \cup {NoDevice}]
      BY <3>2, <3>3 DEF ActInv
    <3>5. filed'.taken \in [Alerts -> Devices \cup {NoDevice}]
      <4>1. filed' = filed \/ filed' = MarksOf(resolved, taken')
        BY <3>1 DEF TouchHistory
      <4>2. MarksOf(resolved, taken').taken = taken'
        BY DEF MarksOf
      <4>3. filed.taken \in [Alerts -> Devices \cup {NoDevice}]
        BY DEF ActInv
      <4> QED
        BY <3>4, <4>1, <4>2, <4>3
    <3>6. /\ forgotten' = forgotten /\ DOMAIN fired = Alerts /\ DOMAIN taken = Alerts
          /\ \A a \in Alerts : /\ fired[a] \in Nat /\ forgotten[a] \in Nat
                               /\ fired[a] <= forgotten[a] + (IF taken[a] = NoDevice THEN 0 ELSE 1)
      BY <3>1 DEF ActInv
    <3>7. ASSUME NEW a \in Alerts
          PROVE  fired'[a] \in Nat /\ fired'[a] <= forgotten[a] + (IF taken'[a] = NoDevice THEN 0 ELSE 1)
      <4>1. CASE a = n
        <5>1. fired'[a] = fired[a] + 1 /\ taken'[a] # NoDevice /\ taken[a] = NoDevice
          BY <3>2, <3>3, <3>6, <4>1
        <5> QED
          BY <3>6, <5>1
      <4>2. CASE a # n
        <5>1. fired'[a] = fired[a] /\ taken'[a] = taken[a]
          BY <3>3, <3>6, <4>2
        <5> QED
          BY <3>6, <5>1
      <4> QED
        BY <4>1, <4>2
    <3>8. fired' = [a \in Alerts |-> fired'[a]]
      BY <3>3, <3>6
    <3>9. fired' \in [Alerts -> Nat]
      BY <3>7, <3>8
    <3> QED
      BY <3>4, <3>5, <3>6, <3>7, <3>9 DEF ActInv
  <2> QED
    BY <2>1, <2>2, <2>3 DEF HandleAck, AckAlert, Takes
<1>3. CASE Reborn
  <2>1. PICK marks \in {Marks, filed} : Restart(marks)
    BY <1>3 DEF Reborn
  <2>2. /\ taken' = marks.taken /\ fired' = fired /\ filed' = filed
        /\ forgotten' = [a \in Alerts |-> forgotten[a] + IF Forgets(a, marks) THEN 1 ELSE 0]
    BY <2>1 DEF Restart
  <2>3. marks.taken \in [Alerts -> Devices \cup {NoDevice}]
    BY Marked DEF Marks, ActInv
  <2>4. \A a \in Alerts : forgotten[a] \in Nat
    BY DEF ActInv
  <2>5. forgotten' \in [Alerts -> Nat]
    BY <2>2, <2>4
  <2>6. ASSUME NEW a \in Alerts
        PROVE  fired'[a] <= forgotten'[a] + (IF taken'[a] = NoDevice THEN 0 ELSE 1)
    <3>1. /\ fired[a] \in Nat /\ forgotten[a] \in Nat
          /\ fired[a] <= forgotten[a] + (IF taken[a] = NoDevice THEN 0 ELSE 1)
      BY DEF ActInv
    <3>2. forgotten'[a] = forgotten[a] + IF taken[a] # NoDevice /\ taken'[a] = NoDevice THEN 1 ELSE 0
      BY <2>2 DEF Forgets
    <3> QED
      BY <2>2, <3>1, <3>2
  <2> QED
    BY <2>2, <2>3, <2>5, <2>6 DEF ActInv
<1>4. \/ UNCHANGED <<taken, fired, forgotten>> /\ (filed' = filed \/ \E r : filed' = MarksOf(r, taken))
      \/ (\E k \in Clients : HandleAck(k)) \/ Reborn
  <2>1. ASSUME NEW a \in Alerts, Resolve(a)
        PROVE  UNCHANGED <<taken, fired, forgotten>> /\ (filed' = filed \/ \E r : filed' = MarksOf(r, taken))
    BY <2>1 DEF Resolve, TouchHistory
  <2>2. ASSUME Compact
        PROVE  UNCHANGED <<taken, fired, forgotten>> /\ (filed' = filed \/ \E r : filed' = MarksOf(r, taken))
    BY <2>2 DEF Compact, Marks
  <2>3. ASSUME NEW k \in Clients, Deliver(k) \/ HandleSync(k) \/ HandleSnooze(k) \/ ClientGets(k)
        PROVE  UNCHANGED actionVars
    BY <2>3 DEF Deliver, HandleSync, HandleSnooze, ClientGets, ReceiveNote, ReceiveResolve, ReceiveReady
  <2>4. ASSUME NEW k \in Clients, Connect(k) \/ Lose(k) \/ CloseSession(k) \/ Pong(k) \/ Sync(k) \/ Snooze(k)
                                  \/ Unsnooze(k) \/ CatchUp(k) \/ \E a \in Alerts : Press(k, a)
        PROVE  UNCHANGED actionVars
    BY <2>4 DEF Connect, Lose, CloseSession, Pong, Sync, Snooze, Unsnooze, CatchUp, Press
  <2>5. ASSUME Publish \/ (\E a \in Alerts : Retry(a) \/ Expire(a)) \/ (\E n \in 1..Limit["nap"] : NapEnds(n))
        PROVE  UNCHANGED actionVars
    BY <2>5 DEF Publish, Retry, Expire, NapEnds
  <2>6. CASE UNCHANGED vars
    BY <2>6
  <2> QED
    BY <2>1, <2>2, <2>3, <2>4, <2>5, <2>6 DEF Next, HubHears, Reborn
<1> QED
  BY <1>1, <1>2, <1>3, <1>4

\* Two people who press the same button are one action, however many tabs they press it in
\* and whatever is repeated (takeAction of server.ts); and so it is over a restart, unless the
\* new process finds no record of the press.
THEOREM OneActionPerButton == Spec => []ActsOnce
<1>1. Init => ActInv
  <2> SUFFICES ASSUME Init PROVE ActInv
    OBVIOUS
  <2>1. filed.taken = taken
    BY Marked DEF Init, Marks
  <2> QED
    BY <2>1 DEF Init, ActInv
<1>2. ActInv => ActsOnce
  <2> SUFFICES ASSUME ActInv, NEW a \in Alerts PROVE fired[a] <= 1 + forgotten[a]
    BY DEF ActsOnce
  <2>1. /\ fired[a] \in Nat /\ forgotten[a] \in Nat
        /\ fired[a] <= forgotten[a] + (IF taken[a] = NoDevice THEN 0 ELSE 1)
    BY DEF ActInv
  <2> QED
    BY <2>1
<1> QED
  BY <1>1, <1>2, ActStep, ConstantsAssumption, PTL DEF Spec

NagInv ==
  /\ log \in Seq(Kinds)
  /\ acked \subseteq Published /\ resolved \subseteq Published /\ waiters \subseteq Published
  /\ filed.resolved \subseteq Published
  /\ waiters \cap (acked \cup resolved) = {}

LEMMA NagStep == NagInv /\ [Next]_vars => NagInv'
<1> SUFFICES ASSUME NagInv, [Next]_vars PROVE NagInv'
  OBVIOUS
<1> USE DEF Published, LastSeq
<1>1. CASE UNCHANGED <<log, acked, resolved, filed>> /\ waiters' \subseteq waiters
  BY <1>1 DEF NagInv
<1>2. CASE Publish
  <2>1. PICK kind \in Kinds : log' = Append(log, kind) /\ (waiters' = waiters \/ waiters' = waiters \cup {LastSeq + 1})
    BY <1>2 DEF Publish, Waiting
  <2>2. Len(log) \in Nat /\ log' \in Seq(Kinds) /\ Len(log') = Len(log) + 1
    BY <2>1 DEF NagInv
  <2>3. acked' = acked /\ resolved' = resolved /\ filed' = filed
    BY <1>2 DEF Publish
  <2>4. Len(log) + 1 \notin 1..Len(log) /\ 1..Len(log) \subseteq 1..Len(log') /\ Len(log) + 1 \in 1..Len(log')
    BY <2>2
  <2> QED
    BY <2>1, <2>2, <2>3, <2>4 DEF NagInv
<1>3. CASE \E a \in Alerts : Resolve(a)
  <2>1. PICK a \in Alerts : Resolve(a)
    BY <1>3
  <2>2. /\ log' = log /\ acked' = acked /\ a \in Published
        /\ resolved' = resolved \cup {a} /\ waiters' = waiters \ {a}
    BY <2>1 DEF Resolve, StopNag, Retained
  <2>3. filed' = filed \/ filed'.resolved = resolved'
    BY <2>1, Marked DEF Resolve, TouchHistory
  <2> QED
    BY <2>2, <2>3 DEF NagInv
<1>4. CASE \E k \in Clients : HandleAck(k)
  <2>1. PICK k \in Clients : HandleAck(k)
    BY <1>4
  <2>2. log' = log /\ resolved' = resolved
    BY <2>1 DEF HandleAck
  <2>3. \/ waiters' = waiters /\ acked' = acked
        \/ \E m : m.n \in Published /\ waiters' = waiters \ {m.n} /\ acked' = acked \cup {m.n}
    BY <2>1 DEF HandleAck, AckAlert, Entitled, Retained
  <2>4. filed' = filed \/ filed'.resolved = resolved
    BY <2>1, Marked DEF HandleAck, AckAlert, TouchHistory
  <2> QED
    BY <2>2, <2>3, <2>4 DEF NagInv
<1>5. CASE Reborn
  <2>1. PICK marks \in {Marks, filed} : Restart(marks)
    BY <1>5 DEF Reborn
  <2>2. UNCHANGED <<log, acked, filed>> /\ resolved' = marks.resolved /\ waiters' = {}
    BY <2>1 DEF Restart
  <2>3. marks.resolved \subseteq Published
    <3>1. Marks.resolved = resolved
      BY Marked DEF Marks
    <3> QED
      BY <2>1, <3>1 DEF NagInv
  <2> QED
    BY <2>2, <2>3 DEF NagInv
<1>6. CASE Compact
  <2>1. UNCHANGED <<log, acked, resolved, waiters>> /\ filed'.resolved = resolved
    BY <1>6, Marked DEF Compact, Marks
  <2> QED
    BY <2>1 DEF NagInv
<1>7. \/ UNCHANGED <<log, acked, resolved, filed>> /\ waiters' \subseteq waiters
      \/ Publish \/ Reborn \/ Compact
      \/ (\E a \in Alerts : Resolve(a)) \/ (\E k \in Clients : HandleAck(k))
  <2>1. ASSUME NEW a \in Alerts, Retry(a) PROVE UNCHANGED <<log, acked, resolved, filed>> /\ waiters' \subseteq waiters
    BY <2>1 DEF Retry
  <2>2. ASSUME NEW k \in Clients, Deliver(k) \/ HandleSync(k) \/ HandleSnooze(k) \/ ClientGets(k)
        PROVE  UNCHANGED <<log, acked, resolved, filed, waiters>>
    BY <2>2 DEF Deliver, HandleSync, HandleSnooze, ClientGets, ReceiveNote, ReceiveResolve, ReceiveReady
  <2>3. ASSUME NEW k \in Clients, Connect(k) \/ Lose(k) \/ CloseSession(k) \/ Pong(k) \/ Sync(k) \/ Snooze(k)
                                  \/ Unsnooze(k) \/ CatchUp(k) \/ \E a \in Alerts : Press(k, a)
        PROVE  UNCHANGED <<log, acked, resolved, filed, waiters>>
    BY <2>3 DEF Connect, Lose, CloseSession, Pong, Sync, Snooze, Unsnooze, CatchUp, Press
  <2>4. ASSUME (\E a \in Alerts : Expire(a)) \/ (\E n \in 1..Limit["nap"] : NapEnds(n))
        PROVE  UNCHANGED <<log, acked, resolved, filed, waiters>>
    BY <2>4 DEF Expire, NapEnds
  <2>5. CASE UNCHANGED vars
    BY <2>5
  <2> QED
    BY <2>1, <2>2, <2>3, <2>4, <2>5 DEF Next, HubHears, Reborn
<1> QED
  BY <1>1, <1>2, <1>3, <1>4, <1>5, <1>6, <1>7

\* What was acknowledged or resolved is not re-sent by any timer (handleAck, resolve and
\* scheduleAckRetry of server.ts).
THEOREM SettledIsLeftAlone == Spec => []SettledStopsNagging
<1>1. Init => NagInv
  BY Marked DEF Init, NagInv, Marks
<1>2. NagInv => SettledStopsNagging
  BY DEF NagInv, SettledStopsNagging
<1> QED
  BY <1>1, <1>2, NagStep, PTL DEF Spec
-----------------------------------------------------------------------------
(* Lists of frames *)

Carries(f, a) == f.t = "notification" /\ a \in f.as
OnIt(q, b) == \E i \in 1..Len(q) : Carries(q[i], b)
\* Whoever reads q reads a lower one of D before a higher one.
Turns(q, D) ==
  \A i \in 1..Len(q) : \A a, b \in Nat :
    Carries(q[i], a) /\ b < a /\ b \in D => \E j \in 1..(i - 1) : Carries(q[j], b)
Answers(q, D) == \A i \in 1..Len(q) : q[i].t = "ack" => \A b \in D : b > q[i].n

LEMMA EmptyLen == Len(<<>>) = 0
  OBVIOUS

LEMMA JoinedOn ==
  ASSUME NEW F, NEW q \in Seq(F), NEW r \in Seq(F), NEW b
  PROVE  OnIt(q \o r, b) <=> OnIt(q, b) \/ OnIt(r, b)
<1> DEFINE Q == Len(q)
           R == Len(r)
           c == q \o r
<1>1. /\ Q \in Nat /\ R \in Nat /\ Len(c) = Q + R
      /\ \A i \in 1..(Q + R) : c[i] = IF i <= Q THEN q[i] ELSE r[i - Q]
  OBVIOUS
<1> HIDE DEF Q, R, c
<1>2. ASSUME NEW i \in 1..Q PROVE i \in 1..(Q + R) /\ c[i] = q[i]
  <2>1. i \in 1..(Q + R) /\ i <= Q
    BY <1>1
  <2> QED
    BY <1>1, <2>1
<1>3. ASSUME NEW i \in 1..R PROVE Q + i \in 1..(Q + R) /\ c[Q + i] = r[i]
  <2>1. Q + i \in 1..(Q + R) /\ ~(Q + i <= Q) /\ Q + i - Q = i
    BY <1>1
  <2> QED
    BY <1>1, <2>1
<1>4. ASSUME NEW i \in 1..(Q + R) PROVE (i \in 1..Q /\ c[i] = q[i]) \/ (i - Q \in 1..R /\ c[i] = r[i - Q])
  <2>1. i \in 1..Q \/ (~(i <= Q) /\ i - Q \in 1..R)
    BY <1>1
  <2>2. i \in 1..Q => i <= Q
    OBVIOUS
  <2> QED
    BY <1>1, <2>1, <2>2
<1>5. OnIt(c, b) => OnIt(q, b) \/ OnIt(r, b)
  BY <1>1, <1>4 DEF OnIt, Q, R
<1>6. OnIt(q, b) => OnIt(c, b)
  BY <1>1, <1>2 DEF OnIt, Q
<1>7. OnIt(r, b) => OnIt(c, b)
  BY <1>1, <1>3 DEF OnIt, R
<1> QED
  BY <1>5, <1>6, <1>7 DEF c

LEMMA JoinedTurns ==
  ASSUME NEW F, NEW q \in Seq(F), NEW r \in Seq(F), NEW D, Turns(q, D),
         \A i \in 1..Len(r) : \A a, b \in Nat :
           Carries(r[i], a) /\ b < a /\ b \in D => OnIt(q, b) \/ \E j \in 1..(i - 1) : Carries(r[j], b)
  PROVE  Turns(q \o r, D)
<1> DEFINE Q == Len(q)
           R == Len(r)
           c == q \o r
<1>1. /\ Q \in Nat /\ R \in Nat /\ Len(c) = Q + R
      /\ \A i \in 1..(Q + R) : c[i] = IF i <= Q THEN q[i] ELSE r[i - Q]
  OBVIOUS
<1> HIDE DEF Q, R, c
<1> SUFFICES ASSUME NEW i \in 1..(Q + R), NEW a \in Nat, NEW b \in Nat, Carries(c[i], a), b < a, b \in D
             PROVE  \E j \in 1..(i - 1) : Carries(c[j], b)
  BY <1>1 DEF Turns, c
<1>2. ASSUME NEW j \in 1..Q PROVE c[j] = q[j]
  <2>1. j \in 1..(Q + R) /\ j <= Q
    BY <1>1
  <2> QED
    BY <1>1, <2>1
<1>3. CASE i <= Q
  <2>1. i \in 1..Q /\ c[i] = q[i]
    BY <1>1, <1>3
  <2>2. PICK j \in 1..(i - 1) : Carries(q[j], b)
    BY <2>1 DEF Turns, Q
  <2>3. j \in 1..Q
    BY <2>1, <1>1
  <2> QED
    BY <1>2, <2>2, <2>3
<1>4. CASE ~(i <= Q)
  <2>1. i - Q \in 1..R /\ c[i] = r[i - Q]
    BY <1>1, <1>4
  <2>2. OnIt(q, b) \/ \E j \in 1..(i - Q - 1) : Carries(r[j], b)
    BY <2>1 DEF R
  <2>3. CASE OnIt(q, b)
    <3>1. PICK j \in 1..Q : Carries(q[j], b)
      BY <2>3 DEF OnIt, Q
    <3>2. j \in 1..(i - 1)
      BY <1>1, <1>4
    <3> QED
      BY <1>2, <3>1, <3>2
  <2>4. CASE \E j \in 1..(i - Q - 1) : Carries(r[j], b)
    <3>1. PICK j \in 1..(i - Q - 1) : Carries(r[j], b)
      BY <2>4
    <3>2. Q + j \in 1..(i - 1) /\ Q + j \in 1..(Q + R) /\ ~(Q + j <= Q) /\ Q + j - Q = j
      BY <1>1, <1>4
    <3>3. c[Q + j] = r[j]
      BY <1>1, <3>2
    <3> QED
      BY <3>1, <3>2, <3>3
  <2> QED
    BY <2>2, <2>3, <2>4
<1> QED
  BY <1>3, <1>4

LEMMA FewerTurns == ASSUME NEW q, NEW D, NEW E \in SUBSET D, Turns(q, D) PROVE Turns(q, E)
  BY DEF Turns

LEMMA FirstTurn ==
  ASSUME NEW F, NEW q \in Seq(F), q # <<>>, NEW D, Turns(q, D), NEW a \in Nat, Carries(Head(q), a)
  PROVE  \A b \in D : b \in Nat => ~(b < a)
<1>1. 1 \in 1..Len(q) /\ Head(q) = q[1] /\ 1..(1 - 1) = {}
  OBVIOUS
<1> QED
  BY <1>1 DEF Turns

LEMMA LeftOn ==
  ASSUME NEW F, NEW q \in Seq(F), q # <<>>, NEW b, OnIt(q, b), ~Carries(Head(q), b)
  PROVE  OnIt(Tail(q), b)
<1>1. /\ Len(q) \in Nat \ {0} /\ Head(q) = q[1] /\ Len(Tail(q)) = Len(q) - 1
      /\ \A i \in 1..(Len(q) - 1) : Tail(q)[i] = q[i + 1]
  OBVIOUS
<1>2. PICK i \in 1..Len(q) : Carries(q[i], b)
  BY DEF OnIt
<1>3. i # 1
  BY <1>1, <1>2
<1>4. i - 1 \in 1..(Len(q) - 1) /\ i - 1 + 1 = i
  BY <1>1, <1>3
<1>5. Tail(q)[i - 1] = q[i]
  BY <1>1, <1>4
<1> QED
  BY <1>1, <1>2, <1>4, <1>5 DEF OnIt

LEMMA LeftTurns ==
  ASSUME NEW F, NEW q \in Seq(F), q # <<>>, NEW D, NEW E \in SUBSET D, Turns(q, D),
         \A b \in E : ~Carries(Head(q), b)
  PROVE  Turns(Tail(q), E)
<1> DEFINE t == Tail(q)
           L == Len(q)
<1>1. /\ L \in Nat \ {0} /\ Head(q) = q[1] /\ Len(t) = L - 1
      /\ \A i \in 1..(L - 1) : t[i] = q[i + 1]
  OBVIOUS
<1> HIDE DEF t
<1> SUFFICES ASSUME NEW i \in 1..(L - 1), NEW a \in Nat, NEW b \in Nat, Carries(t[i], a), b < a, b \in E
             PROVE  \E j \in 1..(i - 1) : Carries(t[j], b)
  BY <1>1 DEF Turns, t
<1>2. i + 1 \in 1..L /\ Carries(q[i + 1], a) /\ i \in Nat /\ i + 1 - 1 = i
  BY <1>1
<1> HIDE DEF L
<1>3. PICK j \in 1..i : Carries(q[j], b)
  BY <1>2 DEF Turns, L
<1>4. j # 1
  BY <1>1, <1>3
<1>5. j - 1 \in 1..(i - 1) /\ j - 1 \in 1..(L - 1) /\ j - 1 + 1 = j
  BY <1>1, <1>2, <1>4
<1>6. t[j - 1] = q[j]
  BY <1>1, <1>5
<1> QED
  BY <1>3, <1>5, <1>6

LEMMA JoinedAnswers ==
  ASSUME NEW F, NEW q \in Seq(F), NEW r \in Seq(F), NEW D, NEW E \in SUBSET D, Answers(q, D), Answers(r, E)
  PROVE  Answers(q \o r, E)
<1> DEFINE Q == Len(q)
           R == Len(r)
           c == q \o r
<1>1. /\ Q \in Nat /\ R \in Nat /\ Len(c) = Q + R
      /\ \A i \in 1..(Q + R) : c[i] = IF i <= Q THEN q[i] ELSE r[i - Q]
  OBVIOUS
<1> HIDE DEF Q, R, c
<1>2. ASSUME NEW i \in 1..(Q + R), c[i].t = "ack", NEW b \in E PROVE b > c[i].n
  <2>1. CASE i <= Q
    <3>1. i \in 1..Q /\ c[i] = q[i]
      BY <1>1, <2>1
    <3> QED
      BY <1>2, <3>1 DEF Answers, Q
  <2>2. CASE ~(i <= Q)
    <3>1. i - Q \in 1..R /\ c[i] = r[i - Q]
      BY <1>1, <2>2
    <3> QED
      BY <1>2, <3>1 DEF Answers, R
  <2> QED
    BY <2>1, <2>2
<1> QED
  BY <1>1, <1>2 DEF Answers, c

LEMMA LeftAnswers ==
  ASSUME NEW F, NEW q \in Seq(F), q # <<>>, NEW D, NEW E \in SUBSET D, Answers(q, D)
  PROVE  Answers(Tail(q), E)
<1>1. /\ Len(q) \in Nat \ {0} /\ Len(Tail(q)) = Len(q) - 1
      /\ \A i \in 1..(Len(q) - 1) : Tail(q)[i] = q[i + 1] /\ i + 1 \in 1..Len(q)
  OBVIOUS
<1> QED
  BY <1>1 DEF Answers

-----------------------------------------------------------------------------
(* What a replay hands over is each alert once, in order. *)

Lower(S, a) == {b \in S : b < a}
Rank(S, a) == Cardinality(Lower(S, a))

LEMMA RankOf ==
  ASSUME NEW S \in SUBSET Nat, IsFiniteSet(S), NEW a \in S
  PROVE  /\ IsFiniteSet(Lower(S, a)) /\ Rank(S, a) \in 0..(Cardinality(S) - 1)
         /\ \A b \in S : b < a => Rank(S, b) < Rank(S, a)
<1>1. \A c \in S : Lower(S, c) \in SUBSET S
  BY DEF Lower
<1>2. \A c \in S : IsFiniteSet(Lower(S, c)) /\ Rank(S, c) \in Nat
  BY <1>1, FS_Subset, FS_CardinalityType DEF Rank
<1>3. Rank(S, a) <= Cardinality(S) - 1
  <2>1. Lower(S, a) \in SUBSET (S \ {a})
    BY DEF Lower
  <2>2. IsFiniteSet(S \ {a}) /\ Cardinality(S \ {a}) = Cardinality(S) - 1
    BY FS_RemoveElement
  <2> QED
    BY <2>1, <2>2, FS_Subset DEF Rank
<1>4. ASSUME NEW b \in S, b < a PROVE Rank(S, b) < Rank(S, a)
  <2>1. Lower(S, b) \in SUBSET (Lower(S, a) \ {b}) /\ b \in Lower(S, a)
    <3>1. ASSUME NEW c \in S, c < b PROVE c < a /\ c # b
      <4>1. c \in Nat /\ b \in Nat /\ a \in Nat
        OBVIOUS
      <4> QED
        BY <1>4, <3>1, <4>1
    <3> QED
      BY <1>4, <3>1 DEF Lower
  <2>2. IsFiniteSet(Lower(S, a) \ {b}) /\ Cardinality(Lower(S, a) \ {b}) = Rank(S, a) - 1
    BY <1>2, <2>1, FS_RemoveElement DEF Rank
  <2>3. Rank(S, b) <= Rank(S, a) - 1
    BY <2>1, <2>2, FS_Subset DEF Rank
  <2> QED
    BY <1>2, <2>3
<1>5. Cardinality(S) \in Nat
  BY FS_CardinalityType
<1>6. Rank(S, a) \in Nat
  BY <1>2
<1>7. Rank(S, a) \in 0..(Cardinality(S) - 1)
  BY <1>3, <1>5, <1>6
<1> QED
  BY <1>2, <1>4, <1>7

LEMMA Ranked ==
  ASSUME NEW S \in SUBSET Nat, IsFiniteSet(S)
  PROVE  LET s == InOrder(S)
             N == Cardinality(S)
         IN  /\ N \in Nat /\ s = [i \in 1..N |-> s[i]]
             /\ \A i \in 1..N : s[i] \in S
             /\ \A a \in S : \E i \in 1..N : s[i] = a
             /\ \A i, j \in 1..N : s[j] < s[i] => j < i
<1> DEFINE s == InOrder(S)
           N == Cardinality(S)
           rank == [a \in S |-> Rank(S, a)]
<1>1. N \in Nat
  BY FS_CardinalityType
<1>2. s = [i \in 1..N |-> CHOOSE a \in S : Rank(S, a) = i - 1]
  BY DEF InOrder, Rank, Lower
<1>3. \A a \in S : Rank(S, a) \in 0..(N - 1) /\ \A b \in S : b < a => Rank(S, b) < Rank(S, a)
  BY RankOf
<1> HIDE DEF s, N
<1>4. \A a, b \in S : Rank(S, a) = Rank(S, b) => a = b
  <2> SUFFICES ASSUME NEW a \in S, NEW b \in S, Rank(S, a) = Rank(S, b) PROVE a = b
    OBVIOUS
  <2>1. Rank(S, a) \in Nat /\ Rank(S, b) \in Nat /\ (a < b \/ b < a \/ a = b)
    BY <1>1, <1>3
  <2>2. (a < b => Rank(S, a) < Rank(S, b)) /\ (b < a => Rank(S, b) < Rank(S, a))
    BY <1>3
  <2> QED
    BY <2>1, <2>2
<1>5. rank \in [S -> 0..(N - 1)]
  BY <1>3
<1>6. \A a, b \in DOMAIN rank : rank[a] = rank[b] => a = b
  BY <1>4
<1>7. rank \in Injection(S, 0..(N - 1))
  BY <1>5, <1>6 DEF Injection, IsInjective
<1>8. ASSUME NEW n \in 0..(N - 1) PROVE \E a \in S : Rank(S, a) = n
  <2>1. IsFiniteSet(0..(N - 1)) /\ Cardinality(0..(N - 1)) = N
    <3>1. N - 1 \in Int /\ 0 \in Int /\ N \in Nat
      BY <1>1
    <3>2. IsFiniteSet(0..(N - 1)) /\ Cardinality(0..(N - 1)) = IF 0 > N - 1 THEN 0 ELSE N - 1 - 0 + 1
      BY <3>1, FS_Interval
    <3> QED
      BY <3>1, <3>2
  <2> HIDE DEF rank
  <2>2. rank \in Surjection(S, 0..(N - 1))
    BY <1>7, <2>1, FS_Injection DEF N
  <2>3. \E a \in S : rank[a] = n
    BY <2>2 DEF Surjection
  <2> QED
    BY <2>3 DEF rank
<1>9. ASSUME NEW i \in 1..N PROVE s[i] \in S /\ Rank(S, s[i]) = i - 1
  <2>1. i - 1 \in 0..(N - 1)
    BY <1>1
  <2>2. \E a \in S : Rank(S, a) = i - 1
    BY <1>8, <2>1
  <2> QED
    BY <1>2, <2>2
<1>10. ASSUME NEW a \in S PROVE \E i \in 1..N : s[i] = a
  <2>1. Rank(S, a) \in 0..(N - 1)
    BY <1>3
  <2>2. Rank(S, a) + 1 \in 1..N /\ Rank(S, a) + 1 - 1 = Rank(S, a)
    BY <1>1, <2>1
  <2> DEFINE i == Rank(S, a) + 1
  <2>3. i \in 1..N /\ i - 1 = Rank(S, a)
    BY <1>1, <2>1, <2>2
  <2> HIDE DEF i
  <2>4. s[i] \in S /\ Rank(S, s[i]) = Rank(S, a)
    BY <1>9, <2>3
  <2>5. s[i] = a
    BY <1>4, <2>4
  <2> QED
    BY <2>3, <2>5
<1>11. ASSUME NEW i \in 1..N, NEW j \in 1..N, s[j] < s[i] PROVE j < i
  <2>1. j - 1 < i - 1
    BY <1>3, <1>9, <1>11
  <2> QED
    BY <2>1, <1>1
<1>12. s = [i \in 1..N |-> s[i]]
  BY <1>2
<1> QED
  BY <1>1, <1>9, <1>10, <1>11, <1>12 DEF s, N

ToClient ==
  [t : {"notification"}, as : {{a} : a \in Published}, over : BOOLEAN, nap : {0}]
    \cup [t : {"resolve", "ready"}, as : SUBSET Nat, over : BOOLEAN, nap : {0}]
ToHub == [t : {"ack"}, n : Published, act : BOOLEAN] \cup [t : {"sync"}, n : Nat, act : BOOLEAN]

LEMMA Frames ==
  ASSUME NEW f \in ToClient
  PROVE  /\ f.nap = 0
         /\ f.t = "notification" => \E a \in Published : f.as = {a} /\ \A x : Carries(f, x) <=> x = a
         /\ f.t # "notification" => \A x : ~Carries(f, x)
  BY DEF ToClient, Carries

LEMMA Notes ==
  ASSUME NEW a \in Published
  PROVE  /\ Note(a) \in ToClient /\ Note(a).t = "notification"
         /\ \A x : Carries(Note(a), x) <=> x = a
<1>1. Note(a) = [t |-> "notification", as |-> {a}, over |-> a \in resolved, nap |-> 0]
  BY DEF Note
<1>2. (a \in resolved) \in BOOLEAN
  OBVIOUS
<1> DEFINE over == a \in resolved
<1> HIDE DEF over
<1>3. Note(a) = [t |-> "notification", as |-> {a}, over |-> over, nap |-> 0] /\ over \in BOOLEAN
  BY <1>1, <1>2 DEF over
<1>4. {a} \in {{x} : x \in Published}
  OBVIOUS
<1>5. Note(a) \in [t : {"notification"}, as : {{x} : x \in Published}, over : BOOLEAN, nap : {0}]
  BY <1>3, <1>4
<1> QED
  BY <1>3, <1>5 DEF ToClient, Carries

LEMMA Replays ==
  ASSUME log \in Seq(Kinds), NEW S \in SUBSET Published
  PROVE  /\ Replayed(S) \in Seq(ToClient) /\ Shown(S) \in SUBSET S
         /\ \A b : OnIt(Replayed(S), b) <=> b \in Shown(S)
         /\ Turns(Replayed(S), Shown(S))
<1> DEFINE T == Shown(S)
           r == Replayed(S)
           N == Cardinality(T)
           o == InOrder(T)
<1>1. T \in SUBSET S /\ T \in SUBSET Nat /\ T \in SUBSET Published
  <2>1. T \in SUBSET S
    BY DEF Shown
  <2>2. Published \in SUBSET Nat
    BY DEF Published
  <2> QED
    BY <2>1, <2>2
<1>2. IsFiniteSet(T)
  <2>1. LastSeq \in Nat
    BY DEF LastSeq
  <2>2. IsFiniteSet(1..LastSeq)
    BY <2>1, FS_Interval
  <2> QED
    BY <1>1, <2>2, FS_Subset DEF Published
<1>3. /\ N \in Nat /\ o = [i \in 1..N |-> o[i]]
      /\ \A i \in 1..N : o[i] \in T
      /\ \A a \in T : \E i \in 1..N : o[i] = a
      /\ \A i, j \in 1..N : o[j] < o[i] => j < i
  BY <1>1, <1>2, Ranked
<1> HIDE DEF T, N, o
<1>4. DOMAIN o = 1..N
  BY <1>3
<1>5. r = [i \in 1..N |-> Note(o[i])]
  BY <1>4 DEF Replayed, T, o
<1>6. \A i \in 1..N : r[i] \in ToClient /\ r[i] = Note(o[i]) /\ \A x : Carries(r[i], x) <=> x = o[i]
  BY <1>1, <1>3, <1>5, Notes
<1>7. r \in Seq(ToClient) /\ Len(r) = N
  BY <1>3, <1>5, <1>6
<1> HIDE DEF r
<1>8. ASSUME NEW b PROVE OnIt(r, b) <=> b \in T
  BY <1>3, <1>6, <1>7 DEF OnIt
<1>9. Turns(r, T)
  <2> SUFFICES ASSUME NEW i \in 1..N, NEW a \in Nat, NEW b \in Nat, Carries(r[i], a), b < a, b \in T
               PROVE  \E j \in 1..(i - 1) : Carries(r[j], b)
    BY <1>7 DEF Turns
  <2>1. o[i] = a
    BY <1>6
  <2>2. PICK j \in 1..N : o[j] = b
    BY <1>3
  <2>3. j < i
    BY <1>3, <2>1, <2>2
  <2>4. j \in 1..(i - 1)
    BY <1>3, <2>3
  <2> QED
    BY <1>6, <2>2, <2>4
<1> QED
  BY <1>1, <1>7, <1>8, <1>9 DEF T, r

-----------------------------------------------------------------------------
(* What the hub owes a device still, and where it is *)

DueTo(d) == {a \in Published : CouldSee(d, a) /\ ~Shows(d, a) /\ ~Excused(d, a)}

\* Nobody snoozes.
Awake ==
  /\ used \in [Events -> Nat] /\ used["nap"] = 0
  /\ snap = [k \in Clients |-> 0] /\ snoozed = [d \in Devices |-> 0] /\ nap = [k \in Clients |-> 0]
WireShape == down \in [Clients -> Seq(ToClient)] /\ up \in [Clients -> Seq(ToHub)]
Shape ==
  /\ log \in Seq(Kinds)
  /\ cursor \in [Devices -> Nat] /\ (\A d \in Devices : cursor[d] <= LastSeq) /\ omitted \in [Devices -> SUBSET Nat]
  /\ sock \in [Clients -> {"open", "lost", "closed"}]
  /\ feed \in [Clients -> SUBSET Published] /\ mine \in [Clients -> Nat]
  /\ fan \in [alert : Nat, todo : SUBSET Clients]
  /\ fan.todo # {} => fan.alert \in Published

Exempt(k, b) == b = fan.alert /\ k \in fan.todo
Whole(k) == sock[k] = "open" => \A b \in DueTo(Owner[k]) : OnIt(down[k], b) \/ Exempt(k, b)
InTurn(k) == Turns(down[k], DueTo(Owner[k]))
Answered(k) == Answers(up[k], DueTo(Owner[k]))
ReadThrough(k) == \A a \in feed[k] : \A b \in DueTo(Owner[k]) : b > a
InStep(k) == Whole(k) /\ InTurn(k) /\ Answered(k) /\ ReadThrough(k)
Behind(d) == \A b \in DueTo(d) : b > cursor[d]
PassInv ==
  /\ Shape /\ Awake /\ WireShape
  /\ \A k \in Clients : InStep(k)
  /\ \A d \in Devices : Behind(d)

LEMMA DueLess ==
  ASSUME log' = log, expired \subseteq expired', \A k \in Clients : feed[k] \subseteq feed'[k],
         \A d \in Devices : omitted[d] \subseteq omitted'[d], NEW d \in Devices
  PROVE  DueTo(d)' \in SUBSET DueTo(d)
<1>1. Published' = Published /\ Retained' = Retained
  BY DEF Published, Retained, LastSeq
<1>2. \A a : CouldSee(d, a)' <=> CouldSee(d, a)
  BY DEF CouldSee
<1>3. \A a : (Shows(d, a) => Shows(d, a)') /\ (Excused(d, a) => Excused(d, a)')
  BY <1>1 DEF Shows, Excused
<1> QED
  BY <1>1, <1>2, <1>3 DEF DueTo

LEMMA SameFrames ==
  ASSUME log' = log
  PROVE  LastSeq' = LastSeq /\ Published' = Published /\ ToClient' = ToClient /\ ToHub' = ToHub
  BY DEF LastSeq, Published, ToClient, ToHub

LEMMA Owned == ASSUME NEW k \in Clients PROVE Owner[k] \in Devices
  BY ConstantsAssumption DEF ConstantsAssumption

\* The hub's end of a client: what is on its way there
LEMMA KeptDown ==
  ASSUME NEW k \in Clients, InStep(k), DueTo(Owner[k])' \in SUBSET DueTo(Owner[k]), down'[k] = down[k],
         sock'[k] = "open" => sock[k] = "open", k \in fan.todo => k \in fan'.todo /\ fan'.alert = fan.alert
  PROVE  Whole(k)' /\ InTurn(k)'
<1>1. InTurn(k)'
  BY FewerTurns DEF InStep, InTurn
<1>2. \A b : Exempt(k, b) => Exempt(k, b)'
  BY DEF Exempt
<1>3. Whole(k)'
  BY <1>2 DEF InStep, Whole
<1> QED
  BY <1>1, <1>3

LEMMA AddedDown ==
  ASSUME WireShape, NEW k \in Clients, InStep(k), NEW D, D = DueTo(Owner[k])', D \in SUBSET DueTo(Owner[k]),
         NEW r \in Seq(ToClient), down'[k] = down[k] \o r, sock[k] = "open",
         \A i \in 1..Len(r) : \A a, b \in Nat : Carries(r[i], a) /\ b < a /\ b \in D => OnIt(down[k], b),
         \A b \in D : Exempt(k, b) => Exempt(k, b)' \/ OnIt(r, b)
  PROVE  Whole(k)' /\ InTurn(k)'
<1>1. down[k] \in Seq(ToClient)
  BY DEF WireShape
<1>2. Turns(down[k], D)
  BY FewerTurns DEF InStep, InTurn
<1>3. Turns(down'[k], D)
  BY <1>1, <1>2, JoinedTurns
<1>4. \A b : OnIt(down'[k], b) <=> OnIt(down[k], b) \/ OnIt(r, b)
  BY <1>1, JoinedOn
<1>5. Whole(k)'
  BY <1>4 DEF InStep, Whole
<1> QED
  BY <1>3, <1>5 DEF InTurn

LEMMA ReadDown ==
  ASSUME WireShape, NEW k \in Clients, InStep(k), NEW D, D = DueTo(Owner[k])', D \in SUBSET DueTo(Owner[k]),
         down[k] # <<>>, down'[k] = Tail(down[k]), \A b \in D : ~Carries(Head(down[k]), b),
         sock'[k] = sock[k], fan' = fan
  PROVE  Whole(k)' /\ InTurn(k)'
<1>1. down[k] \in Seq(ToClient)
  BY DEF WireShape
<1>2. Turns(down'[k], D)
  BY <1>1, LeftTurns DEF InStep, InTurn
<1>3. ASSUME NEW b \in D, OnIt(down[k], b) PROVE OnIt(down'[k], b)
  BY <1>1, <1>3, LeftOn
<1>4. \A b : Exempt(k, b) => Exempt(k, b)'
  BY DEF Exempt
<1>5. Whole(k)'
  BY <1>3, <1>4 DEF InStep, Whole
<1> QED
  BY <1>2, <1>5 DEF InTurn

LEMMA EmptiedDown ==
  ASSUME NEW k \in Clients, down'[k] = <<>>, sock'[k] # "open"
  PROVE  Whole(k)' /\ InTurn(k)'
<1>1. Len(down'[k]) = 0
  BY Zenon, EmptyLen
<1> QED
  BY <1>1 DEF Whole, InTurn, Turns

\* The client's end: what it has shown and what it says
LEMMA KeptUp ==
  ASSUME NEW k \in Clients, InStep(k), NEW D, D = DueTo(Owner[k])', D \in SUBSET DueTo(Owner[k]),
         up'[k] = up[k], feed'[k] = feed[k]
  PROVE  Answered(k)' /\ ReadThrough(k)'
  BY DEF InStep, Answered, ReadThrough, Answers

LEMMA SaidUp ==
  ASSUME WireShape, NEW k \in Clients, InStep(k), NEW D, D = DueTo(Owner[k])', D \in SUBSET DueTo(Owner[k]),
         NEW r \in Seq(ToHub), Answers(r, D), up'[k] = up[k] \o r
  PROVE  Answered(k)'
<1>1. up[k] \in Seq(ToHub) /\ Answers(up[k], DueTo(Owner[k]))
  BY DEF WireShape, InStep, Answered
<1>2. Answers(up'[k], D)
  BY <1>1, JoinedAnswers
<1> QED
  BY <1>2 DEF Answered

LEMMA HeardUp ==
  ASSUME WireShape, NEW k \in Clients, InStep(k), DueTo(Owner[k])' \in SUBSET DueTo(Owner[k]),
         up[k] # <<>>, up'[k] = Tail(up[k]), feed'[k] = feed[k]
  PROVE  Answered(k)' /\ ReadThrough(k)'
<1>1. up[k] \in Seq(ToHub) /\ Answers(up[k], DueTo(Owner[k]))
  BY DEF WireShape, InStep, Answered
<1>2. Answers(up'[k], DueTo(Owner[k])')
  BY <1>1, LeftAnswers
<1> QED
  BY <1>2 DEF Answered, InStep, ReadThrough

LEMMA EmptiedUp ==
  ASSUME NEW k \in Clients, InStep(k), DueTo(Owner[k])' \in SUBSET DueTo(Owner[k]),
         up'[k] = <<>>, feed'[k] = feed[k]
  PROVE  Answered(k)' /\ ReadThrough(k)'
<1>1. Len(up'[k]) = 0
  BY Zenon, EmptyLen
<1> QED
  BY <1>1 DEF Answered, Answers, InStep, ReadThrough
-----------------------------------------------------------------------------
(* Every step keeps what the hub owes in order, as long as nobody snoozes. *)

NoSnoozes == Limit["nap"] = 0

LEMMA AwakeAllows ==
  ASSUME Awake, NEW d \in Devices, NEW k \in Clients, NEW a
  PROVE  /\ Allowed(d, snap[k], a) <=> CouldSee(d, a)
         /\ Allowed(d, snoozed[d], a) <=> CouldSee(d, a)
         /\ ~SnoozeHolds(snap[k], a) /\ ~Snoozing(snap[k]) /\ ~Snoozing(nap[k]) /\ snap[k] = 0 /\ snoozed[d] = 0
         /\ Refreshed(d) = snap /\ Touched(k) = {snap} /\ [snap EXCEPT ![k] = 0] = snap
<1>1. snap[k] = 0 /\ snoozed[d] = 0 /\ nap[k] = 0
  BY DEF Awake
<1>2. \A e \in Devices : Refreshed(e) = snap
  BY DEF Awake, Refreshed
<1>3. Owner[k] \in Devices
  BY Owned
<1>4. [snap EXCEPT ![k] = 0] = snap
  BY DEF Awake
<1> QED
  BY <1>1, <1>2, <1>3, <1>4 DEF Allowed, SnoozeHolds, Snoozing, Touched

\* The frames that can be on the wire, and who reads them.
LEMMA NoSnoozeFrames ==
  ASSUME WireShape, NEW k \in Clients
  PROVE  /\ ~HandleSnooze(k)
         /\ up[k] # <<>> => Head(up[k]) \in ToHub /\ Tail(up[k]) \in Seq(ToHub)
         /\ down[k] # <<>> => Head(down[k]) \in ToClient /\ Tail(down[k]) \in Seq(ToClient)
<1>1. up[k] \in Seq(ToHub) /\ down[k] \in Seq(ToClient)
  BY DEF WireShape
<1>2. /\ up[k] # <<>> => Head(up[k]) \in ToHub /\ Tail(up[k]) \in Seq(ToHub)
      /\ down[k] # <<>> => Head(down[k]) \in ToClient /\ Tail(down[k]) \in Seq(ToClient)
  BY <1>1
<1>3. \A m \in ToHub : m.t # "snooze"
  BY DEF ToHub
<1> QED
  BY <1>2, <1>3 DEF HandleSnooze, Hears

\* With no snooze ever asked for, snapshots and records agree that there is none.
LEMMA AwakeStep ==
  ASSUME NoSnoozes, PassInv, [Next]_vars
  PROVE  Awake' /\ \A k \in Clients : ~Snooze(k) /\ ~Unsnooze(k) /\ ~HandleSnooze(k) /\ ~DeliverHold(k)
<1> USE DEF PassInv
<1>1. ASSUME NEW k \in Clients PROVE ~Snooze(k) /\ ~Unsnooze(k) /\ ~HandleSnooze(k) /\ ~DeliverHold(k)
  <2>1. ~Snooze(k)
    BY DEF Snooze, Spend, NoSnoozes, Awake
  <2>2. Owner[k] \in Devices
    BY Owned
  <2> QED
    BY <2>1, <2>2, AwakeAllows, NoSnoozeFrames DEF Unsnooze, DeliverHold
<1>2. ASSUME NEW e \in Events \ {"nap"}, Spend(e) PROVE used' \in [Events -> Nat] /\ used'["nap"] = 0
  BY <1>2 DEF Spend, Awake, Events
<1>3. ASSUME Publish \/ Compact \/ Reborn \/ \E a \in Alerts : Retry(a) \/ Expire(a) \/ Resolve(a)
      PROVE  Awake'
  <2>1. CASE Reborn \/ \E a \in Alerts : Resolve(a)
    BY <1>2, <2>1 DEF Reborn, Restart, Resolve, Awake, Events
  <2>2. CASE Publish \/ Compact \/ \E a \in Alerts : Retry(a) \/ Expire(a)
    BY <2>2 DEF Publish, Compact, Retry, Expire, Awake
  <2> QED
    BY <1>3, <2>1, <2>2
<1>4. ASSUME \E n \in 1..Limit["nap"] : NapEnds(n)
      PROVE  Awake'
  BY <1>4 DEF NapEnds, Awake
<1>5. ASSUME NEW k \in Clients, Deliver(k) \/ HandleAck(k) \/ HandleSync(k) \/ Pong(k) \/ Connect(k)
      PROVE  Awake'
  <2> DEFINE d == Owner[k]
  <2>1. d \in Devices
    BY Owned
  <2> HIDE DEF d
  <2>2. Refreshed(d) = snap /\ Touched(k) = {snap} /\ [snap EXCEPT ![k] = 0] = snap /\ snoozed[d] = 0
    BY <2>1, AwakeAllows
  <2>3. ~DeliverHold(k)
    BY <1>1
  <2>4. CASE Deliver(k)
    BY <2>3, <2>4 DEF Deliver, DeliverSend, DeliverSkip, Awake
  <2>5. CASE HandleAck(k)
    BY <2>2, <2>5 DEF HandleAck, MoveCursor, Awake, d
  <2>6. CASE HandleSync(k)
    BY <2>2, <2>6 DEF HandleSync, Awake, d
  <2>7. CASE Pong(k)
    BY <2>2, <2>7 DEF Pong, Awake, d
  <2>8. CASE Connect(k)
    BY <2>2, <2>8 DEF Connect, Awake, d
  <2> QED
    BY <1>5, <2>4, <2>5, <2>6, <2>7, <2>8
<1>6. ASSUME NEW k \in Clients, ReceiveNote(k) \/ ReceiveResolve(k) \/ ReceiveReady(k) \/ CatchUp(k)
      PROVE  Awake'
  <2>1. CASE ReceiveReady(k)
    <3>1. Head(down[k]).nap = 0
      BY <2>1, NoSnoozeFrames, Frames DEF ReceiveReady, Gets
    <3> QED
      BY <2>1, <3>1 DEF ReceiveReady, Awake
  <2> QED
    BY <1>6, <2>1 DEF ReceiveNote, ReceiveResolve, CatchUp, Awake
<1>7. ASSUME NEW k \in Clients, Lose(k) \/ CloseSession(k) \/ Sync(k) \/ \E a \in Alerts : Press(k, a)
      PROVE  Awake'
  BY <1>2, <1>7 DEF Lose, CloseSession, Sync, Press, Awake, Events
<1>8. ASSUME UNCHANGED vars
      PROVE  Awake'
  <2>1. used' = used /\ snap' = snap /\ snoozed' = snoozed /\ nap' = nap
    BY <1>8
  <2> QED
    BY <2>1 DEF Awake
<1> QED
  BY <1>1, <1>3, <1>4, <1>5, <1>6, <1>7, <1>8 DEF Next, HubHears, ClientGets, Reborn

LEMMA Undisturbed ==
  ASSUME PassInv, NEW j \in Clients, DueTo(Owner[j])' \in SUBSET DueTo(Owner[j]),
         down'[j] = down[j], up'[j] = up[j], feed'[j] = feed[j], sock'[j] = "open" => sock[j] = "open",
         j \in fan.todo => j \in fan'.todo /\ fan'.alert = fan.alert
  PROVE  InStep(j)'
<1>1. InStep(j)
  BY DEF PassInv
<1>2. Whole(j)' /\ InTurn(j)'
  BY <1>1, KeptDown
<1>3. Answered(j)' /\ ReadThrough(j)'
  BY <1>1, KeptUp
<1> QED
  BY <1>2, <1>3 DEF InStep

\* Nothing moves on the wire and no cursor does.
LEMMA WireRests ==
  ASSUME PassInv, Awake', log' = log, expired \subseteq expired', UNCHANGED <<cursor, omitted, feed, mine, down, up>>,
         sock' \in [Clients -> {"open", "lost", "closed"}], \A k \in Clients : sock'[k] = "open" => sock[k] = "open",
         fan' \in [alert : Nat, todo : SUBSET Clients], fan'.todo # {} => fan'.alert \in Published,
         fan.todo = {} \/ fan' = fan
  PROVE  PassInv'
<1>1. \A d \in Devices : DueTo(d)' \in SUBSET DueTo(d)
  BY DueLess
<1>2. LastSeq' = LastSeq /\ Published' = Published /\ ToClient' = ToClient /\ ToHub' = ToHub
  BY SameFrames
<1>3. Shape'
  BY <1>2 DEF PassInv, Shape
<1>4. WireShape'
  BY <1>2 DEF PassInv, WireShape
<1>5. ASSUME NEW j \in Clients PROVE InStep(j)'
  <2>1. DueTo(Owner[j])' \in SUBSET DueTo(Owner[j])
    BY <1>1, Owned
  <2>2. j \in fan.todo => j \in fan'.todo /\ fan'.alert = fan.alert
    OBVIOUS
  <2> QED
    BY <2>1, <2>2, Undisturbed
<1>6. \A d \in Devices : Behind(d)'
  BY <1>1 DEF PassInv, Behind
<1> QED
  BY <1>3, <1>4, <1>5, <1>6 DEF PassInv

\* A client says something that acknowledges nothing it has not shown.
LEMMA SaysStep ==
  ASSUME PassInv, Awake', NEW k \in Clients, NEW r \in Seq(ToHub), Answers(r, DueTo(Owner[k])), Says(k, r),
         UNCHANGED <<log, expired, cursor, omitted, sock, feed, down, fan>>, mine' \in [Clients -> Nat]
  PROVE  PassInv'
<1>1. \A d \in Devices : DueTo(d)' \in SUBSET DueTo(d)
  BY DueLess
<1>2. LastSeq' = LastSeq /\ Published' = Published /\ ToClient' = ToClient /\ ToHub' = ToHub
  BY SameFrames
<1>3. Shape'
  BY <1>2 DEF PassInv, Shape
<1>4. up \in [Clients -> Seq(ToHub)] /\ up[k] \in Seq(ToHub)
  BY DEF PassInv, WireShape
<1>5. Said(k, r) \in Seq(ToHub)
  BY <1>4 DEF Said
<1>6. up' \in [Clients -> Seq(ToHub)] /\ up'[k] = Said(k, r) /\ \A j \in Clients : j # k => up'[j] = up[j]
  BY <1>4, <1>5 DEF Says
<1>7. WireShape'
  BY <1>2, <1>6 DEF PassInv, WireShape
<1>8. ASSUME NEW j \in Clients PROVE InStep(j)'
  <2>1. DueTo(Owner[j])' \in SUBSET DueTo(Owner[j])
    BY <1>1, Owned
  <2>2. CASE j # k \/ sock[k] # "open"
    BY <1>6, <2>1, <2>2, Undisturbed DEF Said
  <2>3. CASE j = k /\ sock[k] = "open"
    <3>1. InStep(j) /\ WireShape
      BY DEF PassInv
    <3>2. Whole(j)' /\ InTurn(j)'
      BY <2>1, <3>1, KeptDown
    <3>3. Answers(r, DueTo(Owner[k])')
      BY <2>1, <2>3 DEF Answers
    <3>4. up'[k] = up[k] \o r
      BY <1>6, <2>3 DEF Said
    <3>5. Answered(j)'
      BY <2>1, <2>3, <3>1, <3>3, <3>4, SaidUp
    <3>6. ReadThrough(j)'
      BY <2>1, <3>1 DEF InStep, ReadThrough
    <3> QED
      BY <3>2, <3>5, <3>6 DEF InStep
  <2> QED
    BY <2>2, <2>3
<1>9. \A d \in Devices : Behind(d)'
  BY <1>1 DEF PassInv, Behind
<1> QED
  BY <1>3, <1>7, <1>8, <1>9 DEF PassInv

LEMMA Sayings ==
  ASSUME NEW D
  PROVE  /\ <<>> \in Seq(ToHub) /\ Answers(<<>>, D)
         /\ \A n \in Nat : <<SyncFrom(n)>> \in Seq(ToHub) /\ Answers(<<SyncFrom(n)>>, D)
         /\ \A a \in Published : \A act \in BOOLEAN : /\ <<Ack(a, act)>> \in Seq(ToHub)
                                                      /\ (\A b \in D : b > a) => Answers(<<Ack(a, act)>>, D)
<1>1. <<>> \in Seq(ToHub) /\ Answers(<<>>, D)
  BY DEF Answers
<1>2. ASSUME NEW n \in Nat PROVE <<SyncFrom(n)>> \in Seq(ToHub) /\ Answers(<<SyncFrom(n)>>, D)
  <2>1. SyncFrom(n) \in ToHub /\ SyncFrom(n).t = "sync"
    BY DEF SyncFrom, ToHub
  <2> QED
    BY <2>1 DEF Answers
<1>3. ASSUME NEW a \in Published, NEW act \in BOOLEAN
      PROVE  <<Ack(a, act)>> \in Seq(ToHub) /\ ((\A b \in D : b > a) => Answers(<<Ack(a, act)>>, D))
  <2>1. Ack(a, act) \in ToHub /\ Ack(a, act).n = a
    BY DEF Ack, ToHub
  <2> QED
    BY <2>1 DEF Answers
<1> QED
  BY <1>1, <1>2, <1>3

\* What a client, a clock or a dying socket does without a frame being read
LEMMA ClientStep ==
  ASSUME PassInv, Awake', NEW k \in Clients, Sync(k) \/ CatchUp(k) \/ \E a \in Alerts : Press(k, a)
  PROVE  PassInv'
<1>1. mine \in [Clients -> Nat] /\ feed[k] \in SUBSET Published /\ Published \in SUBSET Nat
  BY DEF PassInv, Shape, Published
<1>2. CASE Sync(k) \/ CatchUp(k)
  <2>1. mine[k] \in Nat
    BY <1>1
  <2>2. <<SyncFrom(mine[k])>> \in Seq(ToHub) /\ Answers(<<SyncFrom(mine[k])>>, DueTo(Owner[k]))
    BY <2>1, Sayings
  <2>3. /\ Says(k, <<SyncFrom(mine[k])>>) /\ UNCHANGED <<log, expired, cursor, omitted, sock, feed, down, fan>>
        /\ mine' \in [Clients -> Nat]
    BY <1>1, <1>2 DEF Sync, CatchUp
  <2> QED
    BY <2>2, <2>3, SaysStep
<1>3. CASE \E a \in Alerts : Press(k, a)
  <2>1. PICK a \in Alerts : Press(k, a)
    BY <1>3
  <2>2. a \in feed[k] /\ a \in Published
    BY <1>1, <2>1 DEF Press
  <2>3. \A b \in DueTo(Owner[k]) : b > a
    BY <2>2 DEF PassInv, InStep, ReadThrough
  <2>4. <<Ack(a, TRUE)>> \in Seq(ToHub) /\ Answers(<<Ack(a, TRUE)>>, DueTo(Owner[k]))
    BY <2>2, <2>3, Sayings
  <2>5. mine' \in [Clients -> Nat]
    BY <1>1, <2>1, <2>2 DEF Press, Advance
  <2>6. Says(k, <<Ack(a, TRUE)>>) /\ UNCHANGED <<log, expired, cursor, omitted, sock, feed, down, fan>>
    BY <2>1 DEF Press
  <2> QED
    BY <2>4, <2>5, <2>6, SaysStep
<1> QED
  BY <1>2, <1>3

\* Timers, and what only the hub's own records see
Apart ==
  \/ Compact
  \/ \E a \in Alerts : Retry(a) \/ Expire(a)
  \/ \E n \in 1..Limit["nap"] : NapEnds(n)
  \/ \E k \in Clients : Pong(k) \/ CloseSession(k)
  \/ UNCHANGED vars

LEMMA QuietStep == ASSUME PassInv, NagInv, Awake', Apart PROVE PassInv'
<1>1. /\ sock \in [Clients -> {"open", "lost", "closed"}] /\ fan \in [alert : Nat, todo : SUBSET Clients]
      /\ fan.todo # {} => fan.alert \in Published
  BY DEF PassInv, Shape
<1>2. Quiet => fan.todo = {}
  BY DEF Quiet, NoFan
<1>3. CASE \E k \in Clients : CloseSession(k)
  BY <1>1, <1>2, <1>3, WireRests DEF CloseSession
<1>4. CASE \E a \in Alerts : Retry(a)
  <2>1. PICK a \in Alerts : Retry(a)
    BY <1>4
  <2>2. a \in Nat
    BY DEF Alerts
  <2>3. CASE fan' = fan
    BY <1>1, <2>1, <2>3, WireRests DEF Retry
  <2>4. CASE a \in Published /\ StartDeliver(a)
    <3>1. fan' \in [alert : Nat, todo : SUBSET Clients] /\ (fan'.todo # {} => fan'.alert \in Published)
      BY <2>2, <2>4 DEF StartDeliver, ReadySessions, NoFan
    <3> QED
      BY <1>1, <1>2, <2>1, <3>1, WireRests DEF Retry
  <2> QED
    BY <2>1, <2>3, <2>4 DEF Retry, NagInv
<1>5. CASE \/ Compact
           \/ \E a \in Alerts : Expire(a)
           \/ \E n \in 1..Limit["nap"] : NapEnds(n)
           \/ \E k \in Clients : Pong(k)
           \/ UNCHANGED vars
  <2>1. /\ log' = log /\ expired \subseteq expired' /\ UNCHANGED <<cursor, omitted, feed, mine, down, up>>
        /\ sock' = sock /\ fan' = fan
    BY <1>5 DEF Compact, Expire, NapEnds, Pong
  <2> QED
    BY <1>1, <2>1, WireRests
<1> QED
  BY <1>3, <1>4, <1>5 DEF Apart

\* A client takes the frame at the head of its queue: it now shows `new`, and says r.
LEMMA TakesFrame ==
  ASSUME PassInv, Awake', NEW k \in Clients, NEW r \in Seq(ToHub), NEW new \in SUBSET Published,
         sock[k] = "open", down[k] # <<>>, down' = [down EXCEPT ![k] = Tail(@)],
         up' = [up EXCEPT ![k] = Said(k, r)], feed' = [feed EXCEPT ![k] = @ \cup new],
         UNCHANGED <<log, expired, cursor, omitted, sock, fan>>, mine' \in [Clients -> Nat],
         \A x : Carries(Head(down[k]), x) => x \in new,
         \A a \in new : \A b \in DueTo(Owner[k]) : b \in new \/ b > a,
         Answers(r, DueTo(Owner[k]) \ new)
  PROVE  PassInv'
<1> DEFINE D == DueTo(Owner[k])'
<1>1. feed \in [Clients -> SUBSET Published] /\ down[k] \in Seq(ToClient) /\ up[k] \in Seq(ToHub)
      /\ down \in [Clients -> Seq(ToClient)] /\ up \in [Clients -> Seq(ToHub)]
  BY DEF PassInv, Shape, WireShape
<1>2. \A j \in Clients : feed[j] \subseteq feed'[j]
  BY <1>1
<1>3. \A d \in Devices : DueTo(d)' \in SUBSET DueTo(d)
  BY <1>2, DueLess
<1>4. LastSeq' = LastSeq /\ Published' = Published /\ ToClient' = ToClient /\ ToHub' = ToHub
  BY SameFrames
<1>5. D \in SUBSET (DueTo(Owner[k]) \ new)
  <2>1. \A a \in new : Shows(Owner[k], a)'
    BY <1>1 DEF Shows
  <2> QED
    BY <1>3, <2>1, Owned DEF DueTo
<1> HIDE DEF D
<1>6. Tail(down[k]) \in Seq(ToClient) /\ up[k] \o r \in Seq(ToHub) /\ Said(k, r) = up[k] \o r
  BY <1>1 DEF Said
<1>7. /\ down' \in [Clients -> Seq(ToClient)] /\ down'[k] = Tail(down[k])
      /\ up' \in [Clients -> Seq(ToHub)] /\ up'[k] = up[k] \o r
      /\ feed' \in [Clients -> SUBSET Published] /\ feed'[k] = feed[k] \cup new
      /\ \A j \in Clients : j # k => down'[j] = down[j] /\ up'[j] = up[j] /\ feed'[j] = feed[j]
  BY <1>1, <1>6
<1>8. Shape' /\ WireShape'
  BY <1>4, <1>7 DEF PassInv, Shape, WireShape
<1>9. ASSUME NEW j \in Clients PROVE InStep(j)'
  <2>1. CASE j # k
    <3>1. DueTo(Owner[j])' \in SUBSET DueTo(Owner[j])
      BY <1>3, Owned
    <3> QED
      BY <1>7, <2>1, <3>1, Undisturbed
  <2>2. CASE j = k
    <3>1. InStep(k) /\ WireShape
      BY DEF PassInv
    <3>2. D = DueTo(Owner[k])' /\ D \in SUBSET DueTo(Owner[k]) /\ \A b \in D : ~Carries(Head(down[k]), b)
      BY <1>5 DEF D
    <3>3. Whole(k)' /\ InTurn(k)'
      BY <1>7, <3>1, <3>2, ReadDown
    <3>4. Answers(r, D)
      BY <1>5 DEF Answers
    <3>5. Answered(k)'
      BY <1>7, <3>1, <3>2, <3>4, SaidUp
    <3>6. ASSUME NEW a \in feed'[k], NEW b \in D PROVE b > a
      <4>1. b \in DueTo(Owner[k]) /\ b \notin new
        BY <1>5
      <4>2. CASE a \in new
        BY <4>1, <4>2
      <4>3. CASE a \in feed[k]
        BY <3>1, <4>1, <4>3 DEF InStep, ReadThrough
      <4> QED
        BY <1>7, <4>2, <4>3
    <3>7. ReadThrough(k)'
      BY <3>6 DEF ReadThrough, D
    <3> QED
      BY <2>2, <3>3, <3>5, <3>7 DEF InStep
  <2> QED
    BY <2>1, <2>2
<1>10. \A d \in Devices : Behind(d)'
  BY <1>3 DEF PassInv, Behind
<1> QED
  BY <1>8, <1>9, <1>10 DEF PassInv

LEMMA ClientGetsStep == ASSUME PassInv, Awake', NEW k \in Clients, ClientGets(k) PROVE PassInv'
<1> DEFINE m == Head(down[k])
           D == DueTo(Owner[k])
<1>1. /\ mine \in [Clients -> Nat] /\ mine[k] \in Nat /\ feed = [feed EXCEPT ![k] = @ \cup {}]
      /\ Published \in SUBSET Nat /\ up = [up EXCEPT ![k] = Said(k, <<>>)] /\ down[k] \in Seq(ToClient)
  <2>1. up \in [Clients -> Seq(ToHub)] /\ up[k] \in Seq(ToHub) /\ up[k] \o <<>> = up[k]
    BY DEF PassInv, WireShape
  <2>2. up = [up EXCEPT ![k] = Said(k, <<>>)]
    BY <2>1 DEF Said
  <2>3. feed = [feed EXCEPT ![k] = @ \cup {}]
    BY DEF PassInv, Shape
  <2> QED
    BY <2>2, <2>3 DEF PassInv, Shape, WireShape, Published
<1>2. /\ sock[k] = "open" /\ down[k] # <<>> /\ down' = [down EXCEPT ![k] = Tail(@)]
      /\ UNCHANGED <<log, expired, cursor, omitted, sock, fan>>
  BY DEF ClientGets, ReceiveNote, ReceiveResolve, ReceiveReady, Gets
<1>3. /\ m \in ToClient
      /\ m.t = "notification" => \E a \in Published : m.as = {a} /\ \A x : Carries(m, x) <=> x = a
      /\ m.t # "notification" => \A x : ~Carries(m, x)
  BY <1>2, NoSnoozeFrames, Frames DEF PassInv
<1>4. CASE ReceiveNote(k)
  <2>1. PICK a \in Published : m.as = {a} /\ \A x : Carries(m, x) <=> x = a
    BY <1>3, <1>4 DEF ReceiveNote, Gets
  <2>2. (CHOOSE x \in m.as : TRUE) = a
    BY <2>1
  <2>3. /\ Says(k, <<Ack(a, FALSE)>>) /\ Advance(k, a) /\ feed' = [feed EXCEPT ![k] = @ \cup {a}]
    BY <1>4, <2>2 DEF ReceiveNote
  <2>4. \A b \in D : b = a \/ b > a
    <3>1. \A b \in D : b \in Nat => ~(b < a)
      BY <1>1, <1>2, <2>1, FirstTurn DEF PassInv, InStep, InTurn
    <3>2. \A b \in D : b \in Nat /\ a \in Nat
      BY <1>1 DEF DueTo
    <3> QED
      BY <3>1, <3>2
  <2>5. <<Ack(a, FALSE)>> \in Seq(ToHub) /\ Answers(<<Ack(a, FALSE)>>, D \ {a})
    BY <2>4, Sayings
  <2>6. mine' \in [Clients -> Nat]
    BY <1>1, <2>3 DEF Advance
  <2> QED
    BY <1>2, <2>1, <2>3, <2>4, <2>5, <2>6, TakesFrame DEF Says
<1>5. CASE ReceiveResolve(k) \/ ReceiveReady(k)
  <2> DEFINE r == IF ReceiveReady(k) /\ SyncsOnReady THEN <<SyncFrom(mine[k])>> ELSE <<>>
           new == {}
  <2>1. r \in Seq(ToHub) /\ Answers(r, D)
    BY <1>1, Sayings
  <2>2. Answers(r, D \ new)
    BY <2>1 DEF Answers, new
  <2>3. up' = [up EXCEPT ![k] = Said(k, r)] /\ feed' = [feed EXCEPT ![k] = @ \cup new] /\ mine' \in [Clients -> Nat]
    BY <1>1, <1>5 DEF ReceiveResolve, ReceiveReady, Gets, Says
  <2>4. \A x : ~Carries(m, x)
    BY <1>3, <1>5 DEF ReceiveResolve, ReceiveReady, Gets
  <2>5. new \in SUBSET Published /\ \A a \in new : FALSE
    OBVIOUS
  <2> HIDE DEF r, new
  <2> QED
    BY <1>2, <2>1, <2>2, <2>3, <2>4, <2>5, TakesFrame
<1> QED
  BY <1>4, <1>5 DEF ClientGets

\* The hub reads a frame: an acknowledgement of something nothing older is due before...
LEMMA HandleAckStep == ASSUME PassInv, Awake', NEW k \in Clients, HandleAck(k) PROVE PassInv'
<1> DEFINE d == Owner[k]
           m == Head(up[k])
<1>1. /\ up[k] # <<>> /\ up' = [up EXCEPT ![k] = Tail(@)] /\ m.t = "ack"
      /\ UNCHANGED <<log, expired, omitted, sock, feed, mine, down, fan>>
  BY DEF HandleAck, Hears
<1>2. \A e \in Devices : DueTo(e)' \in SUBSET DueTo(e)
  BY <1>1, DueLess
<1>3. LastSeq' = LastSeq /\ Published' = Published /\ ToClient' = ToClient /\ ToHub' = ToHub
  BY <1>1, SameFrames
<1>4. m \in ToHub /\ Tail(up[k]) \in Seq(ToHub) /\ up \in [Clients -> Seq(ToHub)] /\ up[k] \in Seq(ToHub) /\ d \in Devices
  BY <1>1, NoSnoozeFrames, Owned DEF PassInv, WireShape
<1>5. m.n \in Nat /\ m.n <= LastSeq
  <2>1. m.n \in Published
    BY <1>1, <1>4 DEF ToHub
  <2> QED
    BY <2>1 DEF Published, LastSeq
<1>6. \A b \in DueTo(d) : b > m.n
  <2>1. Answers(up[k], DueTo(d)) /\ 1 \in 1..Len(up[k]) /\ up[k][1] = m
    BY <1>1, <1>4 DEF PassInv, InStep, Answered
  <2> QED
    BY <1>1, <2>1 DEF Answers
<1>7. cursor' = cursor \/ cursor' = [cursor EXCEPT ![d] = m.n]
  <2>1. cursor' = cursor \/ cursor' = [cursor EXCEPT ![d] = IF m.n < LastSeq THEN m.n ELSE LastSeq]
    BY DEF HandleAck, MoveCursor
  <2>2. (IF m.n < LastSeq THEN m.n ELSE LastSeq) = m.n
    BY <1>5 DEF LastSeq
  <2> QED
    BY <2>1, <2>2
<1> HIDE DEF d, m
<1>8. up' \in [Clients -> Seq(ToHub)] /\ up'[k] = Tail(up[k]) /\ \A j \in Clients : j # k => up'[j] = up[j]
  BY <1>1, <1>4
<1>9. Shape'
  <2>1. cursor \in [Devices -> Nat] /\ \A e \in Devices : cursor[e] <= LastSeq
    BY DEF PassInv, Shape
  <2>2. cursor' \in [Devices -> Nat] /\ \A e \in Devices : cursor'[e] <= LastSeq
    BY <1>4, <1>5, <1>7, <2>1
  <2> QED
    BY <1>1, <1>3, <2>2 DEF PassInv, Shape
<1>10. WireShape'
  BY <1>1, <1>3, <1>8 DEF PassInv, WireShape
<1>11. ASSUME NEW j \in Clients PROVE InStep(j)'
  <2>1. DueTo(Owner[j])' \in SUBSET DueTo(Owner[j])
    BY <1>2, Owned
  <2>2. CASE j # k
    BY <1>1, <1>8, <2>1, <2>2, Undisturbed
  <2>3. CASE j = k
    <3>1. InStep(k) /\ WireShape
      BY DEF PassInv
    <3>2. Whole(k)' /\ InTurn(k)'
      BY <1>1, <2>1, <2>3, <3>1, KeptDown
    <3>3. Answered(k)' /\ ReadThrough(k)'
      BY <1>1, <1>8, <2>1, <2>3, <3>1, HeardUp
    <3> QED
      BY <2>3, <3>2, <3>3 DEF InStep
  <2> QED
    BY <2>2, <2>3
<1>12. ASSUME NEW e \in Devices PROVE Behind(e)'
  <2>1. \A b \in DueTo(e) : b > cursor[e]
    BY DEF PassInv, Behind
  <2>2. \A b \in DueTo(e) : b > cursor'[e]
    <3>1. CASE cursor' = cursor
      BY <2>1, <3>1
    <3>2. CASE cursor' = [cursor EXCEPT ![d] = m.n]
      <4>1. cursor'[e] = IF e = d THEN m.n ELSE cursor[e]
        BY <3>2 DEF PassInv, Shape
      <4> QED
        BY <1>6, <2>1, <4>1
    <3> QED
      BY <1>7, <3>1, <3>2
  <2> QED
    BY <1>2, <2>2 DEF Behind
<1> QED
  BY <1>9, <1>10, <1>11, <1>12 DEF PassInv

LEMMA Noted ==
  ASSUME omitted \in [Devices -> SUBSET Nat], NEW d \in Devices, NEW as \in SUBSET Published, NoteReplay(d, as)
  PROVE  /\ omitted' \in [Devices -> SUBSET Nat] /\ as \ Shown(as) \in SUBSET omitted'[d]
         /\ \A e \in Devices : omitted[e] \subseteq omitted'[e]
<1>1. Published \in SUBSET Nat
  BY DEF Published
<1>2. as \in SUBSET Nat
  BY <1>1
<1> QED
  BY <1>2 DEF NoteReplay

\* ... or a request for what is new, whatever it names: what is due is on the wire before it.
LEMMA HandleSyncStep == ASSUME PassInv, Awake', NEW k \in Clients, HandleSync(k) PROVE PassInv'
<1>1. PICK as \in SUBSET Published : SendReplay(k, as)
  BY DEF HandleSync, Eligible, Retained
<1>2. /\ sock[k] = "open" /\ up[k] # <<>> /\ up' = [up EXCEPT ![k] = Tail(@)]
      /\ down' = [down EXCEPT ![k] = Sent(k, Replayed(as))] /\ NoteReplay(Owner[k], as) /\ Quiet
      /\ UNCHANGED <<log, expired, cursor, sock, feed, mine, fan>>
  BY <1>1 DEF HandleSync, Hears, SendReplay
<1>3. /\ Owner[k] \in Devices /\ down \in [Clients -> Seq(ToClient)] /\ down[k] \in Seq(ToClient)
      /\ up \in [Clients -> Seq(ToHub)] /\ up[k] \in Seq(ToHub)
  BY Owned DEF PassInv, WireShape
<1>4. Replayed(as) \in Seq(ToClient) /\ Sent(k, Replayed(as)) = down[k] \o Replayed(as)
  BY <1>2, Replays DEF PassInv, Shape, Sent
<1>5. omitted' \in [Devices -> SUBSET Nat] /\ \A e \in Devices : omitted[e] \subseteq omitted'[e]
  BY <1>2, <1>3, Noted DEF PassInv, Shape
<1>6. \A e \in Devices : DueTo(e)' \in SUBSET DueTo(e)
  BY <1>2, <1>5, DueLess
<1>7. LastSeq' = LastSeq /\ Published' = Published /\ ToClient' = ToClient /\ ToHub' = ToHub
  BY <1>2, SameFrames
<1>8. Tail(up[k]) \in Seq(ToHub) /\ down[k] \o Replayed(as) \in Seq(ToClient)
  <2>1. Tail(up[k]) \in Seq(ToHub)
    BY <1>2, <1>3
  <2>2. \A q, r \in Seq(ToClient) : q \o r \in Seq(ToClient)
    OBVIOUS
  <2> QED
    BY <1>3, <1>4, <2>1, <2>2
<1>9. /\ up' \in [Clients -> Seq(ToHub)] /\ up'[k] = Tail(up[k])
      /\ down' \in [Clients -> Seq(ToClient)] /\ down'[k] = down[k] \o Replayed(as)
      /\ \A j \in Clients : j # k => up'[j] = up[j] /\ down'[j] = down[j]
  BY <1>2, <1>3, <1>4, <1>8
<1>10. Shape' /\ WireShape'
  BY <1>2, <1>5, <1>7, <1>9 DEF PassInv, Shape, WireShape
<1>11. ASSUME NEW j \in Clients PROVE InStep(j)'
  <2>1. DueTo(Owner[j])' \in SUBSET DueTo(Owner[j])
    BY <1>6, Owned
  <2>2. CASE j # k
    BY <1>2, <1>9, <2>1, <2>2, Undisturbed
  <2>3. CASE j = k
    <3>1. InStep(k) /\ WireShape
      BY DEF PassInv
    <3> DEFINE D == DueTo(Owner[k])'
    <3>2. D = DueTo(Owner[k])' /\ D \in SUBSET DueTo(Owner[k])
      BY <2>1, <2>3
    <3> HIDE DEF D
    <3>3. \A b : ~Exempt(k, b)
      BY <1>2 DEF Exempt, Quiet, NoFan
    <3>4. \A b \in D : OnIt(down[k], b)
      BY <1>2, <3>1, <3>2, <3>3 DEF InStep, Whole
    <3>5. Whole(k)' /\ InTurn(k)'
      BY <1>2, <1>4, <1>9, <3>1, <3>2, <3>3, <3>4, AddedDown
    <3>6. Answered(k)' /\ ReadThrough(k)'
      BY <1>2, <1>9, <2>1, <2>3, <3>1, HeardUp
    <3> QED
      BY <2>3, <3>5, <3>6 DEF InStep
  <2> QED
    BY <2>2, <2>3
<1>12. \A e \in Devices : Behind(e)'
  BY <1>2, <1>6 DEF PassInv, Behind
<1> QED
  BY <1>10, <1>11, <1>12 DEF PassInv

\* Sockets that go take their frames with them, and owe nothing until they are back.
LEMMA EmptiedStep == ASSUME PassInv, Awake', Reborn \/ \E k \in Clients : Lose(k) PROVE PassInv'
<1>1. /\ UNCHANGED <<log, expired, cursor, omitted, feed, mine, fan>>
      /\ sock' \in [Clients -> {"open", "lost", "closed"}] /\ WireShape'
      /\ \A j \in Clients : \/ down'[j] = <<>> /\ up'[j] = <<>> /\ sock'[j] # "open"
                            \/ down'[j] = down[j] /\ up'[j] = up[j] /\ sock'[j] = sock[j]
  <2>1. <<>> \in Seq(ToClient) /\ <<>> \in Seq(ToHub)
    OBVIOUS
  <2>2. /\ down \in [Clients -> Seq(ToClient)] /\ up \in [Clients -> Seq(ToHub)]
        /\ sock \in [Clients -> {"open", "lost", "closed"}]
    BY DEF PassInv, Shape, WireShape
  <2>3. CASE Reborn
    <3>1. UNCHANGED <<log, expired, cursor, omitted, feed, mine, fan>>
      BY <2>3 DEF Reborn, Restart
    <3>2. ToClient' = ToClient /\ ToHub' = ToHub
      BY <3>1, SameFrames
    <3> QED
      BY <2>1, <2>3, <3>1, <3>2 DEF Reborn, Restart, WireShape
  <2>4. CASE \E k \in Clients : Lose(k)
    <3>1. PICK k \in Clients : Lose(k)
      BY <2>4
    <3>2. UNCHANGED <<log, expired, cursor, omitted, feed, mine, fan>>
      BY <3>1 DEF Lose
    <3>3. ToClient' = ToClient /\ ToHub' = ToHub
      BY <3>2, SameFrames
    <3>4. /\ down' = [down EXCEPT ![k] = <<>>] /\ up' = [up EXCEPT ![k] = <<>>] /\ sock' = [sock EXCEPT ![k] = "lost"]
      BY <3>1 DEF Lose, Silence
    <3>5. down' \in [Clients -> Seq(ToClient)] /\ up' \in [Clients -> Seq(ToHub)]
      BY <2>1, <2>2, <3>4
    <3>6. WireShape'
      BY <3>3, <3>5 DEF WireShape
    <3> QED
      BY <2>2, <3>2, <3>4, <3>6
  <2> QED
    BY <2>3, <2>4
<1>2. \A d \in Devices : DueTo(d)' \in SUBSET DueTo(d)
  BY <1>1, DueLess
<1>3. LastSeq' = LastSeq /\ Published' = Published
  BY <1>1, SameFrames
<1>4. Shape'
  BY <1>1, <1>3 DEF PassInv, Shape
<1>5. ASSUME NEW j \in Clients PROVE InStep(j)'
  <2>1. DueTo(Owner[j])' \in SUBSET DueTo(Owner[j]) /\ InStep(j)
    BY <1>2, Owned DEF PassInv
  <2>2. CASE down'[j] = <<>> /\ up'[j] = <<>> /\ sock'[j] # "open"
    <3>1. Whole(j)' /\ InTurn(j)'
      BY <2>2, EmptiedDown
    <3>2. Answered(j)' /\ ReadThrough(j)'
      BY <1>1, <2>1, <2>2, EmptiedUp
    <3> QED
      BY <3>1, <3>2 DEF InStep
  <2>3. CASE down'[j] = down[j] /\ up'[j] = up[j] /\ sock'[j] = sock[j]
    BY <1>1, <2>1, <2>3, Undisturbed
  <2> QED
    BY <1>1, <2>2, <2>3
<1>6. \A d \in Devices : Behind(d)'
  BY <1>1, <1>2 DEF PassInv, Behind
<1> QED
  BY <1>1, <1>4, <1>5, <1>6 DEF PassInv

\* A client that is back finds all that is due on its way: nothing due is behind the cursor
\* the replay starts from, and what the replay leaves out it announces.
LEMMA ConnectStep == ASSUME PassInv, Awake', NEW k \in Clients, Connect(k) PROVE PassInv'
<1> DEFINE d == Owner[k]
           missed == Eligible(d, snoozed[d], ReplayFrom(k))
           r == Replayed(missed)
           D == DueTo(d)'
<1>1. /\ Quiet /\ sock' = [sock EXCEPT ![k] = "open"] /\ up' = [up EXCEPT ![k] = <<>>] /\ NoteReplay(d, missed)
      /\ UNCHANGED <<log, expired, cursor, feed, mine, fan>>
  BY DEF Connect
<1>2. d \in Devices
  BY Owned
<1>3. snoozed[d] = 0 /\ \A a : Allowed(d, snoozed[d], a) <=> CouldSee(d, a)
  BY <1>2, AwakeAllows DEF PassInv
<1>4. down' = [down EXCEPT ![k] = <<Ready(0)>> \o r]
  BY <1>3 DEF Connect, Snoozing
<1>5. missed \in SUBSET Published
  BY DEF Eligible, Retained
<1>6. /\ r \in Seq(ToClient) /\ Shown(missed) \in SUBSET missed /\ Turns(r, Shown(missed))
      /\ \A b : OnIt(r, b) <=> b \in Shown(missed)
  BY <1>5, Replays DEF PassInv, Shape
<1>7. /\ omitted' \in [Devices -> SUBSET Nat] /\ missed \ Shown(missed) \in SUBSET omitted'[d]
      /\ \A e \in Devices : omitted[e] \subseteq omitted'[e]
  BY <1>1, <1>2, <1>5, Noted DEF PassInv, Shape
<1>8. \A e \in Devices : DueTo(e)' \in SUBSET DueTo(e)
  BY <1>1, <1>7, DueLess
<1>9. LastSeq' = LastSeq /\ Published' = Published /\ ToClient' = ToClient /\ ToHub' = ToHub
  BY <1>1, SameFrames
<1>10. D \in SUBSET Shown(missed)
  <2> SUFFICES ASSUME NEW b \in D PROVE b \in Shown(missed)
    OBVIOUS
  <2>1. b \in DueTo(d) /\ b \notin omitted'[d]
    BY <1>2, <1>8 DEF DueTo, Excused
  <2>2. b > cursor[d]
    BY <1>2, <2>1 DEF PassInv, Behind
  <2>3. b \in missed
    BY <1>3, <2>1, <2>2 DEF DueTo, Excused, Eligible, ReplayFrom
  <2> QED
    BY <1>7, <2>1, <2>3
<1>11. <<Ready(0)>> \in Seq(ToClient) /\ Len(<<Ready(0)>>) = 1 /\ \A x : ~Carries(<<Ready(0)>>[1], x)
  <2>1. Ready(0) \in ToClient /\ Ready(0).t # "notification"
    BY DEF Ready, ToClient
  <2> QED
    BY <2>1 DEF Carries
<1>12. /\ down \in [Clients -> Seq(ToClient)] /\ up \in [Clients -> Seq(ToHub)]
       /\ sock \in [Clients -> {"open", "lost", "closed"}]
  BY DEF PassInv, WireShape, Shape
<1> DEFINE hello == <<Ready(0)>>
<1> HIDE DEF missed, r, hello, D, d
<1>13. hello \o r \in Seq(ToClient)
  <2>1. \A p, q \in Seq(ToClient) : p \o q \in Seq(ToClient)
    OBVIOUS
  <2> QED
    BY <1>6, <1>11, <2>1 DEF hello
<1>14. /\ down' \in [Clients -> Seq(ToClient)] /\ down'[k] = hello \o r
       /\ up' \in [Clients -> Seq(ToHub)] /\ up'[k] = <<>>
       /\ sock' \in [Clients -> {"open", "lost", "closed"}]
       /\ \A j \in Clients : j # k => down'[j] = down[j] /\ up'[j] = up[j] /\ sock'[j] = sock[j]
  <2>1. <<>> \in Seq(ToHub)
    OBVIOUS
  <2> QED
    BY <1>1, <1>4, <1>12, <1>13, <2>1 DEF hello
<1>15. Shape' /\ WireShape'
  BY <1>1, <1>7, <1>9, <1>14 DEF PassInv, Shape, WireShape
<1>16. ASSUME NEW j \in Clients PROVE InStep(j)'
  <2>1. DueTo(Owner[j])' \in SUBSET DueTo(Owner[j]) /\ InStep(j)
    BY <1>8, Owned DEF PassInv
  <2>2. CASE j # k
    BY <1>1, <1>14, <2>1, <2>2, Undisturbed
  <2>3. CASE j = k
    <3>1. Turns(r, D)
      BY <1>6, <1>10, FewerTurns
    <3>2. Turns(hello, D)
      BY <1>11 DEF Turns, hello
    <3>3. Turns(hello \o r, D)
      BY <1>6, <1>11, <3>1, <3>2, JoinedTurns DEF Turns, hello
    <3>4. \A b \in D : OnIt(hello \o r, b)
      BY <1>6, <1>10, <1>11, JoinedOn DEF hello
    <3>5. Whole(k)' /\ InTurn(k)'
      BY <1>14, <3>3, <3>4 DEF Whole, InTurn, D, d
    <3>6. Answered(k)' /\ ReadThrough(k)'
      BY <1>1, <1>14, <2>1, <2>3, EmptiedUp
    <3> QED
      BY <2>3, <3>5, <3>6 DEF InStep
  <2> QED
    BY <2>2, <2>3
<1>17. \A e \in Devices : Behind(e)'
  BY <1>1, <1>8 DEF PassInv, Behind
<1> QED
  BY <1>15, <1>16, <1>17 DEF PassInv

\* The loop of deliver() reaches a session: the alert goes on the wire, or was never due.
LEMMA DeliverStep == ASSUME PassInv, Awake', NEW k \in Clients, Deliver(k), ~DeliverHold(k) PROVE PassInv'
<1> DEFINE a == fan.alert
           d == Owner[k]
<1>1. /\ k \in fan.todo /\ VisitNext(k)
      /\ UNCHANGED <<log, expired, cursor, omitted, sock, feed, mine, up>>
  BY DEF Deliver
<1>2. /\ d \in Devices /\ fan \in [alert : Nat, todo : SUBSET Clients] /\ a \in Published
      /\ down \in [Clients -> Seq(ToClient)] /\ down[k] \in Seq(ToClient)
  BY <1>1, Owned DEF PassInv, Shape, WireShape
<1>3. Allowed(d, snap[k], a) <=> CouldSee(d, a)
  BY <1>2, AwakeAllows DEF PassInv
<1>4. \A e \in Devices : DueTo(e)' \in SUBSET DueTo(e)
  BY <1>1, DueLess
<1>5. LastSeq' = LastSeq /\ Published' = Published /\ ToClient' = ToClient /\ ToHub' = ToHub
  BY <1>1, SameFrames
<1>6. /\ fan' \in [alert : Nat, todo : SUBSET Clients] /\ (fan'.todo # {} => fan'.alert = a)
      /\ \A j \in Clients : j # k /\ j \in fan.todo => j \in fan'.todo /\ fan'.alert = a
  BY <1>1, <1>2 DEF VisitNext, NoFan
<1>7. \/ CouldSee(d, a) /\ down' = [down EXCEPT ![k] = Sent(k, <<Note(a)>>)]
      \/ ~CouldSee(d, a) /\ down' = down
  BY <1>3 DEF Deliver, DeliverSend, DeliverSkip
<1> HIDE DEF a, d
<1>8. Note(a) \in ToClient /\ Carries(Note(a), a) /\ \A x : Carries(Note(a), x) <=> x = a
  BY <1>2, Notes DEF a
<1> DEFINE r == <<Note(a)>>
<1>9. r \in Seq(ToClient) /\ Len(r) = 1 /\ r[1] = Note(a)
  BY <1>8
<1> HIDE DEF r
<1>10. down[k] \o r \in Seq(ToClient)
  <2>1. \A p, q \in Seq(ToClient) : p \o q \in Seq(ToClient)
    OBVIOUS
  <2> QED
    BY <1>2, <1>9, <2>1
<1>11. /\ down' \in [Clients -> Seq(ToClient)] /\ \A j \in Clients : j # k => down'[j] = down[j]
       /\ \/ CouldSee(d, a) /\ sock[k] = "open" /\ down'[k] = down[k] \o r
          \/ (CouldSee(d, a) => sock[k] # "open") /\ down'[k] = down[k]
  BY <1>2, <1>7, <1>10 DEF Sent, r
<1>12. Shape' /\ WireShape'
  <2>1. fan'.todo # {} => fan'.alert \in Published'
    BY <1>2, <1>5, <1>6 DEF a
  <2> QED
    BY <1>1, <1>5, <1>6, <1>11, <2>1 DEF PassInv, Shape, WireShape
<1>13. ASSUME NEW j \in Clients PROVE InStep(j)'
  <2>1. DueTo(Owner[j])' \in SUBSET DueTo(Owner[j]) /\ InStep(j) /\ WireShape
    BY <1>4, Owned DEF PassInv
  <2>2. CASE j # k
    BY <1>1, <1>6, <1>11, <2>1, <2>2, Undisturbed DEF a
  <2>3. CASE j = k
    <3> DEFINE D == DueTo(Owner[k])'
    <3>1. D = DueTo(Owner[k])' /\ D \in SUBSET DueTo(Owner[k])
      BY <2>1, <2>3
    <3> HIDE DEF D
    <3>2. \A b : Exempt(k, b) <=> b = a
      BY <1>1 DEF Exempt, a
    <3>3. ASSUME CouldSee(d, a) /\ sock[k] = "open" /\ down'[k] = down[k] \o r
          PROVE  Whole(k)' /\ InTurn(k)'
      <4>1. \A b \in D : Exempt(k, b) => OnIt(r, b)
        BY <1>8, <1>9, <3>2 DEF OnIt
      <4>2. ASSUME NEW i \in 1..Len(r), NEW x \in Nat, NEW b \in Nat, Carries(r[i], x), b < x, b \in D
            PROVE  OnIt(down[k], b)
        <5>1. x = a /\ b # a
          BY <1>8, <1>9, <4>2
        <5> QED
          BY <2>1, <2>3, <3>1, <3>2, <3>3, <4>2, <5>1 DEF InStep, Whole
      <4> QED
        BY <1>9, <2>1, <2>3, <3>1, <3>3, <4>1, <4>2, AddedDown
    <3>4. ASSUME (CouldSee(d, a) => sock[k] # "open") /\ down'[k] = down[k]
          PROVE  Whole(k)' /\ InTurn(k)'
      <4>1. InTurn(k)'
        BY <2>1, <2>3, <3>1, <3>4, FewerTurns DEF InStep, InTurn
      <4>2. ~CouldSee(d, a) => \A b \in D : b # a
        BY <3>1 DEF DueTo, d
      <4>3. Whole(k)'
        BY <1>1, <2>1, <2>3, <3>1, <3>2, <3>4, <4>2 DEF InStep, Whole
      <4> QED
        BY <4>1, <4>3
    <3>5. Answered(k)' /\ ReadThrough(k)'
      BY <1>1, <2>1, <2>3, KeptUp
    <3> QED
      BY <1>11, <2>3, <3>3, <3>4, <3>5 DEF InStep
  <2> QED
    BY <2>2, <2>3
<1>14. \A e \in Devices : Behind(e)'
  BY <1>1, <1>4 DEF PassInv, Behind
<1> QED
  BY <1>12, <1>13, <1>14 DEF PassInv

LEMMA ResolveStep == ASSUME PassInv, Awake', NEW a \in Alerts, Resolve(a) PROVE PassInv'
<1> DEFINE r == <<Resolution({a})>>
<1>1. /\ Quiet /\ UNCHANGED <<log, expired, cursor, omitted, sock, feed, mine, up, fan>>
      /\ down' = [j \in Clients |-> IF j \in ReadySessions /\ Allowed(Owner[j], snap[j], a) THEN Sent(j, r) ELSE down[j]]
  BY DEF Resolve
<1>2. r \in Seq(ToClient) /\ Len(r) = 1 /\ \A x : ~Carries(r[1], x)
  <2>1. Resolution({a}) \in ToClient /\ Resolution({a}).t # "notification"
    BY DEF Resolution, ToClient, Alerts
  <2> QED
    BY <2>1 DEF Carries
<1> HIDE DEF r
<1>3. \A e \in Devices : DueTo(e)' \in SUBSET DueTo(e)
  BY <1>1, DueLess
<1>4. LastSeq' = LastSeq /\ Published' = Published /\ ToClient' = ToClient /\ ToHub' = ToHub
  BY <1>1, SameFrames
<1>5. ASSUME NEW j \in Clients
      PROVE  down'[j] \in Seq(ToClient) /\ (down'[j] = down[j] \/ (sock[j] = "open" /\ down'[j] = down[j] \o r))
  <2>1. down[j] \in Seq(ToClient) /\ \A p, q \in Seq(ToClient) : p \o q \in Seq(ToClient)
    BY DEF PassInv, WireShape
  <2>2. down'[j] = down[j] \/ (sock[j] = "open" /\ down'[j] = down[j] \o r)
    BY <1>1 DEF Sent
  <2> QED
    BY <1>2, <2>1, <2>2
<1>6. down' \in [Clients -> Seq(ToClient)]
  <2>1. down' = [j \in Clients |-> down'[j]]
    BY <1>1
  <2> QED
    BY <1>5, <2>1
<1>7. Shape' /\ WireShape'
  BY <1>1, <1>4, <1>6 DEF PassInv, Shape, WireShape
<1>8. ASSUME NEW j \in Clients PROVE InStep(j)'
  <2>1. DueTo(Owner[j])' \in SUBSET DueTo(Owner[j]) /\ InStep(j) /\ WireShape
    BY <1>3, Owned DEF PassInv
  <2>2. CASE down'[j] = down[j]
    BY <1>1, <2>1, <2>2, Undisturbed
  <2>3. CASE sock[j] = "open" /\ down'[j] = down[j] \o r
    <3> DEFINE D == DueTo(Owner[j])'
    <3>1. D = DueTo(Owner[j])' /\ D \in SUBSET DueTo(Owner[j])
      BY <2>1
    <3> HIDE DEF D
    <3>2. \A b : ~Exempt(j, b)
      BY <1>1 DEF Exempt, Quiet, NoFan
    <3>3. \A i \in 1..Len(r) : \A x, b \in Nat : ~Carries(r[i], x)
      BY <1>2
    <3>4. Whole(j)' /\ InTurn(j)'
      BY <1>2, <2>1, <2>3, <3>1, <3>2, <3>3, AddedDown
    <3>5. Answered(j)' /\ ReadThrough(j)'
      BY <1>1, <2>1, KeptUp
    <3> QED
      BY <3>4, <3>5 DEF InStep
  <2> QED
    BY <1>5, <2>2, <2>3
<1>9. \A e \in Devices : Behind(e)'
  BY <1>1, <1>3 DEF PassInv, Behind
<1> QED
  BY <1>7, <1>8, <1>9 DEF PassInv

\* A new alert is behind nothing: every number on the wire, on a screen or in a cursor is lower.
LEMMA PublishStep == ASSUME PassInv, Awake', Publish PROVE PassInv'
<1> DEFINE n == LastSeq + 1
<1>1. PICK kind \in Kinds : log' = Append(log, kind)
  BY DEF Publish
<1>2. /\ Quiet /\ StartDeliver(n) /\ UNCHANGED <<expired, cursor, omitted, sock, feed, mine, down, up>>
  BY DEF Publish
<1>3. log \in Seq(Kinds) /\ LastSeq \in Nat /\ LastSeq = Len(log)
  BY DEF PassInv, Shape, LastSeq
<1>4. /\ log' \in Seq(Kinds) /\ LastSeq' = n /\ \A a \in 1..LastSeq : log'[a] = log[a]
  BY <1>1, <1>3 DEF LastSeq
<1> HIDE DEF n
<1>5. n \in Nat /\ n = LastSeq + 1
  BY <1>3 DEF n
<1>6. /\ Published \in SUBSET Nat /\ Published' = Published \cup {n} /\ \A a \in Published : a < n
  BY <1>3, <1>4, <1>5 DEF Published
<1>7. ToClient \in SUBSET ToClient' /\ ToHub \in SUBSET ToHub'
  BY <1>6 DEF ToClient, ToHub
<1>8. ASSUME NEW d \in Devices PROVE DueTo(d)' \in SUBSET (DueTo(d) \cup {n})
  <2> SUFFICES ASSUME NEW a, a \in DueTo(d)', a # n PROVE a \in DueTo(d)
    BY <1>6
  <2>1. a \in Published /\ CouldSee(d, a)' /\ ~Shows(d, a)' /\ ~Excused(d, a)'
    BY <1>6 DEF DueTo
  <2>2. CouldSee(d, a)
    BY <1>4, <2>1 DEF CouldSee, Published
  <2>3. ~Shows(d, a)
    BY <1>2, <2>1 DEF Shows
  <2>4. a \in Retained
    <3>1. a + HistoryLimit > LastSeq' /\ a \in Nat /\ HistoryLimit \in Nat
      BY <1>6, <2>1, ConstantsAssumption DEF Excused, Retained, ConstantsAssumption
    <3> QED
      BY <1>3, <1>4, <1>5, <2>1, <3>1 DEF Retained
  <2>5. ~Excused(d, a)
    BY <1>2, <2>1, <2>4 DEF Excused
  <2> QED
    BY <2>1, <2>2, <2>3, <2>5 DEF DueTo
<1>9. /\ fan' \in [alert : Nat, todo : SUBSET Clients] /\ (fan'.todo # {} => fan'.alert = n)
      /\ \A k \in Clients : sock[k] = "open" => k \in fan'.todo /\ fan'.alert = n
  BY <1>2, <1>5 DEF StartDeliver, ReadySessions, NoFan
<1>10. Shape'
  <2>1. \A d \in Devices : cursor[d] \in Nat /\ cursor[d] <= LastSeq'
    BY <1>3, <1>4, <1>5 DEF PassInv, Shape
  <2>2. feed' \in [Clients -> SUBSET Published']
    BY <1>2, <1>6 DEF PassInv, Shape
  <2> QED
    BY <1>2, <1>4, <1>6, <1>9, <2>1, <2>2 DEF PassInv, Shape
<1>11. WireShape'
  <2>1. \A q : (q \in Seq(ToClient) => q \in Seq(ToClient')) /\ (q \in Seq(ToHub) => q \in Seq(ToHub'))
    BY <1>7
  <2> QED
    BY <1>2, <2>1 DEF PassInv, WireShape
<1>12. ASSUME NEW j \in Clients PROVE InStep(j)'
  <2> DEFINE D == DueTo(Owner[j])
             E == DueTo(Owner[j])'
  <2>1. E \in SUBSET (D \cup {n}) /\ InStep(j)
    BY <1>8, Owned DEF PassInv
  <2>2. down[j] \in Seq(ToClient) /\ up[j] \in Seq(ToHub) /\ feed[j] \in SUBSET Published
    BY DEF PassInv, WireShape, Shape
  <2>3. Turns(down[j], D) /\ Answers(up[j], D) /\ \A a \in feed[j] : \A b \in D : b > a
    BY DEF PassInv, InStep, InTurn, Answered, ReadThrough
  <2>4. \A b : ~Exempt(j, b)
    BY <1>2 DEF Exempt, Quiet, NoFan
  <2>5. sock[j] = "open" => \A b \in D : OnIt(down[j], b)
    BY <2>1, <2>4 DEF InStep, Whole
  <2>6. Whole(j)'
    BY <1>2, <1>9, <2>1, <2>5 DEF Whole, Exempt
  <2> HIDE DEF D, E
  <2>7. Turns(down[j], E)
    <3> SUFFICES ASSUME NEW i \in 1..Len(down[j]), NEW a \in Nat, NEW b \in Nat, Carries(down[j][i], a), b < a, b \in E
                 PROVE  \E h \in 1..(i - 1) : Carries(down[j][h], b)
      BY DEF Turns
    <3>1. down[j][i] \in ToClient
      BY <2>2
    <3>2. a \in Published
      BY <3>1, Frames
    <3>3. b # n
      BY <1>5, <1>6, <3>2
    <3> QED
      BY <2>1, <2>3, <3>3 DEF Turns
  <2>8. Answers(up[j], E)
    <3> SUFFICES ASSUME NEW i \in 1..Len(up[j]), up[j][i].t = "ack", NEW b \in E PROVE b > up[j][i].n
      BY DEF Answers
    <3>1. up[j][i] \in ToHub
      BY <2>2
    <3>2. up[j][i].n \in Published
      BY <3>1 DEF ToHub
    <3>3. CASE b = n
      BY <1>5, <1>6, <3>2, <3>3
    <3> QED
      BY <2>1, <2>3, <3>3 DEF Answers
  <2>9. ASSUME NEW a \in feed[j], NEW b \in E PROVE b > a
    BY <1>5, <1>6, <2>1, <2>2, <2>3
  <2>10. InTurn(j)' /\ Answered(j)' /\ ReadThrough(j)'
    BY <1>2, <2>7, <2>8, <2>9 DEF InTurn, Answered, ReadThrough, E
  <2> QED
    BY <2>6, <2>10 DEF InStep
<1>13. ASSUME NEW d \in Devices PROVE Behind(d)'
  <2>1. cursor'[d] = cursor[d] /\ cursor[d] \in Nat /\ cursor[d] < n
    BY <1>2, <1>3, <1>5 DEF PassInv, Shape
  <2>2. \A b \in DueTo(d) : b > cursor[d]
    BY DEF PassInv, Behind
  <2>3. \A b \in DueTo(d)' : b > cursor'[d]
    BY <1>5, <1>8, <2>1, <2>2
  <2> QED
    BY <2>3 DEF Behind
<1> QED
  BY <1>10, <1>11, <1>12, <1>13 DEF PassInv

PassedInv == PassInv /\ NagInv

LEMMA PassStep == ASSUME NoSnoozes, PassedInv, [Next]_vars PROVE PassedInv'
<1>1. Awake' /\ \A k \in Clients : ~Snooze(k) /\ ~Unsnooze(k) /\ ~HandleSnooze(k) /\ ~DeliverHold(k)
  BY AwakeStep DEF PassedInv
<1>2. PassInv /\ NagInv
  BY DEF PassedInv
<1>3. CASE Publish \/ Reborn \/ \E a \in Alerts : Resolve(a)
  BY <1>1, <1>2, <1>3, PublishStep, EmptiedStep, ResolveStep, NagStep DEF PassedInv
<1>4. CASE Apart
  <2>1. PassInv'
    <3>1. Awake' /\ PassInv /\ NagInv
      BY <1>1, <1>2
    <3> QED
      BY <1>4, <3>1, QuietStep
  <2> QED
    BY <1>2, <2>1, NagStep DEF PassedInv
<1>5. ASSUME NEW k \in Clients, Deliver(k) \/ HubHears(k) \/ ClientGets(k) \/ Connect(k) \/ Lose(k)
                                \/ Sync(k) \/ Snooze(k) \/ Unsnooze(k) \/ CatchUp(k) \/ \E a \in Alerts : Press(k, a)
      PROVE  PassedInv'
  <2>1. PassInv'
    BY <1>1, <1>2, <1>5, DeliverStep, HandleAckStep, HandleSyncStep, ClientGetsStep, ConnectStep, EmptiedStep, ClientStep
       DEF HubHears
  <2> QED
    BY <1>2, <2>1, NagStep DEF PassedInv
<1> QED
  BY <1>3, <1>4, <1>5 DEF Next, Apart, Reborn

LEMMA PassInit == ASSUME NoSnoozes, Init PROVE PassedInv
<1>1. Len(log) = 0 /\ LastSeq = 0 /\ log \in Seq(Kinds)
  BY DEF Init, LastSeq
<1>2. Published = {}
  BY <1>1 DEF Published
<1>3. Shape /\ NagInv
  <2>1. Init => filed.resolved = {}
    BY Marked DEF Init, Marks
  <2> QED
    BY <1>1, <1>2, <2>1 DEF Init, Shape, NagInv, NoFan
<1>4. Awake
  BY DEF Init, Awake, Events
<1>5. <<>> \in Seq(ToClient) /\ <<>> \in Seq(ToHub)
  OBVIOUS
<1>6. WireShape
  BY <1>5 DEF Init, WireShape
<1>7. \A d : DueTo(d) = {}
  BY <1>2 DEF DueTo
<1>8. \A k \in Clients : InStep(k)
  BY <1>7, Owned DEF Init, InStep, Whole, InTurn, Answered, ReadThrough, Turns, Answers
<1>9. \A d \in Devices : Behind(d)
  BY <1>7 DEF Behind
<1> QED
  BY <1>3, <1>4, <1>6, <1>8, <1>9 DEF PassedInv, PassInv

\* Through drops, retries, restarts and syncs, no cursor moves past an alert its device has
\* neither shown nor been told of, as long as nobody snoozes (handleAck, replay of server.ts).
THEOREM NothingIsPassedOver == ASSUME NoSnoozes PROVE Spec => []NothingPassedOver
<1>1. Init => PassedInv
  BY PassInit
<1>2. PassedInv /\ [Next]_vars => PassedInv'
  BY PassStep
<1>3. PassedInv => NothingPassedOver
  <2> SUFFICES ASSUME PassedInv, NEW d \in Devices, NEW a \in Published, CouldSee(d, a), a <= cursor[d],
                      ~Shows(d, a), ~Excused(d, a)
               PROVE  FALSE
    BY DEF NothingPassedOver
  <2>1. a \in DueTo(d)
    BY DEF DueTo
  <2>2. a > cursor[d] /\ a \in Nat /\ cursor[d] \in Nat
    BY <2>1 DEF PassedInv, PassInv, Behind, Shape, Published
  <2> QED
    BY <2>2
<1> QED
  BY <1>1, <1>2, <1>3, PTL DEF Spec

-----------------------------------------------------------------------------
(* What a snooze holds back stays within reach of a device with one client. *)

OneClientEach == \A j, k \in Clients : Owner[j] = Owner[k] => j = k

HubFrame ==
  [t : {"notification"}, as : {{a} : a \in Nat}, over : BOOLEAN, nap : Nat]
    \cup [t : {"resolve", "ready"}, as : SUBSET Nat, over : BOOLEAN, nap : Nat]
Wires == down \in [Clients -> Seq(HubFrame)] /\ up \in [Clients -> Seq(UpFrame)] /\ mine \in [Clients -> Nat]
Records ==
  /\ used \in [Events -> Nat] /\ sock \in [Clients -> {"open", "lost", "closed"}]
  /\ snap \in [Clients -> Nat] /\ snoozed \in [Devices -> Nat] /\ held \in [Devices -> Nat]
Fanning == fan \in [alert : Nat, todo : SUBSET ReadySessions] /\ (fan.todo # {} => fan.alert \in Published)
Histories ==
  /\ cut \in [Devices -> SUBSET Nat] /\ omitted \in [Devices -> SUBSET Nat] /\ withheld \in [Devices -> SUBSET Nat]
  /\ feed \in [Clients -> SUBSET Nat]
  /\ \A d \in Devices : \A a \in withheld[d] : a \in Published /\ CouldSee(d, a)
\* A socket that is gone has nothing on it.
Dry == \A k \in Clients : sock[k] # "open" => down[k] = <<>>
\* The only session of a device works from the record as it is.
Fresh == \A k \in ReadySessions : snap[k] = snoozed[Owner[k]]
Bound(d, a) == \E k \in Clients : Owner[k] = d /\ OnIt(down[k], a)
Accounted(d, a) == StillHeld(d, a) \/ Bound(d, a) \/ Shows(d, a) \/ Excused(d, a) \/ a \in cut[d]
HeldInv ==
  /\ NagInv /\ Wires /\ Records /\ Fanning /\ Histories /\ Fresh /\ Dry
  /\ \A d \in Devices : \A a \in withheld[d] : Accounted(d, a)

LEMMA SnapRests ==
  ASSUME Records, Fresh, NEW k \in ReadySessions
  PROVE  /\ k \in Clients /\ Owner[k] \in Devices /\ snap[k] = snoozed[Owner[k]]
         /\ Refreshed(Owner[k]) = snap /\ Touched(k) = {snap} /\ [snap EXCEPT ![k] = snoozed[Owner[k]]] = snap
<1>1. k \in Clients /\ snap[k] = snoozed[Owner[k]]
  BY DEF ReadySessions, Fresh
<1>2. Owner[k] \in Devices
  BY <1>1, Owned
<1>3. Refreshed(Owner[k]) = snap
  <2>1. \A j \in SessionsOf(Owner[k]) : snap[j] = snoozed[Owner[k]]
    BY DEF SessionsOf, Fresh
  <2>2. Refreshed(Owner[k]) = [j \in Clients |-> snap[j]]
    BY <2>1 DEF Refreshed
  <2> QED
    BY <2>2 DEF Records
<1>4. [snap EXCEPT ![k] = snoozed[Owner[k]]] = snap
  BY <1>1 DEF Records
<1> QED
  BY <1>1, <1>2, <1>3, <1>4 DEF Touched

LEMMA NumberFrames ==
  /\ \A a \in Nat : Note(a) \in HubFrame /\ Resolution({a}) \in HubFrame /\ Ready(a) \in HubFrame
  /\ \A n \in Nat : SyncFrom(n) \in UpFrame /\ SnoozeFor(n) \in UpFrame
  /\ \A n \in Nat, act \in BOOLEAN : Ack(n, act) \in UpFrame
  /\ \A f \in HubFrame : <<f>> \in Seq(HubFrame)
  /\ \A f \in UpFrame : <<f>> \in Seq(UpFrame)
<1>1. ASSUME NEW a \in Nat PROVE Note(a) \in HubFrame
  <2> DEFINE over == a \in resolved
  <2>1. over \in BOOLEAN
    OBVIOUS
  <2>2. Note(a) = [t |-> "notification", as |-> {a}, over |-> over, nap |-> 0]
    BY DEF Note
  <2> HIDE DEF over
  <2>3. {a} \in {{x} : x \in Nat}
    OBVIOUS
  <2> QED
    BY <2>1, <2>2, <2>3 DEF HubFrame
<1>2. \A a \in Nat : Resolution({a}) \in HubFrame /\ Ready(a) \in HubFrame
  BY DEF Resolution, Ready, HubFrame
<1>3. \A n \in Nat : SyncFrom(n) \in UpFrame /\ SnoozeFor(n) \in UpFrame
  BY DEF SyncFrom, SnoozeFor, UpFrame
<1>4. \A n \in Nat, act \in BOOLEAN : Ack(n, act) \in UpFrame
  BY DEF Ack, UpFrame
<1>5. (\A f \in HubFrame : <<f>> \in Seq(HubFrame)) /\ (\A f \in UpFrame : <<f>> \in Seq(UpFrame))
  OBVIOUS
<1> QED
  BY <1>1, <1>2, <1>3, <1>4, <1>5

LEMMA ReplayFrames ==
  ASSUME log \in Seq(Kinds), NEW S \in SUBSET Published PROVE Replayed(S) \in Seq(HubFrame)
<1>1. Published \in SUBSET Nat
  BY DEF Published
<1>2. ToClient \in SUBSET HubFrame
  BY <1>1 DEF ToClient, HubFrame
<1>3. Replayed(S) \in Seq(ToClient)
  BY Replays
<1> QED
  BY <1>2, <1>3

LEMMA SaidUpFrames ==
  ASSUME Wires, NEW k \in Clients, NEW r \in Seq(UpFrame), Says(k, r) PROVE up' \in [Clients -> Seq(UpFrame)]
<1>1. up[k] \in Seq(UpFrame) /\ \A p, q \in Seq(UpFrame) : p \o q \in Seq(UpFrame)
  BY DEF Wires
<1>2. Said(k, r) \in Seq(UpFrame)
  BY <1>1 DEF Said
<1> QED
  BY <1>2 DEF Says, Wires

LEMMA SentFrames ==
  ASSUME Wires, NEW k \in Clients, NEW r \in Seq(HubFrame)
  PROVE  Sent(k, r) \in Seq(HubFrame) /\ (down' = [down EXCEPT ![k] = Sent(k, r)] => down' \in [Clients -> Seq(HubFrame)])
<1>1. down[k] \in Seq(HubFrame) /\ \A p, q \in Seq(HubFrame) : p \o q \in Seq(HubFrame)
  BY DEF Wires
<1>2. Sent(k, r) \in Seq(HubFrame)
  BY <1>1 DEF Sent
<1> QED
  BY <1>2 DEF Wires

LEMMA WiresStep == ASSUME HeldInv, [Next]_vars PROVE Wires'
<1>1. log \in Seq(Kinds) /\ Wires /\ Records /\ Fanning
  BY DEF HeldInv, NagInv
<1>2. /\ down \in [Clients -> Seq(HubFrame)] /\ up \in [Clients -> Seq(UpFrame)] /\ mine \in [Clients -> Nat]
      /\ <<>> \in Seq(HubFrame) /\ <<>> \in Seq(UpFrame)
  BY <1>1 DEF Wires
<1>3. ASSUME NEW k \in Clients, HandleAck(k) \/ HandleSnooze(k) \/ HandleSync(k)
      PROVE  Wires'
  <2>1. up[k] # <<>> /\ up' = [up EXCEPT ![k] = Tail(@)] /\ mine' = mine
    BY <1>3 DEF HandleAck, HandleSnooze, HandleSync, Hears
  <2>2. Tail(up[k]) \in Seq(UpFrame)
    BY <1>2, <2>1
  <2>3. up' \in [Clients -> Seq(UpFrame)]
    BY <1>2, <2>1, <2>2
  <2>4. down' = down \/ \E as \in SUBSET Published : down' = [down EXCEPT ![k] = Sent(k, Replayed(as))]
    BY <1>3 DEF HandleAck, HandleSnooze, HandleSync, SendReplay, Eligible, Retained
  <2>5. down' \in [Clients -> Seq(HubFrame)]
    BY <1>1, <1>2, <2>4, ReplayFrames, SentFrames
  <2> QED
    BY <1>2, <2>1, <2>3, <2>5 DEF Wires
<1>4. ASSUME NEW k \in Clients, ClientGets(k) PROVE Wires'
  <2>1. down[k] # <<>> /\ down' = [down EXCEPT ![k] = Tail(@)]
    BY <1>4 DEF ClientGets, ReceiveNote, ReceiveResolve, ReceiveReady, Gets
  <2>2. down[k] \in Seq(HubFrame)
    BY <1>2
  <2>3. Head(down[k]) \in HubFrame /\ Tail(down[k]) \in Seq(HubFrame)
    BY <2>1, <2>2
  <2>4. down' \in [Clients -> Seq(HubFrame)]
    BY <1>2, <2>1, <2>3
  <2>5. CASE ReceiveNote(k)
    <3>1. PICK a \in Nat : Head(down[k]).as = {a}
      BY <2>3, <2>5 DEF ReceiveNote, Gets, HubFrame
    <3>2. (CHOOSE x \in Head(down[k]).as : TRUE) = a
      BY <3>1
    <3>3. Says(k, <<Ack(a, FALSE)>>) /\ Advance(k, a)
      BY <2>5, <3>2 DEF ReceiveNote
    <3>4. Ack(a, FALSE) \in UpFrame
      BY NumberFrames
    <3>5. <<Ack(a, FALSE)>> \in Seq(UpFrame)
      BY <3>4, NumberFrames
    <3>6. mine' \in [Clients -> Nat]
      BY <1>2, <3>3 DEF Advance
    <3> QED
      BY <1>1, <2>4, <3>3, <3>5, <3>6, SaidUpFrames DEF Wires
  <2>6. CASE ReceiveReady(k)
    <3>1. mine[k] \in Nat
      BY <1>2
    <3>2. <<SyncFrom(mine[k])>> \in Seq(UpFrame)
      BY <3>1, NumberFrames
    <3>3. PICK r \in Seq(UpFrame) : Says(k, r)
      BY <1>2, <2>6, <3>2 DEF ReceiveReady
    <3>4. mine' = mine
      BY <2>6 DEF ReceiveReady
    <3> QED
      BY <1>1, <1>2, <2>4, <3>3, <3>4, SaidUpFrames DEF Wires
  <2>7. CASE ReceiveResolve(k)
    BY <1>2, <2>4, <2>7 DEF ReceiveResolve, Wires
  <2> QED
    BY <1>4, <2>5, <2>6, <2>7 DEF ClientGets
<1>5. ASSUME NEW k \in Clients, Sync(k) \/ Snooze(k) \/ Unsnooze(k) \/ CatchUp(k) \/ \E a \in Alerts : Press(k, a)
      PROVE  Wires'
  <2>1. mine[k] \in Nat /\ used["nap"] + 1 \in Nat
    BY <1>1, <1>2 DEF Records, Events
  <2>2. /\ <<SyncFrom(mine[k])>> \in Seq(UpFrame) /\ <<SnoozeFor(used["nap"] + 1)>> \in Seq(UpFrame)
        /\ <<SnoozeFor(0), SyncFrom(mine[k])>> \in Seq(UpFrame)
    BY <2>1, NumberFrames
  <2>3. ASSUME NEW a \in Alerts PROVE a \in Nat /\ <<Ack(a, TRUE)>> \in Seq(UpFrame)
    <3>1. a \in Nat
      BY DEF Alerts
    <3>2. Ack(a, TRUE) \in UpFrame
      BY <3>1, NumberFrames
    <3> QED
      BY <3>1, <3>2, NumberFrames
  <2>4. \E r \in Seq(UpFrame) : Says(k, r)
    BY <1>5, <2>2, <2>3 DEF Sync, Snooze, Unsnooze, CatchUp, Press
  <2>5. down' = down /\ mine' \in [Clients -> Nat]
    BY <1>2, <1>5, <2>3 DEF Sync, Snooze, Unsnooze, CatchUp, Press, Advance
  <2> QED
    BY <1>1, <1>2, <2>4, <2>5, SaidUpFrames DEF Wires
<1>6. ASSUME NEW k \in Clients, Connect(k) PROVE Wires'
  <2> DEFINE missed == Eligible(Owner[k], snoozed[Owner[k]], ReplayFrom(k))
             n == IF Snoozing(snoozed[Owner[k]]) THEN snoozed[Owner[k]] ELSE 0
  <2>1. missed \in SUBSET Published
    BY DEF Eligible, Retained
  <2>2. n \in Nat
    BY <1>1, Owned DEF Records
  <2>3. /\ down' = [down EXCEPT ![k] = <<Ready(n)>> \o Replayed(missed)]
        /\ up' = [up EXCEPT ![k] = <<>>] /\ mine' = mine
    BY <1>6 DEF Connect
  <2> HIDE DEF missed, n
  <2>4. <<Ready(n)>> \in Seq(HubFrame) /\ Replayed(missed) \in Seq(HubFrame)
    <3>1. Ready(n) \in HubFrame
      BY <2>2, NumberFrames
    <3>2. <<Ready(n)>> \in Seq(HubFrame)
      BY <3>1, NumberFrames
    <3> QED
      BY <1>1, <2>1, <3>2, ReplayFrames
  <2>5. <<Ready(n)>> \o Replayed(missed) \in Seq(HubFrame)
    <3>1. \A p, q \in Seq(HubFrame) : p \o q \in Seq(HubFrame)
      OBVIOUS
    <3> QED
      BY <2>4, <3>1
  <2> QED
    BY <1>2, <2>3, <2>5 DEF Wires
<1>7. ASSUME NEW k \in Clients, Deliver(k) PROVE Wires'
  <2>1. fan.alert \in Nat
    BY <1>1 DEF Fanning
  <2>2. <<Note(fan.alert)>> \in Seq(HubFrame)
    <3>1. Note(fan.alert) \in HubFrame
      BY <2>1, NumberFrames
    <3> QED
      BY <3>1, NumberFrames
  <2>3. /\ down' = down \/ down' = [down EXCEPT ![k] = Sent(k, <<Note(fan.alert)>>)]
        /\ up' = up /\ mine' = mine
    BY <1>7 DEF Deliver, DeliverSend, DeliverHold, DeliverSkip
  <2> QED
    BY <1>1, <1>2, <2>2, <2>3, SentFrames DEF Wires
<1>8. ASSUME NEW a \in Alerts, Resolve(a) PROVE Wires'
  <2>1. <<Resolution({a})>> \in Seq(HubFrame)
    BY NumberFrames DEF Alerts
  <2>2. /\ down' = [k \in Clients |-> IF k \in ReadySessions /\ Allowed(Owner[k], snap[k], a)
                                      THEN Sent(k, <<Resolution({a})>>) ELSE down[k]]
        /\ up' = up /\ mine' = mine
    BY <1>8 DEF Resolve
  <2>3. \A k \in Clients : Sent(k, <<Resolution({a})>>) \in Seq(HubFrame) /\ down[k] \in Seq(HubFrame)
    BY <1>1, <1>2, <2>1, SentFrames
  <2>4. down' \in [Clients -> Seq(HubFrame)]
    BY <2>2, <2>3
  <2> QED
    BY <1>2, <2>2, <2>4 DEF Wires
<1>9. ASSUME Reborn \/ \E k \in Clients : Lose(k) PROVE Wires'
  <2>1. CASE Reborn
    <3>1. down' = [k \in Clients |-> <<>>] /\ up' = [k \in Clients |-> <<>>] /\ mine' = mine
      BY <2>1 DEF Reborn, Restart
    <3> QED
      BY <1>2, <3>1 DEF Wires
  <2>2. CASE \E k \in Clients : Lose(k)
    <3>1. PICK k \in Clients : down' = [down EXCEPT ![k] = <<>>] /\ up' = [up EXCEPT ![k] = <<>>] /\ mine' = mine
      BY <2>2 DEF Lose, Silence
    <3> QED
      BY <1>2, <3>1 DEF Wires
  <2> QED
    BY <1>9, <2>1, <2>2
<1>10. ASSUME Publish \/ Apart PROVE Wires'
  <2>1. UNCHANGED <<down, up, mine>>
    BY <1>10 DEF Publish, Apart, Compact, Retry, Expire, NapEnds, Pong, CloseSession
  <2> QED
    BY <1>2, <2>1 DEF Wires
<1> QED
  BY <1>3, <1>4, <1>5, <1>6, <1>7, <1>8, <1>9, <1>10 DEF Next, HubHears, Apart, Reborn

\* What the records, the sessions' snapshots and the loop of deliver() look like after a step
LEMMA RecordsStep == ASSUME OneClientEach, HeldInv, [Next]_vars PROVE Records' /\ Fresh' /\ Fanning'
<1>1. Wires /\ Records /\ Fanning /\ Fresh /\ log \in Seq(Kinds) /\ waiters \subseteq Published
  BY DEF HeldInv, NagInv
<1>2. /\ used \in [Events -> Nat] /\ sock \in [Clients -> {"open", "lost", "closed"}]
      /\ snap \in [Clients -> Nat] /\ snoozed \in [Devices -> Nat] /\ held \in [Devices -> Nat]
  BY <1>1 DEF Records
<1>3. /\ fan \in [alert : Nat, todo : SUBSET ReadySessions] /\ fan.alert \in Nat /\ fan.todo \subseteq ReadySessions
      /\ fan.todo # {} => fan.alert \in Published
  BY <1>1 DEF Fanning
<1>4. Quiet => fan = NoFan /\ fan.todo = {} /\ fan.alert = 0
  BY DEF Quiet, NoFan
<1>5. \A k \in Clients : sock[k] = "open" => k \in ReadySessions
  BY DEF ReadySessions
<1>6. \A e \in Events : Spend(e) => used' \in [Events -> Nat]
  BY <1>2 DEF Spend
<1>7. ASSUME UNCHANGED <<log, sock, snap, snoozed, held, fan>>, used' \in [Events -> Nat]
      PROVE  Records' /\ Fresh' /\ Fanning'
  <2>1. ReadySessions' = ReadySessions /\ Published' = Published
    BY <1>7 DEF ReadySessions, Published, LastSeq
  <2> QED
    BY <1>1, <1>2, <1>7, <2>1 DEF Records, Fresh, Fanning
<1>8. ASSUME Publish \/ \E a \in Alerts : Retry(a)
      PROVE  Records' /\ Fresh' /\ Fanning'
  <2>1. UNCHANGED <<used, sock, snap, snoozed, held>> /\ ReadySessions' = ReadySessions
    BY <1>8 DEF Publish, Retry, ReadySessions
  <2>2. Records' /\ Fresh'
    BY <1>1, <2>1 DEF Records, Fresh
  <2>3. fan' = fan \/ fan' = NoFan \/ \E n \in Nat : fan' = [alert |-> n, todo |-> ReadySessions] /\ n \in Published'
    <3>1. CASE Publish
      <4>1. LastSeq + 1 \in Published' /\ LastSeq + 1 \in Nat
        BY <1>1, <3>1 DEF Publish, Published, LastSeq
      <4> QED
        BY <3>1, <4>1 DEF Publish, StartDeliver
    <3>2. CASE \E a \in Alerts : Retry(a)
      <4>1. PICK a \in Alerts : Retry(a)
        BY <3>2
      <4>2. a \in Published' /\ a \in Nat
        BY <1>1, <4>1 DEF Retry, Published, LastSeq, Alerts
      <4> QED
        BY <4>1, <4>2 DEF Retry, StartDeliver
    <3> QED
      BY <1>8, <3>1, <3>2
  <2>4. fan' = fan => fan'.todo = {}
    BY <1>4, <1>8 DEF Publish, Retry
  <2>5. Fanning'
    BY <1>3, <2>1, <2>3, <2>4 DEF Fanning, NoFan
  <2> QED
    BY <2>2, <2>5
<1>9. ASSUME Reborn \/ \E k \in Clients : Lose(k) \/ CloseSession(k)
      PROVE  Records' /\ Fresh' /\ Fanning'
  <2>1. Quiet /\ UNCHANGED <<log, snap, snoozed, held, fan>> /\ used' \in [Events -> Nat]
    BY <1>2, <1>6, <1>9 DEF Reborn, Restart, Lose, CloseSession, Events
  <2>2. /\ sock' \in [Clients -> {"open", "lost", "closed"}] /\ ReadySessions' \subseteq ReadySessions
    BY <1>2, <1>9 DEF Reborn, Restart, Lose, CloseSession, ReadySessions
  <2> QED
    BY <1>1, <1>2, <1>3, <1>4, <2>1, <2>2 DEF Records, Fresh, Fanning
<1>10. ASSUME NEW k \in Clients, Deliver(k)
       PROVE  Records' /\ Fresh' /\ Fanning'
  <2>1. k \in ReadySessions /\ UNCHANGED <<log, used, sock, snoozed>> /\ VisitNext(k)
    BY <1>3, <1>10 DEF Deliver
  <2>2. snap' = snap /\ Owner[k] \in Devices
    BY <1>1, <1>10, <2>1, SnapRests DEF Deliver, DeliverSend, DeliverHold, DeliverSkip, Hold
  <2>3. held' = held \/ held' = [held EXCEPT ![Owner[k]] = fan.alert]
    BY <1>10 DEF Deliver, DeliverSend, DeliverHold, DeliverSkip, Hold
  <2>4. held' \in [Devices -> Nat]
    BY <1>2, <1>3, <2>3
  <2>5. Records'
    BY <1>2, <2>1, <2>2, <2>4 DEF Records
  <2>6. ReadySessions' = ReadySessions /\ Published' = Published
    BY <2>1 DEF ReadySessions, Published, LastSeq
  <2>7. Fresh'
    BY <1>1, <2>1, <2>2, <2>6 DEF Fresh
  <2>8. /\ \/ fan' = NoFan
           \/ /\ fan'.alert = fan.alert /\ fan'.todo = fan.todo \ {k}
              /\ fan' \in [alert : Nat, todo : SUBSET ReadySessions]
        /\ fan.alert \in Published
    <3>1. fan' = NoFan \/ fan' = [fan EXCEPT !.todo = fan.todo \ {k}]
      BY <2>1 DEF VisitNext
    <3>2. fan' = [fan EXCEPT !.todo = fan.todo \ {k}] => /\ fan'.alert = fan.alert /\ fan'.todo = fan.todo \ {k}
                                                         /\ fan' \in [alert : Nat, todo : SUBSET ReadySessions]
      BY <1>3
    <3> QED
      BY <1>3, <1>10, <3>1, <3>2 DEF Deliver
  <2>9. Fanning'
    BY <1>3, <2>6, <2>8 DEF Fanning, NoFan
  <2> QED
    BY <2>5, <2>7, <2>9
<1>11. ASSUME NEW k \in Clients, HandleAck(k) \/ HandleSync(k) \/ Pong(k)
       PROVE  Records' /\ Fresh' /\ Fanning'
  <2>1. k \in ReadySessions /\ UNCHANGED <<log, used, sock, snoozed, fan>>
    BY <1>5, <1>11 DEF HandleAck, HandleSync, Pong, Hears
  <2>2. /\ Owner[k] \in Devices /\ Refreshed(Owner[k]) = snap /\ Touched(k) = {snap}
        /\ [snap EXCEPT ![k] = snoozed[Owner[k]]] = snap
    BY <1>1, <2>1, SnapRests
  <2>3. snap' = snap
    <3>1. CASE HandleAck(k)
      BY <2>2, <3>1 DEF HandleAck, MoveCursor
    <3>2. CASE HandleSync(k)
      BY <2>2, <3>2 DEF HandleSync
    <3>3. CASE Pong(k)
      BY <2>2, <3>3 DEF Pong
    <3> QED
      BY <1>11, <3>1, <3>2, <3>3
  <2>4. held' = held \/ held' = [held EXCEPT ![Owner[k]] = 0]
    BY <1>11 DEF HandleAck, HandleSync, Pong
  <2>5. held' \in [Devices -> Nat]
    BY <1>2, <2>4
  <2>6. ReadySessions' = ReadySessions /\ Published' = Published
    BY <2>1 DEF ReadySessions, Published, LastSeq
  <2> QED
    BY <1>1, <1>2, <2>1, <2>3, <2>5, <2>6 DEF Records, Fresh, Fanning
<1>12. ASSUME NEW k \in Clients, HandleSnooze(k)
       PROVE  Records' /\ Fresh' /\ Fanning'
  <2> DEFINE d == Owner[k]
             x == snoozed'[d]
  <2>1. k \in ReadySessions /\ UNCHANGED <<log, used, sock, held, fan>> /\ up[k] # <<>>
    BY <1>5, <1>12 DEF HandleSnooze, Hears
  <2>2. d \in Devices /\ Touched(k) = {snap}
    BY <1>1, <2>1, SnapRests
  <2>3. up[k] \in Seq(UpFrame)
    BY <1>1 DEF Wires
  <2>4. Head(up[k]) \in UpFrame
    BY <2>1, <2>3
  <2>5. Head(up[k]).n \in Nat
    BY <2>4 DEF UpFrame
  <2>6. \E n \in Nat : snoozed' = [snoozed EXCEPT ![d] = n]
    BY <1>12, <2>5 DEF HandleSnooze
  <2>7. snap' = [snap EXCEPT ![k] = x]
    BY <1>12, <2>2 DEF HandleSnooze
  <2>8. snoozed' \in [Devices -> Nat] /\ x \in Nat /\ \A e \in Devices : e # d => snoozed'[e] = snoozed[e]
    BY <1>2, <2>2, <2>6
  <2> HIDE DEF x
  <2>9. snap' \in [Clients -> Nat] /\ snap'[k] = x /\ \A j \in Clients : j # k => snap'[j] = snap[j]
    BY <1>2, <2>7, <2>8
  <2>10. ReadySessions' = ReadySessions /\ Published' = Published
    BY <2>1 DEF ReadySessions, Published, LastSeq
  <2>11. ASSUME NEW j \in ReadySessions PROVE snap'[j] = snoozed'[Owner[j]]
    <3>1. j \in Clients /\ Owner[j] \in Devices
      BY Owned DEF ReadySessions
    <3>2. CASE j = k
      BY <2>9, <3>2 DEF x
    <3>3. CASE j # k
      <4>1. Owner[j] # d
        BY <3>1, <3>3 DEF OneClientEach
      <4> QED
        BY <1>1, <2>8, <2>9, <3>1, <3>3, <4>1 DEF Fresh
    <3> QED
      BY <3>2, <3>3
  <2> QED
    BY <1>1, <1>2, <2>1, <2>8, <2>9, <2>10, <2>11 DEF Records, Fresh, Fanning
<1>13. ASSUME NEW k \in Clients, Connect(k)
       PROVE  Records' /\ Fresh' /\ Fanning'
  <2>1. /\ Quiet /\ UNCHANGED <<log, used, snoozed, held, fan>>
        /\ sock' = [sock EXCEPT ![k] = "open"] /\ snap' = [snap EXCEPT ![k] = snoozed[Owner[k]]]
    BY <1>13 DEF Connect
  <2>2. /\ sock' \in [Clients -> {"open", "lost", "closed"}] /\ snap' \in [Clients -> Nat]
        /\ \A j \in Clients : j # k => sock'[j] = sock[j] /\ snap'[j] = snap[j]
        /\ snap'[k] = snoozed[Owner[k]]
    BY <1>2, <2>1, Owned
  <2>3. Fresh'
    BY <1>1, <2>1, <2>2 DEF Fresh, ReadySessions
  <2>4. Fanning'
    BY <1>4, <2>1 DEF Fanning, NoFan
  <2> QED
    BY <1>2, <2>1, <2>2, <2>3, <2>4 DEF Records
<1>14. ASSUME \/ Compact
              \/ \E a \in Alerts : Expire(a) \/ Resolve(a)
              \/ \E n \in 1..Limit["nap"] : NapEnds(n)
              \/ \E k \in Clients : \/ ClientGets(k) \/ Sync(k) \/ Snooze(k) \/ Unsnooze(k) \/ CatchUp(k)
                                    \/ \E a \in Alerts : Press(k, a)
              \/ UNCHANGED vars
       PROVE  Records' /\ Fresh' /\ Fanning'
  <2>1. UNCHANGED <<log, sock, snap, snoozed, held, fan>> /\ (used' = used \/ \E e \in Events : Spend(e))
    BY <1>14 DEF Compact, Expire, Resolve, NapEnds, ClientGets, ReceiveNote, ReceiveResolve, ReceiveReady, Sync, Snooze,
                 Unsnooze, CatchUp, Press, Events
  <2> QED
    BY <1>2, <1>6, <1>7, <2>1
<1> QED
  BY <1>8, <1>9, <1>10, <1>11, <1>12, <1>13, <1>14 DEF Next, HubHears, Reborn

LEMMA Sends ==
  ASSUME Wires, NEW k \in Clients, NEW r \in Seq(HubFrame), NEW b
  PROVE  /\ OnIt(down[k], b) => OnIt(Sent(k, r), b)
         /\ sock[k] = "open" /\ OnIt(r, b) => OnIt(Sent(k, r), b)
<1>1. down[k] \in Seq(HubFrame)
  BY DEF Wires
<1>2. OnIt(down[k] \o r, b) <=> OnIt(down[k], b) \/ OnIt(r, b)
  BY <1>1, JoinedOn
<1> QED
  BY <1>2 DEF Sent

\* What is on a socket that goes is noted as cut off.
LEMMA Cuts ==
  ASSUME Wires, NEW k \in Clients, NEW ks, k \in ks, NEW d, NEW a \in withheld[d], OnIt(down[k], a)
  PROVE  a \in CutOff(d, ks)
<1>1. DOMAIN down[k] = 1..Len(down[k])
  <2>1. down[k] \in Seq(HubFrame)
    BY DEF Wires
  <2> QED
    BY <2>1
<1>2. PICK i \in 1..Len(down[k]) : down[k][i].t = "notification" /\ a \in down[k][i].as
  BY DEF OnIt, Carries
<1>3. a \in Carried(k)
  BY <1>1, <1>2 DEF Carried
<1> QED
  BY <1>3 DEF CutOff

LEMMA NothingOn == ASSUME NEW q, q = <<>>, NEW b PROVE ~OnIt(q, b)
<1>1. Len(q) = 0
  BY EmptyLen
<1> QED
  BY <1>1 DEF OnIt

LEMMA DryStep == ASSUME HeldInv, [Next]_vars PROVE Dry'
<1>1. Dry /\ down \in [Clients -> Seq(HubFrame)] /\ sock \in [Clients -> {"open", "lost", "closed"}]
  BY DEF HeldInv, Wires, Records
<1>2. ASSUME sock' = sock, \A j \in Clients : sock[j] = "open" \/ down'[j] = down[j]
      PROVE  Dry'
  BY <1>1, <1>2 DEF Dry
<1>3. ASSUME NEW k \in Clients, Deliver(k) \/ HubHears(k) \/ ClientGets(k) PROVE Dry'
  <2>1. /\ sock' = sock
        /\ down' = down \/ (sock[k] = "open" /\ \E q : down' = [down EXCEPT ![k] = q])
           \/ (\E r : down' = [down EXCEPT ![k] = Sent(k, r)])
    BY <1>3 DEF Deliver, DeliverSend, DeliverHold, DeliverSkip, HubHears, HandleAck, HandleSync, HandleSnooze, SendReplay,
         Hears, ClientGets, ReceiveNote, ReceiveResolve, ReceiveReady, Gets
  <2>2. \A j \in Clients : sock[j] = "open" \/ down'[j] = down[j]
    BY <1>1, <2>1 DEF Sent
  <2> QED
    BY <1>2, <2>1, <2>2
<1>4. ASSUME NEW a \in Alerts, Resolve(a) PROVE Dry'
  <2>1. sock' = sock /\ \A j \in Clients : sock[j] = "open" \/ down'[j] = down[j]
    BY <1>4 DEF Resolve, Sent
  <2> QED
    BY <1>2, <2>1
<1>5. ASSUME NEW k \in Clients, Connect(k) \/ CloseSession(k) PROVE Dry'
  <2>1. /\ \A j \in Clients : j # k => sock'[j] = sock[j] /\ down'[j] = down[j]
        /\ sock'[k] = "open" \/ (down'[k] = down[k] /\ sock[k] # "open")
    BY <1>1, <1>5 DEF Connect, CloseSession
  <2> QED
    BY <1>1, <2>1 DEF Dry
<1>6. ASSUME NEW k \in Clients, Lose(k) PROVE Dry'
  <2>1. down'[k] = <<>> /\ \A j \in Clients : j # k => sock'[j] = sock[j] /\ down'[j] = down[j]
    BY <1>1, <1>6 DEF Lose, Silence
  <2> QED
    BY <1>1, <2>1 DEF Dry
<1>7. ASSUME Reborn PROVE Dry'
  BY <1>7 DEF Reborn, Restart, Dry
<1>8. ASSUME \/ Publish \/ Compact \/ (\E a \in Alerts : Retry(a) \/ Expire(a)) \/ (\E n \in 1..Limit["nap"] : NapEnds(n))
             \/ \E k \in Clients : \/ Pong(k) \/ Sync(k) \/ Snooze(k) \/ Unsnooze(k) \/ CatchUp(k)
                                   \/ \E a \in Alerts : Press(k, a)
             \/ UNCHANGED vars
      PROVE  Dry'
  <2>1. UNCHANGED <<sock, down>>
    BY <1>8 DEF Publish, Compact, Retry, Expire, NapEnds, Pong, Sync, Snooze, Unsnooze, CatchUp, Press
  <2> QED
    BY <1>2, <2>1
<1> QED
  BY <1>3, <1>4, <1>5, <1>6, <1>7, <1>8 DEF Next, Reborn

LEMMA Lasting ==
  ASSUME NagInv, log' = log \/ (\E kind \in Kinds : log' = Append(log, kind)), expired \subseteq expired',
         NEW d \in Devices, NEW a \in Published
  PROVE  /\ a \in Published' /\ (CouldSee(d, a) => CouldSee(d, a)')
         /\ omitted[d] \subseteq omitted'[d] /\ Excused(d, a) => Excused(d, a)'
<1>1. LastSeq \in Nat /\ LastSeq = Len(log) /\ log \in Seq(Kinds)
  BY DEF NagInv, LastSeq
<1>2. LastSeq' \in Nat /\ LastSeq <= LastSeq' /\ \A i \in 1..LastSeq : log'[i] = log[i]
  BY <1>1 DEF LastSeq
<1>3. a \in Nat /\ a \in Published' /\ log'[a] = log[a] /\ HistoryLimit \in Nat
  BY <1>1, <1>2, ConstantsAssumption DEF Published, ConstantsAssumption
<1>4. a \in Retained' => a \in Retained
  <2>1. a + HistoryLimit > LastSeq' => a + HistoryLimit > LastSeq
    BY <1>1, <1>2, <1>3
  <2> QED
    BY <2>1 DEF Retained
<1> QED
  BY <1>3, <1>4 DEF CouldSee, Excused

\* Everything but the loop of deliver() and a hand-over leaves what is held alone.
LEMMA HistoriesGrow ==
  ASSUME HeldInv, log' = log \/ (\E kind \in Kinds : log' = Append(log, kind)), expired \subseteq expired',
         held' = held, withheld' = withheld,
         cut' \in [Devices -> SUBSET Nat], \A d \in Devices : cut[d] \subseteq cut'[d],
         omitted' \in [Devices -> SUBSET Nat], \A d \in Devices : omitted[d] \subseteq omitted'[d],
         feed' \in [Clients -> SUBSET Nat], \A k \in Clients : feed[k] \subseteq feed'[k],
         \A k \in Clients : \A a \in withheld[Owner[k]] :
           OnIt(down[k], a) => OnIt(down'[k], a) \/ a \in feed'[k] \/ a \in cut'[Owner[k]]
  PROVE  Histories' /\ \A d \in Devices : \A a \in withheld[d]' : Accounted(d, a)'
<1>1. NagInv /\ Histories
  BY DEF HeldInv
<1>2. ASSUME NEW d \in Devices, NEW a \in withheld[d]
      PROVE  a \in Published' /\ CouldSee(d, a)' /\ Accounted(d, a)'
  <2>1. a \in Published /\ CouldSee(d, a) /\ Accounted(d, a)
    BY <1>1 DEF HeldInv, Histories
  <2>2. a \in Published' /\ CouldSee(d, a)' /\ (Excused(d, a) => Excused(d, a)')
    BY <1>1, <2>1, Lasting
  <2>3. Shows(d, a) => Shows(d, a)'
    BY DEF Shows
  <2>4. Bound(d, a) => Bound(d, a)' \/ Shows(d, a)' \/ a \in cut'[d]
    BY DEF Bound, Shows
  <2>5. Accounted(d, a)'
    BY <2>1, <2>2, <2>3, <2>4 DEF Accounted, StillHeld
  <2> QED
    BY <2>2, <2>5
<1> QED
  BY <1>1, <1>2 DEF Histories

LEMMA HoldStep ==
  ASSUME HeldInv, NEW k \in Clients, Deliver(k), DeliverHold(k)
  PROVE  Histories' /\ \A d \in Devices : \A a \in withheld[d]' : Accounted(d, a)'
<1> DEFINE x == fan.alert
           h == Owner[k]
<1>1. NagInv /\ Histories /\ Fanning /\ Records
  BY DEF HeldInv
<1>2. UNCHANGED <<log, expired, cut, omitted, feed, down>> /\ k \in fan.todo
  BY DEF Deliver, DeliverHold
<1>3. /\ x \in Published /\ CouldSee(h, x) /\ Hold(h, x) /\ withheld' = [withheld EXCEPT ![h] = @ \cup {x}]
      /\ h \in Devices /\ x \in Nat \ {0}
  <2>1. x \in Published
    BY <1>1, <1>2 DEF Fanning
  <2> QED
    BY <2>1, Owned DEF DeliverHold, Published
<1> HIDE DEF x, h
<1>4. Published' = Published /\ Retained' = Retained
  BY <1>2 DEF Published, Retained, LastSeq
<1>5. held \in [Devices -> Nat] /\ withheld \in [Devices -> SUBSET Nat]
  BY <1>1 DEF Records, Histories
<1>6. /\ withheld' \in [Devices -> SUBSET Nat] /\ withheld'[h] = withheld[h] \cup {x}
      /\ \A d \in Devices : d # h => withheld'[d] = withheld[d]
  BY <1>3, <1>5
<1>7. /\ held'[h] # 0 /\ held'[h] <= x /\ (held[h] # 0 => held'[h] <= held[h]) /\ held'[h] \in Nat
      /\ \A d \in Devices : d # h => held'[d] = held[d]
  BY <1>3, <1>5 DEF Hold
<1>8. ASSUME NEW d \in Devices, NEW a \in withheld'[d]
      PROVE  a \in Published /\ CouldSee(d, a) /\ Accounted(d, a)'
  <2>1. CASE a \in withheld[d]
    <3>1. a \in Published /\ CouldSee(d, a) /\ Accounted(d, a) /\ a \in Nat
      BY <1>1, <2>1 DEF HeldInv, Histories, Published
    <3>2. Excused(d, a) => Excused(d, a)'
      BY <1>2, <1>4 DEF Excused
    <3>3. StillHeld(d, a) => StillHeld(d, a)'
      BY <1>5, <1>7, <3>1 DEF StillHeld
    <3>4. (Bound(d, a) => Bound(d, a)') /\ (Shows(d, a) => Shows(d, a)')
      BY <1>2 DEF Bound, Shows
    <3> QED
      BY <1>2, <3>1, <3>2, <3>3, <3>4 DEF Accounted
  <2>2. CASE a \notin withheld[d]
    <3>1. d = h /\ a = x
      BY <1>6, <2>2
    <3>2. StillHeld(d, a)'
      BY <1>7, <3>1 DEF StillHeld
    <3> QED
      BY <1>3, <3>1, <3>2 DEF Accounted
  <2> QED
    BY <2>1, <2>2
<1>9. \A d \in Devices : \A a : CouldSee(d, a) => CouldSee(d, a)'
  BY <1>2 DEF CouldSee
<1> QED
  BY <1>1, <1>2, <1>4, <1>6, <1>8, <1>9 DEF Histories

\* The session that asks works from the record, so a hand-over lets through all that was held.
LEMMA HandOverStep ==
  ASSUME HeldInv, NEW k \in Clients, HandleSync(k)
  PROVE  Histories' /\ \A d \in Devices : \A a \in withheld[d]' : Accounted(d, a)'
<1> DEFINE h == Owner[k]
           n == Head(up[k]).n
<1>1. NagInv /\ Histories /\ Records /\ Wires /\ Fresh
  BY DEF HeldInv
<1>2. /\ k \in ReadySessions /\ sock[k] = "open" /\ up[k] # <<>>
      /\ UNCHANGED <<log, expired, feed>>
  BY DEF HandleSync, Hears, ReadySessions
<1>3. h \in Devices /\ Touched(k) = {snap} /\ snap[k] = snoozed[h]
  BY <1>1, <1>2, SnapRests
<1>4. PICK as \in SUBSET Published :
        /\ NoteReplay(h, as) /\ down' = [down EXCEPT ![k] = Sent(k, Replayed(as))]
        /\ \/ held' = held
           \/ /\ held[h] # 0 /\ held' = [held EXCEPT ![h] = 0] /\ ~Snoozing(snoozed[h])
              /\ as = Eligible(h, snoozed[h], Earliest(n, h))
  <2>1. \A e, z, s : Eligible(e, z, s) \in SUBSET Published
    BY DEF Eligible, Retained
  <2> QED
    BY <1>3, <2>1 DEF HandleSync, HandsOver, SendReplay
<1>5. n \in Nat
  <2>1. up[k] \in Seq(UpFrame)
    BY <1>1 DEF Wires
  <2>2. Head(up[k]) \in UpFrame
    BY <1>2, <2>1
  <2> QED
    BY <2>2 DEF UpFrame
<1>6. Replayed(as) \in Seq(HubFrame) /\ \A b : OnIt(Replayed(as), b) <=> b \in Shown(as)
  BY <1>1, ReplayFrames, Replays DEF NagInv
<1>7. /\ \A b : \A j \in Clients : OnIt(down[j], b) => OnIt(down'[j], b)
      /\ \A b \in Shown(as) : OnIt(down'[k], b)
  <2>1. down'[k] = Sent(k, Replayed(as)) /\ \A j \in Clients : j # k => down'[j] = down[j]
    BY <1>1, <1>4 DEF Wires
  <2>2. \A b : /\ OnIt(down[k], b) => OnIt(Sent(k, Replayed(as)), b)
               /\ OnIt(Replayed(as), b) => OnIt(Sent(k, Replayed(as)), b)
    BY <1>1, <1>2, <1>6, Sends
  <2> QED
    BY <1>6, <2>1, <2>2
<1>8. /\ omitted' \in [Devices -> SUBSET Nat] /\ as \ Shown(as) \in SUBSET omitted'[h]
      /\ (\A e \in Devices : omitted[e] \subseteq omitted'[e])
      /\ withheld' = withheld /\ cut' = cut
  BY <1>1, <1>3, <1>4, Noted DEF Histories, NoteReplay
<1> HIDE DEF n
<1>9. CASE held' = held
  BY <1>1, <1>2, <1>7, <1>8, <1>9, HistoriesGrow DEF Histories
<1>10. CASE /\ held[h] # 0 /\ held' = [held EXCEPT ![h] = 0] /\ ~Snoozing(snoozed[h])
            /\ as = Eligible(h, snoozed[h], Earliest(n, h))
  <2>1. held \in [Devices -> Nat]
    BY <1>1 DEF Records
  <2>2. ASSUME NEW d \in Devices, NEW a \in withheld[d]
        PROVE  a \in Published' /\ CouldSee(d, a)' /\ Accounted(d, a)'
    <3>1. a \in Published /\ CouldSee(d, a) /\ Accounted(d, a) /\ a \in Nat
      BY <1>1 DEF HeldInv, Histories, Published
    <3>2. a \in Published' /\ CouldSee(d, a)' /\ (Excused(d, a) => Excused(d, a)')
      BY <1>1, <1>2, <1>8, <3>1, Lasting
    <3>3. (Bound(d, a) => Bound(d, a)') /\ (Shows(d, a) => Shows(d, a)') /\ (a \in cut[d] => a \in cut'[d])
      BY <1>2, <1>7, <1>8 DEF Bound, Shows
    <3>4. CASE d # h
      <4>1. StillHeld(d, a) => StillHeld(d, a)'
        BY <1>10, <2>1, <3>4 DEF StillHeld
      <4> QED
        BY <3>1, <3>2, <3>3, <4>1 DEF Accounted
    <3>5. CASE ~StillHeld(d, a)
      BY <3>1, <3>2, <3>3, <3>5 DEF Accounted
    <3>6. CASE d = h /\ StillHeld(d, a) /\ ~Excused(d, a)
      <4>1. held[h] \in Nat /\ held[h] # 0 /\ held[h] <= a
        BY <2>1, <3>6 DEF StillHeld
      <4>2. a > Earliest(n, h)
        BY <1>5, <3>1, <4>1 DEF Earliest
      <4>3. a \in as
        BY <1>10, <3>1, <3>6, <4>2 DEF Eligible, Allowed, SnoozeHolds, Excused
      <4>4. CASE a \in Shown(as)
        <5>1. Bound(d, a)'
          BY <1>7, <3>6, <4>4 DEF Bound
        <5> QED
          BY <3>2, <5>1 DEF Accounted
      <4>5. CASE a \notin Shown(as)
        <5>1. Excused(d, a)'
          BY <1>8, <3>6, <4>3, <4>5 DEF Excused
        <5> QED
          BY <3>2, <5>1 DEF Accounted
      <4> QED
        BY <4>4, <4>5
    <3> QED
      BY <3>2, <3>4, <3>5, <3>6 DEF Accounted
  <2> QED
    BY <1>1, <1>2, <1>8, <2>2 DEF Histories
<1> QED
  BY <1>4, <1>9, <1>10

\* Sockets that go take what is on them, and that is noted as cut off.
LEMMA CutStep ==
  ASSUME HeldInv, Reborn \/ \E k \in Clients : Lose(k)
  PROVE  Histories' /\ \A d \in Devices : \A a \in withheld[d]' : Accounted(d, a)'
<1>1. Histories /\ Wires /\ Dry
  BY DEF HeldInv
<1>2. UNCHANGED <<log, expired, held, withheld, omitted, feed>>
  BY DEF Reborn, Restart, Lose
<1>3. ASSUME NEW d, NEW ks PROVE cut[d] \subseteq CutOff(d, ks) /\ (CutOff(d, ks) \subseteq cut[d] \cup withheld[d])
  BY DEF CutOff
<1>4. \A d \in Devices : \A ks : CutOff(d, ks) \in SUBSET Nat
  BY <1>1, <1>3 DEF Histories
<1>5. CASE Reborn
  <2>1. cut' = [d \in Devices |-> CutOff(d, SessionsOf(d))]
    BY <1>5 DEF Reborn, Restart
  <2>2. cut' \in [Devices -> SUBSET Nat] /\ \A d \in Devices : cut[d] \subseteq cut'[d]
    BY <1>3, <1>4, <2>1
  <2>3. ASSUME NEW k \in Clients, NEW a \in withheld[Owner[k]], OnIt(down[k], a)
        PROVE  a \in cut'[Owner[k]]
    <3>1. sock[k] = "open"
      BY <1>1, <2>3, NothingOn DEF Dry
    <3>2. k \in SessionsOf(Owner[k])
      BY <3>1 DEF SessionsOf, ReadySessions
    <3>3. a \in CutOff(Owner[k], SessionsOf(Owner[k]))
      BY <1>1, <2>3, <3>2, Cuts
    <3> QED
      BY <2>1, <3>3, Owned
  <2> QED
    BY <1>1, <1>2, <2>2, <2>3, HistoriesGrow DEF Histories
<1>6. CASE \E k \in Clients : Lose(k)
  <2>1. PICK k \in Clients : Lose(k)
    BY <1>6
  <2>2. cut' = [cut EXCEPT ![Owner[k]] = CutOff(Owner[k], {k})] /\ down' = [down EXCEPT ![k] = <<>>]
    BY <2>1 DEF Lose, Silence
  <2>3. Owner[k] \in Devices
    BY Owned
  <2>4. cut' \in [Devices -> SUBSET Nat] /\ (\A d \in Devices : cut[d] \subseteq cut'[d]) /\ cut'[Owner[k]] = CutOff(Owner[k], {k})
    BY <1>1, <1>3, <1>4, <2>2, <2>3 DEF Histories
  <2>5. ASSUME NEW j \in Clients, NEW a \in withheld[Owner[j]], OnIt(down[j], a)
        PROVE  OnIt(down'[j], a) \/ a \in cut'[Owner[j]]
    <3>1. CASE j = k
      <4>1. a \in CutOff(Owner[k], {k})
        BY <1>1, <2>5, <3>1, Cuts
      <4> QED
        BY <2>4, <3>1, <4>1
    <3>2. CASE j # k
      BY <1>1, <2>2, <2>5, <3>2 DEF Wires
    <3> QED
      BY <3>1, <3>2
  <2> QED
    BY <1>1, <1>2, <2>4, <2>5, HistoriesGrow DEF Histories
<1> QED
  BY <1>5, <1>6

\* A client that reads a frame shows what it carried.
LEMMA ReadStep ==
  ASSUME HeldInv, NEW k \in Clients, ClientGets(k)
  PROVE  Histories' /\ \A d \in Devices : \A a \in withheld[d]' : Accounted(d, a)'
<1>1. Histories /\ Wires
  BY DEF HeldInv
<1>2. /\ UNCHANGED <<log, expired, held, withheld, cut, omitted>>
      /\ down[k] # <<>> /\ down' = [down EXCEPT ![k] = Tail(@)]
  BY DEF ClientGets, ReceiveNote, ReceiveResolve, ReceiveReady, Gets
<1>3. down[k] \in Seq(HubFrame) /\ down'[k] = Tail(down[k]) /\ \A j \in Clients : j # k => down'[j] = down[j]
  BY <1>1, <1>2 DEF Wires
<1>4. Head(down[k]) \in HubFrame
  BY <1>2, <1>3
<1>5. /\ feed' \in [Clients -> SUBSET Nat] /\ (\A j \in Clients : feed[j] \subseteq feed'[j])
      /\ \A a : Carries(Head(down[k]), a) => a \in feed'[k]
  <2>1. CASE ReceiveNote(k)
    <3>1. PICK a \in Nat : Head(down[k]).as = {a}
      BY <1>4, <2>1 DEF ReceiveNote, Gets, HubFrame
    <3>2. (CHOOSE x \in Head(down[k]).as : TRUE) = a
      BY <3>1
    <3>3. feed' = [feed EXCEPT ![k] = @ \cup {a}]
      BY <2>1, <3>2 DEF ReceiveNote
    <3> QED
      BY <1>1, <3>1, <3>3 DEF Histories, Carries
  <2>2. CASE ReceiveResolve(k) \/ ReceiveReady(k)
    <3>1. feed' = feed /\ Head(down[k]).t # "notification"
      BY <2>2 DEF ReceiveResolve, ReceiveReady, Gets
    <3> QED
      BY <1>1, <3>1 DEF Histories, Carries
  <2> QED
    BY <2>1, <2>2 DEF ClientGets
<1>6. ASSUME NEW j \in Clients, NEW a, OnIt(down[j], a) PROVE OnIt(down'[j], a) \/ a \in feed'[j]
  <2>1. CASE j # k
    BY <1>3, <1>6, <2>1
  <2>2. CASE j = k /\ ~Carries(Head(down[k]), a)
    BY <1>2, <1>3, <1>6, <2>2, LeftOn
  <2> QED
    BY <1>5, <2>1, <2>2
<1> QED
  BY <1>1, <1>2, <1>5, <1>6, HistoriesGrow DEF Histories

LEMMA HeldStep == ASSUME OneClientEach, HeldInv, [Next]_vars PROVE HeldInv'
<1>1. NagInv' /\ Wires' /\ Records' /\ Fresh' /\ Fanning' /\ Dry'
  BY NagStep, WiresStep, RecordsStep, DryStep DEF HeldInv
<1> SUFFICES Histories' /\ \A d \in Devices : \A a \in withheld[d]' : Accounted(d, a)'
  BY <1>1 DEF HeldInv
<1>2. /\ cut \in [Devices -> SUBSET Nat] /\ omitted \in [Devices -> SUBSET Nat] /\ feed \in [Clients -> SUBSET Nat]
      /\ Wires /\ Dry /\ Fanning /\ log \in Seq(Kinds)
  BY DEF HeldInv, Histories, NagInv
<1>3. CASE \/ Publish \/ Apart
           \/ \E a \in Alerts : Resolve(a)
           \/ \E k \in Clients : \/ HandleAck(k) \/ HandleSnooze(k)
                                 \/ Sync(k) \/ Snooze(k) \/ Unsnooze(k) \/ CatchUp(k)
                                 \/ \E a \in Alerts : Press(k, a)
  <2>1. UNCHANGED <<held, withheld, cut, omitted, feed>>
    BY <1>3 DEF Publish, Apart, Compact, Retry, Expire, NapEnds, Pong, CloseSession, Resolve, HandleAck, HandleSnooze,
         Sync, Snooze, Unsnooze, CatchUp, Press
  <2>2. (log' = log \/ \E kind \in Kinds : log' = Append(log, kind)) /\ expired \subseteq expired'
    BY <1>3 DEF Publish, Apart, Compact, Retry, Expire, NapEnds, Pong, CloseSession, Resolve, HandleAck, HandleSnooze,
         Sync, Snooze, Unsnooze, CatchUp, Press
  <2>3. \A j \in Clients : \A b : OnIt(down[j], b) => OnIt(down'[j], b)
    <3>1. CASE \E a \in Alerts : Resolve(a)
      <4>1. PICK a \in Alerts : Resolve(a)
        BY <3>1
      <4>2. <<Resolution({a})>> \in Seq(HubFrame)
        BY NumberFrames DEF Alerts
      <4>3. \A j \in Clients : down'[j] = down[j] \/ down'[j] = Sent(j, <<Resolution({a})>>)
        BY <4>1 DEF Resolve
      <4> QED
        BY <1>2, <4>2, <4>3, Sends
    <3>2. CASE ~\E a \in Alerts : Resolve(a)
      <4>1. down' = down
        BY <1>3, <3>2 DEF Publish, Apart, Compact, Retry, Expire, NapEnds, Pong, CloseSession, HandleAck, HandleSnooze,
             Sync, Snooze, Unsnooze, CatchUp, Press
      <4> QED
        BY <4>1
    <3> QED
      BY <3>1, <3>2
  <2> QED
    BY <1>2, <2>1, <2>2, <2>3, HistoriesGrow
<1>4. ASSUME NEW k \in Clients, Deliver(k)
      PROVE  Histories' /\ \A d \in Devices : \A a \in withheld[d]' : Accounted(d, a)'
  <2>1. CASE DeliverHold(k)
    BY <1>4, <2>1, HoldStep
  <2>2. CASE DeliverSend(k) \/ DeliverSkip(k)
    <3>1. UNCHANGED <<log, expired, held, withheld, cut, omitted, feed>>
      BY <1>4, <2>2 DEF Deliver, DeliverSend, DeliverSkip
    <3>2. <<Note(fan.alert)>> \in Seq(HubFrame)
      <4>1. fan.alert \in Nat
        BY <1>2 DEF Fanning
      <4>2. Note(fan.alert) \in HubFrame
        BY <4>1, NumberFrames
      <4> QED
        BY <4>2, NumberFrames
    <3>3. down' = down \/ down' = [down EXCEPT ![k] = Sent(k, <<Note(fan.alert)>>)]
      BY <2>2 DEF DeliverSend, DeliverSkip
    <3>4. \A j \in Clients : down'[j] = down[j] \/ (j = k /\ down'[j] = Sent(k, <<Note(fan.alert)>>))
      BY <1>2, <3>3 DEF Wires
    <3>5. \A j \in Clients : \A b : OnIt(down[j], b) => OnIt(down'[j], b)
      BY <1>2, <3>2, <3>4, Sends
    <3> QED
      BY <1>2, <3>1, <3>5, HistoriesGrow
  <2> QED
    BY <1>4, <2>1, <2>2 DEF Deliver
<1>5. ASSUME NEW k \in Clients, Connect(k)
      PROVE  Histories' /\ \A d \in Devices : \A a \in withheld[d]' : Accounted(d, a)'
  <2>1. PICK as \in SUBSET Published : NoteReplay(Owner[k], as)
    BY <1>5 DEF Connect, Eligible, Retained
  <2>2. UNCHANGED <<log, expired, held, feed>> /\ sock[k] # "open"
    BY <1>5 DEF Connect
  <2>3. /\ cut' = cut /\ withheld' = withheld
        /\ omitted' \in [Devices -> SUBSET Nat] /\ \A e \in Devices : omitted[e] \subseteq omitted'[e]
    BY <1>2, <2>1, Owned, Noted DEF NoteReplay
  <2>4. \A j \in Clients : j # k => down'[j] = down[j]
    BY <1>2, <1>5 DEF Connect, Wires
  <2>5. \A b : ~OnIt(down[k], b)
    BY <1>2, <2>2, NothingOn DEF Dry
  <2>6. \A j \in Clients : \A b : OnIt(down[j], b) => OnIt(down'[j], b)
    BY <2>4, <2>5
  <2> QED
    BY <1>2, <2>2, <2>3, <2>6, HistoriesGrow
<1> QED
  BY <1>3, <1>4, <1>5, HandOverStep, CutStep, ReadStep DEF Next, HubHears, Apart, Reborn

\* What a snooze held is noted, on its way or shown (markSnoozeHeld and handleSync of
\* server.ts), for a device whose session is the only one, unless a socket was lost with the
\* hand-over on it.
THEOREM HeldIsNotDropped == ASSUME OneClientEach PROVE Spec => []HeldWithinReach
<1>1. Init => HeldInv
  <2> SUFFICES ASSUME Init PROVE HeldInv
    OBVIOUS
  <2>1. NagInv
    BY Marked DEF Init, NagInv, Marks
  <2>2. Records /\ Fresh /\ Fanning /\ Dry
    BY Owned DEF Init, Records, Fresh, Fanning, NoFan, ReadySessions, Events, Dry
  <2>3. <<>> \in Seq(HubFrame) /\ <<>> \in Seq(UpFrame)
    OBVIOUS
  <2>4. Wires
    BY <2>3 DEF Init, Wires
  <2>5. Histories /\ \A d \in Devices : withheld[d] = {}
    BY DEF Init, Histories
  <2> QED
    BY <2>1, <2>2, <2>4, <2>5 DEF HeldInv
<1>2. HeldInv /\ [Next]_vars => HeldInv'
  BY HeldStep
<1>3. HeldInv => HeldWithinReach
  <2> SUFFICES ASSUME HeldInv, NEW d \in Devices, NEW a, Bound(d, a) PROVE OnItsWay(d, a)
    BY DEF HeldInv, Accounted, HeldWithinReach
  <2>1. PICK k \in Clients : Owner[k] = d /\ OnIt(down[k], a)
    BY DEF Bound
  <2>2. down[k] \in Seq(HubFrame)
    BY DEF HeldInv, Wires
  <2>3. DOMAIN down[k] = 1..Len(down[k])
    BY <2>2
  <2> QED
    BY <2>1, <2>3 DEF OnItsWay, OnIt, Carries
<1> QED
  BY <1>1, <1>2, <1>3, PTL DEF Spec
=============================================================================
