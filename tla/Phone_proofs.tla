--------------------------- MODULE Phone_proofs ----------------------------
(* Proofs about the two apps: the calls of a phone, its watching, and the     *)
(* calls of a computer.                                                       *)
EXTENDS PhoneCall, PhoneWatch, DeskCall, SequenceTheorems, WellFoundedInduction, TLAPS

----------------------------------------------------------------------------
(* The ring, the screen and the refusals of a phone, for any calls and hubs  *)
(* and any length of the queue of taps.                                      *)

Message == [frame : {"call", "cancel"}, call : Calls]
Touch == [action : {"answer", "decline"}, call : Calls]
PhoneShape ==
  /\ rung \in [Calls -> {"no", "ringing", "answered", "over"}]
  /\ inbox \in [Hubs -> Seq(Message)] /\ ready \in SUBSET Hubs
  /\ taps \in Seq(Touch) /\ launch \in Calls \cup {NoCall}
  /\ notes \in SUBSET Calls /\ ringing \in Calls \cup {NoCall}
  /\ active \in Calls \cup {NoCall} /\ answered \in Calls \cup {NoCall}
  /\ screen \in [call : Calls \cup {NoCall}, started : BOOLEAN]

\* A hub announces a call once, to a phone it has a connection to, ...
Announces(h, n, c) == n \in DOMAIN inbox[h] /\ inbox[h][n] = Frames("call", c)
Connected == \A h \in Hubs : inbox[h] # <<>> => h \in ready
Placed ==
  \A h \in Hubs : \A n \in DOMAIN inbox[h] : Placer[inbox[h][n].call] = h /\ rung[inbox[h][n].call] # "no"
Once == \A h \in Hubs, c \in Calls, m, n \in Nat : Announces(h, m, c) /\ Announces(h, n, c) => m = n
Inboxes == Connected /\ Placed /\ Once
\* ... so a call whose frame has been handled is never announced again, ...
Known(c) == rung[c] # "no" /\ \A h \in Hubs, n \in Nat : ~Announces(h, n, c)
\* ... and one that was answered or tapped, and does not ring, will not.
Past(c) == Known(c) /\ ringing # c

Handled ==
  /\ \A c \in notes \cup ({active, screen.call} \ {NoCall}) : Known(c)
  /\ \A n \in DOMAIN taps : Past(taps[n].call)
  /\ \A c \in {answered, launch} \ {NoCall} : Past(c)
PhoneInv ==
  /\ PhoneShape /\ Inboxes /\ Handled /\ RingIsAnswerable
  /\ screen.started => screen.call # NoCall

LEMMA PhoneStarts == PhoneCallInit => PhoneInv
<1> SUFFICES ASSUME PhoneCallInit PROVE PhoneInv
  OBVIOUS
<1> USE PhoneCallAssumption DEF PhoneCallAssumption
<1>1. PhoneShape
  BY DEF PhoneCallInit, PhoneShape, NoScreen
<1>2. Inboxes
  BY DEF PhoneCallInit, Inboxes, Connected, Placed, Once, Announces
<1> QED
  BY <1>1, <1>2 DEF PhoneCallInit, PhoneInv, Handled, RingIsAnswerable, NoScreen

-----------------------------------------------------------------------------
(* The frames: whatever happens to an inbox, a call that is known stays so. *)

LEMMA Elements ==
  ASSUME NEW q \in Seq(Message), NEW n \in DOMAIN q
  PROVE  n \in Nat /\ q[n] \in Message /\ q[n].call \in Calls
<1>1. Len(q) \in Nat /\ DOMAIN q = 1..Len(q)
  OBVIOUS
<1>2. n \in 1..Len(q) /\ q[n] \in Message
  BY <1>1
<1> QED
  BY <1>1, <1>2 DEF Message

LEMMA InboxElements ==
  ASSUME PhoneShape, NEW h \in Hubs, NEW n \in DOMAIN inbox[h]
  PROVE  n \in Nat /\ inbox[h][n] \in Message /\ inbox[h][n].call \in Calls
<1>1. inbox[h] \in Seq(Message)
  BY DEF PhoneShape
<1> QED
  BY <1>1, Elements

\* Only a call that has been announced is in an inbox.
LEMMA AnnouncedCalls ==
  ASSUME PhoneShape, Placed, NEW h \in Hubs, NEW n, NEW c, Announces(h, n, c)
  PROVE  n \in Nat /\ c \in Calls /\ Placer[c] = h /\ rung[c] # "no"
<1>1. inbox[h][n].call = c /\ n \in DOMAIN inbox[h]
  BY DEF Announces, Frames
<1> QED
  BY <1>1, InboxElements DEF Placed

\* A frame that arrives at the end of an inbox
LEMMA Arriving ==
  ASSUME PhoneShape, Inboxes, NEW h \in Hubs, h \in ready, NEW c \in Calls, Placer[c] = h,
         NEW f \in {"call", "cancel"}, f = "call" => rung[c] = "no",
         inbox' = [inbox EXCEPT ![h] = Append(@, Frames(f, c))], UNCHANGED ready,
         rung' \in [Calls -> {"no", "ringing", "answered", "over"}],
         rung'[c] # "no", \A d \in Calls : rung[d] # "no" => rung'[d] # "no"
  PROVE  /\ inbox' \in [Hubs -> Seq(Message)] /\ Inboxes'
         /\ \A d \in Calls : Known(d) => Known(d)'
<1> DEFINE msg == Frames(f, c)
<1>1. msg \in Message /\ msg.call = c /\ msg.frame = f
  BY DEF Frames, Message
<1>2. /\ inbox'[h] = Append(inbox[h], msg) /\ \A k \in Hubs \ {h} : inbox'[k] = inbox[k]
      /\ inbox[h] \in Seq(Message)
  BY DEF PhoneShape
<1> DEFINE L == Len(inbox[h]) + 1
<1>3. /\ L \in Nat /\ DOMAIN inbox[h] = 1..L-1 /\ DOMAIN inbox'[h] = 1..L
      /\ inbox'[h][L] = msg /\ \A n \in 1..L-1 : inbox'[h][n] = inbox[h][n] /\ n # L
  BY <1>1, <1>2
<1>4. inbox' \in [Hubs -> Seq(Message)]
  BY <1>1 DEF PhoneShape
<1>5. \A n \in DOMAIN inbox[h] : inbox[h][n] \in Message
  BY <1>2
<1> HIDE DEF msg, L
<1>6. ASSUME NEW n, NEW d, Announces(h, n, d)' PROVE Announces(h, n, d) \/ (n = L /\ d = c /\ f = "call")
  <2>1. n \in 1..L /\ inbox'[h][n] = Frames("call", d)
    BY <1>3, <1>6 DEF Announces
  <2>2. CASE n = L
    BY <1>1, <1>3, <2>1, <2>2 DEF Frames
  <2>3. CASE n # L
    BY <1>3, <2>1, <2>3 DEF Announces
  <2> QED
    BY <2>2, <2>3
<1>7. ASSUME NEW k \in Hubs \ {h}, NEW n, NEW d PROVE Announces(k, n, d)' <=> Announces(k, n, d)
  BY <1>2 DEF Announces
<1>8. ASSUME f = "call", NEW k \in Hubs, NEW n, Announces(k, n, c) PROVE FALSE
  BY <1>8, AnnouncedCalls DEF Inboxes
<1>9. Connected'
  BY <1>2 DEF Inboxes, Connected
<1>10. Placed'
  <2> SUFFICES ASSUME NEW k \in Hubs, NEW n \in DOMAIN inbox'[k]
               PROVE  Placer[inbox'[k][n].call] = k /\ rung'[inbox'[k][n].call] # "no"
    BY DEF Placed
  <2>1. CASE k = h /\ n = L
    BY <1>1, <1>3, <2>1
  <2>2. CASE ~(k = h /\ n = L)
    <3>1. n \in DOMAIN inbox[k] /\ inbox'[k][n] = inbox[k][n]
      BY <1>2, <1>3, <2>2
    <3> QED
      BY <3>1, InboxElements DEF Inboxes, Placed
  <2> QED
    BY <2>1, <2>2
<1>11. Once'
  <2> SUFFICES ASSUME NEW k \in Hubs, NEW d \in Calls, NEW m \in Nat, NEW n \in Nat,
                      Announces(k, m, d)', Announces(k, n, d)'
               PROVE  m = n
    BY DEF Once
  <2>1. CASE k # h
    BY <1>7, <2>1 DEF Inboxes, Once
  <2>2. CASE k = h
    BY <1>6, <1>8, <2>2 DEF Inboxes, Once
  <2> QED
    BY <2>1, <2>2
<1>12. ASSUME NEW d \in Calls, Known(d) PROVE Known(d)'
  <2>1. ~(d = c /\ f = "call")
    BY <1>12 DEF Known
  <2>2. ASSUME NEW k \in Hubs, NEW n \in Nat, Announces(k, n, d)' PROVE FALSE
    BY <1>6, <1>7, <1>12, <2>1, <2>2 DEF Known
  <2> QED
    BY <1>12, <2>2 DEF Known
<1> QED
  BY <1>4, <1>9, <1>10, <1>11, <1>12 DEF Inboxes

\* A frame that is taken from the front: a call it announced is known from then on.
LEMMA Taking ==
  ASSUME PhoneShape, Inboxes, NEW h \in Hubs, inbox[h] # <<>>,
         inbox' = [inbox EXCEPT ![h] = Tail(@)], UNCHANGED <<ready, rung>>
  PROVE  /\ inbox' \in [Hubs -> Seq(Message)] /\ Inboxes'
         /\ \A d \in Calls : Known(d) => Known(d)'
         /\ Head(inbox[h]) \in Message /\ Placer[Head(inbox[h]).call] = h /\ h \in ready
         /\ \A c \in Calls : Head(inbox[h]) = Frames("call", c) => Known(c)'
<1> DEFINE q == inbox[h]
<1>1. q \in Seq(Message) /\ q # <<>>
  BY DEF PhoneShape
<1>2. /\ inbox'[h] = Tail(q) /\ \A k \in Hubs \ {h} : inbox'[k] = inbox[k]
      /\ inbox' \in [Hubs -> Seq(Message)]
  BY <1>1 DEF PhoneShape
<1>3. /\ Len(q) \in Nat /\ Len(q) >= 1 /\ DOMAIN q = 1..Len(q) /\ q[1] = Head(q) /\ q[1] \in Message
      /\ DOMAIN inbox'[h] = 1..Len(q) - 1 /\ \A n \in 1..Len(q) - 1 : inbox'[h][n] = q[n + 1]
  BY <1>1, <1>2
<1>4. /\ h \in ready /\ 1 \in DOMAIN q
      /\ \A n \in DOMAIN inbox'[h] : n + 1 \in DOMAIN q /\ n + 1 # 1 /\ n + 1 \in Nat
  BY <1>3 DEF Inboxes, Connected
<1>5. ASSUME NEW n, NEW d, Announces(h, n, d)'
      PROVE  Announces(h, n + 1, d) /\ n + 1 # 1 /\ n + 1 \in Nat
  BY <1>3, <1>4, <1>5 DEF Announces
<1>6. ASSUME NEW k \in Hubs \ {h}, NEW n, NEW d PROVE Announces(k, n, d)' <=> Announces(k, n, d)
  BY <1>2 DEF Announces
<1>7. Placer[q[1].call] = h /\ rung[q[1].call] # "no" /\ q[1].call \in Calls
  BY <1>4, InboxElements DEF Inboxes, Placed
<1>8. ASSUME NEW c \in Calls, q[1] = Frames("call", c) PROVE Known(c)'
  <2>1. Announces(h, 1, c) /\ q[1].call = c
    BY <1>4, <1>8 DEF Announces, Frames
  <2>2. ASSUME NEW k \in Hubs, NEW n \in Nat, Announces(k, n, c)' PROVE FALSE
    <3>1. CASE k = h
      <4>1. Announces(h, n + 1, c) /\ n + 1 # 1 /\ n + 1 \in Nat
        BY <1>5, <2>2, <3>1
      <4> QED
        BY <2>1, <4>1 DEF Inboxes, Once
    <3>2. CASE k # h
      BY <1>6, <1>7, <2>1, <2>2, <3>2, AnnouncedCalls DEF Inboxes
    <3> QED
      BY <3>1, <3>2
  <2> QED
    BY <1>7, <2>1, <2>2 DEF Known
<1>9. ASSUME NEW d \in Calls, Known(d) PROVE Known(d)'
  <2>1. ASSUME NEW k \in Hubs, NEW n \in Nat, Announces(k, n, d)' PROVE FALSE
    BY <1>5, <1>6, <1>9, <2>1 DEF Known
  <2> QED
    BY <1>9, <2>1 DEF Known
<1>10. Connected'
  BY <1>2, <1>4 DEF Inboxes, Connected
<1>11. Placed'
  <2> SUFFICES ASSUME NEW k \in Hubs, NEW n \in DOMAIN inbox'[k]
               PROVE  Placer[inbox'[k][n].call] = k /\ rung[inbox'[k][n].call] # "no"
    BY DEF Placed
  <2>1. CASE k = h
    <3>1. n + 1 \in DOMAIN q /\ inbox'[h][n] = q[n + 1]
      BY <1>3, <1>4, <2>1
    <3> QED
      BY <2>1, <3>1 DEF Inboxes, Placed
  <2>2. CASE k # h
    BY <1>2, <2>2 DEF Inboxes, Placed
  <2> QED
    BY <2>1, <2>2
<1>12. Once'
  <2> SUFFICES ASSUME NEW k \in Hubs, NEW d \in Calls, NEW m \in Nat, NEW n \in Nat,
                      Announces(k, m, d)', Announces(k, n, d)'
               PROVE  m = n
    BY DEF Once
  <2>1. CASE k = h
    <3>1. m + 1 = n + 1
      BY <1>5, <2>1 DEF Inboxes, Once
    <3> QED
      BY <3>1
  <2>2. CASE k # h
    BY <1>6, <2>2 DEF Inboxes, Once
  <2> QED
    BY <2>1, <2>2
<1> QED
  BY <1>2, <1>3, <1>4, <1>7, <1>8, <1>9, <1>10, <1>11, <1>12 DEF Inboxes

\* Inboxes that are emptied, or left alone, while hubs come and go
LEMMA Leaving ==
  ASSUME PhoneShape, Inboxes, \A d \in Calls : rung[d] # "no" => rung'[d] # "no",
         \A h \in Hubs : inbox'[h] = <<>> \/ (inbox'[h] = inbox[h] /\ (h \in ready => h \in ready'))
  PROVE  Inboxes' /\ \A d \in Calls : Known(d) => Known(d)'
<1>1. ASSUME NEW h \in Hubs, NEW n \in DOMAIN inbox'[h] PROVE inbox'[h] = inbox[h] /\ n \in DOMAIN inbox[h]
  BY <1>1
<1>2. ASSUME NEW h \in Hubs, NEW n, NEW d, Announces(h, n, d)' PROVE Announces(h, n, d)
  BY <1>1, <1>2 DEF Announces
<1>3. Connected'
  BY DEF Inboxes, Connected
<1>4. Placed'
  BY <1>1, InboxElements DEF Inboxes, Placed
<1>5. Once'
  BY <1>2 DEF Inboxes, Once
<1>6. ASSUME NEW d \in Calls, Known(d) PROVE Known(d)'
  BY <1>2, <1>6 DEF Known
<1> QED
  BY <1>3, <1>4, <1>5, <1>6 DEF Inboxes
-----------------------------------------------------------------------------
(* The queue of taps *)

LEMMA Greatest ==
  ASSUME NEW l \in Nat, NEW S, S \subseteq 0..l, S # {}
  PROVE  \E n \in S : \A m \in S : m <= n
<1> DEFINE R == OpToRel(<, Nat)
           T == {l - n : n \in S}
<1>1. \A n \in S : n \in Nat /\ n <= l /\ l - n \in Nat
  OBVIOUS
<1>8. T \subseteq Nat /\ T # {}
  BY <1>1
<1>2. \A x, y \in Nat : x < y => <<x, y>> \in R
  BY DEF OpToRel
<1>3. IsWellFoundedOn(R, Nat)
  BY NatLessThanWellFounded
<1> HIDE DEF R, T
<1>4. PICK x \in T : \A y \in T : ~(<<y, x>> \in R)
  BY <1>3, <1>8, WFMin
<1>5. ASSUME NEW y \in T PROVE x <= y
  <2>1. x \in Nat /\ y \in Nat
    BY <1>8
  <2>2. ~(y < x)
    BY <1>2, <1>4, <2>1
  <2> QED
    BY <2>1, <2>2
<1>6. PICK n \in S : x = l - n
  BY DEF T
<1>7. ASSUME NEW m \in S PROVE m <= n
  <2>1. l - m \in T
    BY DEF T
  <2> QED
    BY <1>1, <1>5, <1>6, <2>1
<1> QED
  BY <1>7

LEMMA TapElements ==
  ASSUME PhoneShape, NEW n \in DOMAIN taps
  PROVE  n \in 1..Len(taps) /\ Len(taps) \in Nat /\ taps[n] \in Touch /\ taps[n].call \in Calls
<1>1. taps \in Seq(Touch) /\ Len(taps) \in Nat /\ DOMAIN taps = 1..Len(taps)
  BY DEF PhoneShape
<1>2. n \in 1..Len(taps) /\ taps[n] \in Touch
  BY <1>1
<1> QED
  BY <1>1, <1>2 DEF Touch

\* The answer that counts is one that was tapped.
LEMMA AnswerTapped ==
  ASSUME PhoneShape, Tapped("answer") # {}
  PROVE  \E n \in DOMAIN taps : LastAnswered = taps[n].call
<1> DEFINE S == {n \in DOMAIN taps : taps[n].action = "answer"}
<1>1. S # {} /\ Len(taps) \in Nat /\ S \subseteq 0..Len(taps)
  BY TapElements DEF Tapped, PhoneShape
<1>2. PICK n \in S : \A m \in S : m <= n
  BY <1>1, Greatest
<1>3. \E k \in DOMAIN taps :
        /\ taps[k].action = "answer"
        /\ \A m \in DOMAIN taps : taps[m].action = "answer" => m <= k
  BY <1>2
<1> DEFINE k == CHOOSE k \in DOMAIN taps :
                  /\ taps[k].action = "answer"
                  /\ \A m \in DOMAIN taps : taps[m].action = "answer" => m <= k
<1>4. k \in DOMAIN taps
  BY <1>3
<1>5. LastAnswered = taps[k].call
  BY DEF LastAnswered
<1> QED
  BY <1>4, <1>5

\* A tap joins the queue, which may lose its oldest.
LEMMA Queueing ==
  ASSUME PhoneShape, NEW t \in Touch, taps' = Queued(t)
  PROVE  /\ taps' \in Seq(Touch)
         /\ \A n \in DOMAIN taps' : taps'[n] = t \/ \E m \in DOMAIN taps : taps'[n] = taps[m]
<1>1. taps \in Seq(Touch) /\ Len(taps) \in Nat
  BY DEF PhoneShape
<1> DEFINE q == IF Len(taps) >= TapLimit THEN Tail(taps) ELSE taps
<1>2. q \in Seq(Touch) /\ \A n \in DOMAIN q : \E m \in DOMAIN taps : q[n] = taps[m]
  <2>1. CASE Len(taps) >= TapLimit
    <3>1. taps # <<>> /\ q = Tail(taps)
      BY <1>1, <2>1, PhoneCallAssumption DEF PhoneCallAssumption
    <3>2. /\ q \in Seq(Touch) /\ DOMAIN q = 1..Len(taps) - 1
          /\ \A n \in 1..Len(taps) - 1 : q[n] = taps[n + 1] /\ n + 1 \in DOMAIN taps
      BY <1>1, <3>1
    <3> QED
      BY <3>2
  <2>2. CASE ~(Len(taps) >= TapLimit)
    BY <1>1, <2>2
  <2> QED
    BY <2>1, <2>2
<1>3. taps' = Append(q, t)
  BY DEF Queued
<1> HIDE DEF q
<1>4. /\ taps' \in Seq(Touch) /\ Len(q) \in Nat /\ DOMAIN q = 1..Len(q)
      /\ DOMAIN taps' = 1..Len(q) + 1 /\ taps'[Len(q) + 1] = t
      /\ \A n \in 1..Len(q) : taps'[n] = q[n]
  BY <1>2, <1>3
<1>5. \A n \in 1..Len(q) + 1 : n = Len(q) + 1 \/ n \in 1..Len(q)
  BY <1>4
<1> QED
  BY <1>2, <1>4, <1>5

-----------------------------------------------------------------------------
(* The steps *)

\* Whatever the hubs make of a call, it does not become one they never placed.
LEMMA Hubward ==
  ASSUME PhoneShape
  PROVE  /\ \A cs : /\ Declined(cs) \in [Calls -> {"no", "ringing", "answered", "over"}]
                    /\ \A d \in Calls : rung[d] # "no" => Declined(cs)[d] # "no"
         /\ \A c \in Calls : /\ EndedAt(c) \in [Calls -> {"no", "ringing", "answered", "over"}]
                             /\ \A d \in Calls : rung[d] # "no" => EndedAt(c)[d] # "no"
BY DEF PhoneShape, Declined, EndedAt

\* What Handled' asks for, with the calls of the next state named
LEMMA HandledNext ==
  ASSUME \A c \in notes' \cup ({active', screen'.call} \ {NoCall}) : Known(c)',
         \A n \in DOMAIN taps' : \E d \in Calls : taps'[n].call = d /\ Past(d)',
         \A c \in {answered', launch'} \ {NoCall} : Past(c)'
  PROVE  Handled'
<1>1. ASSUME NEW n \in DOMAIN taps' PROVE Past(taps[n].call)'
  <2>1. PICK d \in Calls : taps'[n].call = d /\ Past(d)'
    BY <1>1
  <2> QED
    BY <2>1 DEF Past, Known, Announces
<1> QED
  BY <1>1 DEF Handled

\* An answered call on screen is a call, and has speech to end it.
LEMMA Started ==
  ASSUME PhoneInv, (screen.started) = TRUE
  PROVE  /\ screen.call # NoCall
         /\ active = screen.call => screen.call \in asked \cup settled \cup {speaking}
<1>1. screen.started
  OBVIOUS
<1> QED
  BY <1>1 DEF PhoneInv, RingIsAnswerable

\* A step that rings nothing, shows nothing and remembers nothing new
LEMMA NothingNew ==
  ASSUME Handled, \A d \in Calls : Known(d) => Known(d)', PhoneShape,
         notes' \in SUBSET notes, ringing' \in {ringing, NoCall},
         active' \in {active, NoCall}, screen'.call \in {screen.call, active, NoCall},
         taps' = taps \/ taps' = <<>>,
         launch' \in {launch, NoCall}, answered' \in {answered, launch, NoCall}
  PROVE  Handled'
<1> USE PhoneCallAssumption DEF PhoneCallAssumption
<1>1. \A c \in Calls : Past(c) => Past(c)'
  BY DEF Past
<1>2. /\ notes \subseteq Calls /\ {active, screen.call, launch, answered} \subseteq Calls \cup {NoCall}
      /\ \A n \in DOMAIN taps : taps[n].call \in Calls
  BY TapElements DEF PhoneShape
<1>3. \A c \in notes' \cup ({active', screen'.call} \ {NoCall}) : Known(c)'
  BY <1>2 DEF Handled
<1>4. \A n \in DOMAIN taps' : \E d \in Calls : taps'[n].call = d /\ Past(d)'
  <2>1. CASE taps' = taps
    BY <1>1, <1>2, <2>1 DEF Handled
  <2>2. CASE taps' = <<>>
    BY <2>2
  <2> QED
    BY <2>1, <2>2
<1>5. \A c \in {answered', launch'} \ {NoCall} : Past(c)'
  BY <1>1, <1>2 DEF Handled
<1> QED
  BY <1>3, <1>4, <1>5, HandledNext

\* What a hub does of itself
LEMMA HubStep ==
  ASSUME PhoneInv, NEW c \in Calls, HubRings(c) \/ HubCancels(c) \/ HubNotices(c)
  PROVE  PhoneInv'
<1> USE DEF PhoneInv
<1>1. /\ UNCHANGED <<ready, nativeVars, screenVars, speechVars>>
      /\ rung' \in [Calls -> {"no", "ringing", "answered", "over"}]
      /\ rung'[c] # "no" /\ \A d \in Calls : rung[d] # "no" => rung'[d] # "no"
  BY DEF HubRings, HubCancels, HubNotices, PhoneShape
<1>2. inbox' \in [Hubs -> Seq(Message)] /\ Inboxes' /\ \A d \in Calls : Known(d) => Known(d)'
  <2>1. Placer[c] \in Hubs
    BY PhoneCallAssumption DEF PhoneCallAssumption
  <2>2. CASE HubRings(c)
    BY <1>1, <2>1, <2>2, Arriving DEF HubRings
  <2>3. CASE HubCancels(c) /\ Placer[c] \in ready
    <3>1. inbox' = [inbox EXCEPT ![Placer[c]] = Append(@, Frames("cancel", c))]
      BY <2>3 DEF HubCancels
    <3> QED
      BY <1>1, <2>1, <2>3, <3>1, Arriving
  <2>4. CASE HubNotices(c) \/ (HubCancels(c) /\ Placer[c] \notin ready)
    <3>1. inbox' = inbox
      BY <2>1, <2>4 DEF HubNotices, HubCancels, PhoneShape
    <3> QED
      BY <1>1, <3>1, Leaving DEF PhoneShape
  <2> QED
    BY <2>2, <2>3, <2>4
<1>3. PhoneShape'
  BY <1>1, <1>2 DEF PhoneShape, nativeVars, screenVars
<1>4. Handled'
  BY <1>1, <1>2, NothingNew DEF nativeVars, screenVars
<1>5. RingIsAnswerable' /\ (screen'.started => screen'.call # NoCall)
  BY <1>1 DEF RingIsAnswerable, nativeVars, screenVars, speechVars
<1> QED
  BY <1>2, <1>3, <1>4, <1>5
\* Connections come and go: a call nobody answered goes with its hub.
LEMMA ConnectionStep ==
  ASSUME PhoneInv, NEW h \in Hubs, Disconnected(h) \/ HubReady(h)
  PROVE  PhoneInv'
<1> USE PhoneCallAssumption DEF PhoneInv, PhoneCallAssumption
<1>1. /\ ready' = ready \ {h} \/ ready' = ready \cup {h}
      /\ DropsStranded(ready') /\ rung' = Declined(HeardBy(declines, ready'))
      /\ UNCHANGED <<taps, launch, answered, screen, speechVars>>
  BY DEF Disconnected, HubReady, FlushDeclines
<1>2. /\ inbox' \in [Hubs -> Seq(Message)]
      /\ \A k \in Hubs : inbox'[k] = <<>> \/ (inbox'[k] = inbox[k] /\ (k \in ready => k \in ready'))
  <2>1. inbox \in [Hubs -> Seq(Message)] /\ <<>> \in Seq(Message)
    BY DEF PhoneShape
  <2>2. CASE Disconnected(h)
    <3>1. inbox' = [inbox EXCEPT ![h] = <<>>] /\ ready' = ready \ {h}
      BY <2>2 DEF Disconnected
    <3> QED
      BY <2>1, <3>1
  <2>3. CASE HubReady(h)
    <3>1. inbox' = inbox /\ ready' = ready \cup {h}
      BY <2>3 DEF HubReady
    <3> QED
      BY <2>1, <3>1
  <2> QED
    BY <2>2, <2>3
<1>3. rung' \in [Calls -> {"no", "ringing", "answered", "over"}] /\ \A d \in Calls : rung[d] # "no" => rung'[d] # "no"
  BY <1>1, Hubward
<1>4. Inboxes' /\ \A d \in Calls : Known(d) => Known(d)'
  BY <1>2, <1>3, Leaving
<1>5. /\ notes' \in SUBSET notes /\ ringing' \in {ringing, NoCall} /\ active' \in {active, NoCall}
  BY <1>1 DEF DropsStranded, DismissCall, StopsRinging
<1>6. PhoneShape'
  BY <1>1, <1>2, <1>3, <1>5 DEF PhoneShape
<1>7. Handled'
  BY <1>1, <1>4, <1>5, NothingNew
<1>8. ASSUME ringing' # NoCall PROVE active' = ringing' /\ Placer[ringing'] \in ready'
  <2>1. ringing' = ringing /\ active = ringing /\ Placer[ringing] \in ready
    BY <1>5, <1>8 DEF RingIsAnswerable
  <2>2. active # answered
    BY <1>8, <2>1 DEF Handled, Past, PhoneShape
  <2>3. ~Stranded(ready')
    BY <1>1, <1>8, <2>1 DEF DropsStranded, DismissCall, StopsRinging
  <2> QED
    BY <1>1, <1>8, <2>1, <2>2, <2>3 DEF DropsStranded, Stranded
<1>9. (screen.started) = FALSE \/ screen.call # NoCall
  OBVIOUS
<1>10. RingIsAnswerable' /\ (screen'.started => screen'.call # NoCall)
  BY <1>1, <1>5, <1>8, <1>9 DEF RingIsAnswerable, speechVars
<1> QED
  BY <1>4, <1>6, <1>7, <1>10

LEMMA GetsCallStep ==
  ASSUME PhoneInv, NEW h \in Hubs, GetsCall(h)
  PROVE  PhoneInv'
<1> USE PhoneCallAssumption DEF PhoneInv, PhoneCallAssumption
<1> DEFINE c == Head(inbox[h]).call
<1>1. /\ inbox[h] # <<>> /\ Head(inbox[h]).frame = "call" /\ inbox' = [inbox EXCEPT ![h] = Tail(@)]
      /\ active' = c /\ notes' = notes \cup {c} /\ ringing' = c
      /\ UNCHANGED <<rung, ready, taps, launch, answered, screen, speechVars>>
  BY DEF GetsCall, ShowsIncomingCall, Posts, Rings
<1>2. /\ inbox' \in [Hubs -> Seq(Message)] /\ Inboxes' /\ \A d \in Calls : Known(d) => Known(d)'
      /\ Head(inbox[h]) \in Message /\ Placer[c] = h /\ h \in ready
      /\ \A d \in Calls : Head(inbox[h]) = Frames("call", d) => Known(d)'
  BY <1>1, Taking
<1>3. c \in Calls /\ Head(inbox[h]) = Frames("call", c)
  BY <1>1, <1>2 DEF Message, Frames
<1>4. ~Known(c)
  <2>1. inbox[h] \in Seq(Message) /\ inbox[h] # <<>>
    BY <1>1 DEF PhoneShape
  <2>2. 1 \in DOMAIN inbox[h] /\ inbox[h][1] = Head(inbox[h]) /\ 1 \in Nat
    BY <2>1
  <2> QED
    BY <1>3, <2>2 DEF Known, Announces
<1>5. PICK d : d = c
  OBVIOUS
<1>6. d \in Calls /\ ~Known(d) /\ Known(d)'
  BY <1>2, <1>3, <1>4, <1>5
<1>7. active' = d /\ notes' = notes \cup {d} /\ ringing' = d
  BY <1>1, <1>5
<1>8. Placer[d] \in ready'
  BY <1>1, <1>2, <1>5
<1> HIDE DEF c
<1>9. PhoneShape'
  BY <1>1, <1>2, <1>6, <1>7 DEF PhoneShape
<1>10. \A b \in Calls : Past(b) => Past(b)'
  BY <1>2, <1>6, <1>7 DEF Past
<1>11. Handled'
  <2>1. /\ notes \subseteq Calls /\ {active, screen.call, launch, answered} \subseteq Calls \cup {NoCall}
        /\ \A n \in DOMAIN taps : taps[n].call \in Calls
    BY TapElements DEF PhoneShape
  <2> QED
    BY <1>1, <1>2, <1>6, <1>7, <1>10, <2>1 DEF Handled
<1>12. active' # screen.call
  BY <1>6, <1>7 DEF Handled, PhoneShape
<1>13. RingIsAnswerable' /\ (screen'.started => screen'.call # NoCall)
  BY <1>1, <1>7, <1>8, <1>12 DEF RingIsAnswerable
<1> QED
  BY <1>2, <1>9, <1>11, <1>13

\* A step of the phone alone, after which less rings, is shown and is remembered than before.
\* What is on screen goes only together with its ring, and the answered call keeps its speech.
LEMMA Quieter ==
  ASSUME PhoneInv, UNCHANGED ready, inbox' \in [Hubs -> Seq(Message)],
         Inboxes', \A d \in Calls : Known(d) => Known(d)',
         rung' \in [Calls -> {"no", "ringing", "answered", "over"}],
         notes' \in SUBSET notes, ringing' \in {ringing, NoCall},
         active' \in {active, NoCall}, active' # active => ringing' # active,
         taps' = taps \/ taps' = <<>>,
         launch' \in {launch, NoCall}, answered' \in {answered, launch, NoCall},
         UNCHANGED screen,
         (screen.started) = TRUE /\ active' = screen.call =>
            screen.call \in asked' \cup settled' \cup {speaking'}
  PROVE  PhoneInv'
<1> USE PhoneCallAssumption DEF PhoneInv, PhoneCallAssumption
<1>1. PhoneShape'
  <2>1. <<>> \in Seq(Touch)
    OBVIOUS
  <2> QED
    BY <2>1 DEF PhoneShape
<1>2. Handled'
  BY NothingNew
<1>3. ASSUME ringing' # NoCall PROVE active' = ringing' /\ Placer[ringing'] \in ready'
  BY <1>3 DEF RingIsAnswerable
<1>4. screen.started \in BOOLEAN
  BY DEF PhoneShape
<1>5. RingIsAnswerable' /\ (screen'.started => screen'.call # NoCall)
  BY <1>3, <1>4 DEF RingIsAnswerable
<1> QED
  BY <1>1, <1>2, <1>5
\* A screen that closes its call takes nothing else with it.
LEMMA Closing ==
  ASSUME PhoneShape, NEW c \in Calls, ClosesCall(c)
  PROVE  /\ notes' \in SUBSET notes /\ ringing' \in {ringing, NoCall}
         /\ active' \in {active, NoCall} /\ (active' # active => ringing' # active)
         /\ answered' \in {answered, launch, NoCall} /\ active' # c
BY PhoneCallAssumption DEF PhoneCallAssumption, ClosesCall, DismissCall, StopsRinging, PhoneShape

LEMMA ScreenStep ==
  ASSUME PhoneInv, PressDecline \/ HangUp \/ \E c \in Calls : Finished(c)
  PROVE  PhoneInv'
<1> USE PhoneCallAssumption DEF PhoneCallAssumption
<1>1. PICK c \in Calls :
        /\ ClosesCall(c) /\ UNCHANGED <<inbox, ready, taps, launch, screen, asked>>
        /\ (\E cs : rung' = Declined(cs)) \/ rung' = EndedAt(c)
        /\ screen.call = c \/ (UNCHANGED speaking /\ settled' = settled \ {c})
  <2>1. CASE PressDecline
    <3>1. screen.call \in Calls
      BY <2>1 DEF PressDecline, PhoneInv, PhoneShape
    <3> QED
      BY <2>1, <3>1 DEF PressDecline, DeclinesHub
  <2>2. CASE HangUp
    <3>1. screen.call \in Calls
      BY <2>2 DEF HangUp, PhoneInv, PhoneShape
    <3> QED
      BY <2>2, <3>1 DEF HangUp
  <2>3. CASE \E c \in Calls : Finished(c)
    BY <2>3 DEF Finished
  <2> QED
    BY <2>1, <2>2, <2>3
<1>2. /\ rung' \in [Calls -> {"no", "ringing", "answered", "over"}]
      /\ \A d \in Calls : rung[d] # "no" => rung'[d] # "no"
  BY <1>1, Hubward DEF PhoneInv
<1>3. inbox' \in [Hubs -> Seq(Message)] /\ Inboxes' /\ \A d \in Calls : Known(d) => Known(d)'
  BY <1>1, <1>2, Leaving DEF PhoneInv, PhoneShape
<1>4. /\ notes' \in SUBSET notes /\ ringing' \in {ringing, NoCall}
      /\ active' \in {active, NoCall} /\ (active' # active => ringing' # active)
      /\ answered' \in {answered, launch, NoCall} /\ active' # c
  BY <1>1, Closing DEF PhoneInv
<1>5. ASSUME (screen.started) = TRUE, active' = screen.call
      PROVE  screen.call \in asked' \cup settled' \cup {speaking'}
  <2>1. screen.call # NoCall /\ screen.call # c /\ active = screen.call
    BY <1>4, <1>5, Started
  <2> QED
    BY <1>1, <1>5, <2>1, Started
<1>6. UNCHANGED ready /\ UNCHANGED screen /\ taps' = taps /\ launch' = launch
  BY <1>1
<1>7. (screen.started) = TRUE /\ active' = screen.call => screen.call \in asked' \cup settled' \cup {speaking'}
  BY <1>5
<1> QED
  BY <1>2, <1>3, <1>4, <1>6, <1>7, Quieter

\* What changes nothing but the ring, a refusal, a frame or what was opened
LEMMA PlainStep ==
  ASSUME PhoneInv,
         \/ StartJs \/ RingerStops \/ Foreground \/ SpeechEnds
         \/ \E c \in Calls : DeclineExpires(c) \/ Speaks(c)
  PROVE  PhoneInv'
<1>1. /\ UNCHANGED <<rung, inbox, ready, notes, taps, active, screen>>
      /\ ringing' \in {ringing, NoCall} /\ launch' \in {launch, NoCall} /\ answered' \in {answered, launch}
      /\ asked \cup settled \cup ({speaking} \ {NoCall}) \subseteq asked' \cup settled' \cup {speaking'}
  BY DEF StartJs, RingerStops, Foreground, TakesLaunch, SpeechEnds, StopsSpeaking, DeclineExpires, Speaks,
         nativeVars, speechVars, screenVars
<1>2. inbox' \in [Hubs -> Seq(Message)] /\ Inboxes' /\ \A d \in Calls : Known(d) => Known(d)'
  BY <1>1, Leaving DEF PhoneInv, PhoneShape
<1>3. rung' \in [Calls -> {"no", "ringing", "answered", "over"}]
  BY <1>1 DEF PhoneInv, PhoneShape
<1>4. (screen.started) = TRUE /\ active' = screen.call => screen.call \in asked' \cup settled' \cup {speaking'}
  BY <1>1 DEF PhoneInv, RingIsAnswerable
<1> QED
  BY <1>1, <1>2, <1>3, <1>4, Quieter

LEMMA GetsCancelStep ==
  ASSUME PhoneInv, NEW h \in Hubs, GetsCancel(h)
  PROVE  PhoneInv'
<1> USE PhoneCallAssumption DEF PhoneCallAssumption
<1> DEFINE c == Head(inbox[h]).call
<1>1. /\ inbox[h] # <<>> /\ inbox' = [inbox EXCEPT ![h] = Tail(@)] /\ DismissCall(c) /\ Forgets(c)
      /\ UNCHANGED <<rung, ready, taps, launch, screen, speechVars>>
  BY DEF GetsCancel
<1>2. /\ inbox' \in [Hubs -> Seq(Message)] /\ Inboxes' /\ \A d \in Calls : Known(d) => Known(d)'
      /\ Head(inbox[h]) \in Message
  BY <1>1, Taking DEF PhoneInv
<1>3. c \in Calls
  BY <1>2 DEF Message
<1> HIDE DEF c
<1>4. /\ notes' \in SUBSET notes /\ ringing' \in {ringing, NoCall}
      /\ active' \in {active, NoCall} /\ (active' # active => ringing' # active)
      /\ answered' \in {answered, launch, NoCall}
  BY <1>1, <1>3 DEF DismissCall, StopsRinging, Forgets, PhoneInv, PhoneShape
<1>5. (screen.started) = TRUE /\ active' = screen.call => screen.call \in asked' \cup settled' \cup {speaking'}
  BY <1>1, <1>4, Started DEF speechVars
<1>6. rung' \in [Calls -> {"no", "ringing", "answered", "over"}]
  BY <1>1 DEF PhoneInv, PhoneShape
<1>7. UNCHANGED ready /\ UNCHANGED screen /\ taps' = taps /\ launch' = launch
  BY <1>1
<1> QED
  BY <1>2, <1>4, <1>5, <1>6, <1>7, Quieter

LEMMA DrainStep == PhoneInv /\ Drain => PhoneInv'
<1> SUFFICES ASSUME PhoneInv, Drain PROVE PhoneInv'
  OBVIOUS
<1> USE PhoneCallAssumption DEF PhoneCallAssumption
<1>1. PICK mine \in SUBSET Tapped("decline") :
        /\ mine \subseteq {active} /\ \E cs : rung' = Declined(cs)
        /\ active' = IF mine = {} THEN active ELSE NoCall
  BY DEF Drain
<1>2. /\ taps' = <<>> /\ answered' = IF Tapped("answer") = {} THEN answered ELSE LastAnswered
      /\ UNCHANGED <<inbox, ready, notes, ringing, launch, screen, speechVars>>
  BY DEF Drain, TakesTaps
<1>3. /\ rung' \in [Calls -> {"no", "ringing", "answered", "over"}]
      /\ \A d \in Calls : rung[d] # "no" => rung'[d] # "no"
  BY <1>1, Hubward DEF PhoneInv
<1>4. inbox' \in [Hubs -> Seq(Message)] /\ Inboxes' /\ \A d \in Calls : Known(d) => Known(d)'
  BY <1>2, <1>3, Leaving DEF PhoneInv, PhoneShape
<1>5. answered' \in Calls \cup {NoCall} /\ (answered' # NoCall => Past(answered'))
  <2>1. CASE Tapped("answer") = {}
    BY <1>2, <2>1 DEF PhoneInv, PhoneShape, Handled
  <2>2. CASE Tapped("answer") # {}
    <3>1. PICK n \in DOMAIN taps : LastAnswered = taps[n].call
      BY <2>2, AnswerTapped DEF PhoneInv
    <3> QED
      BY <1>2, <2>2, <3>1, TapElements DEF PhoneInv, Handled
  <2> QED
    BY <2>1, <2>2
<1>6. ASSUME active' # active PROVE ringing # active
  <2>1. active \in Tapped("decline")
    BY <1>1, <1>6
  <2>2. PICK n \in DOMAIN taps : active = taps[n].call
    BY <2>1 DEF Tapped
  <2> QED
    BY <2>2 DEF PhoneInv, Handled, Past
<1>7. active' \in {active, NoCall}
  BY <1>1
<1>8. PhoneShape'
  <2>1. <<>> \in Seq(Touch)
    OBVIOUS
  <2> QED
    BY <1>2, <1>3, <1>4, <1>5, <1>7, <2>1 DEF PhoneInv, PhoneShape
<1>9. Handled'
  <2>1. \A c \in Calls : Past(c) => Past(c)'
    BY <1>2, <1>4 DEF Past
  <2>2. /\ notes \subseteq Calls /\ {active, screen.call, launch} \subseteq Calls \cup {NoCall}
    BY DEF PhoneInv, PhoneShape
  <2>3. \A c \in notes' \cup ({active', screen'.call} \ {NoCall}) : Known(c)'
    BY <1>2, <1>4, <1>7, <2>2 DEF PhoneInv, Handled
  <2>4. PICK a : a = answered'
    OBVIOUS
  <2>5. \A c \in {answered', launch'} \ {NoCall} : Past(c)'
    BY <1>2, <1>5, <2>1, <2>2, <2>4 DEF PhoneInv, Handled
  <2> QED
    BY <1>2, <2>3, <2>5, HandledNext
<1>10. RingIsAnswerable' /\ (screen'.started => screen'.call # NoCall)
  BY <1>2, <1>6, <1>7 DEF PhoneInv, RingIsAnswerable, speechVars
<1> QED
  BY <1>4, <1>8, <1>9, <1>10 DEF PhoneInv
LEMMA TapStep ==
  ASSUME PhoneInv, NEW action \in {"answer", "decline"}, NEW c \in Calls, TapNotification(action, c)
  PROVE  PhoneInv'
<1> USE PhoneCallAssumption DEF PhoneCallAssumption
<1>1. /\ c \in notes /\ DismissCall(c) /\ taps' = Queued(Tap(action, c)) /\ launch' \in {launch, c}
      /\ UNCHANGED <<rung, inbox, ready, screenVars, speechVars>>
  BY DEF TapNotification, Launches
<1>2. inbox' \in [Hubs -> Seq(Message)] /\ Inboxes' /\ \A d \in Calls : Known(d) => Known(d)'
  BY <1>1, Leaving DEF PhoneInv, PhoneShape
<1>3. notes' \in SUBSET notes /\ ringing' \in {ringing, NoCall} /\ ringing' # c
  BY <1>1 DEF DismissCall, StopsRinging
<1>4. Tap(action, c) \in Touch /\ Tap(action, c).call = c
  BY DEF Tap, Touch
<1>5. /\ taps' \in Seq(Touch)
      /\ \A n \in DOMAIN taps' : taps'[n] = Tap(action, c) \/ \E m \in DOMAIN taps : taps'[n] = taps[m]
  BY <1>1, <1>4, Queueing DEF PhoneInv
<1>6. PhoneShape'
  BY <1>1, <1>2, <1>3, <1>5 DEF PhoneInv, PhoneShape, screenVars
<1>7. Past(c)' /\ \A d \in Calls : Past(d) => Past(d)'
  BY <1>1, <1>2, <1>3 DEF PhoneInv, Handled, Past
<1>8. Handled'
  <2>1. notes \subseteq Calls /\ {active, screen.call, launch, answered} \subseteq Calls \cup {NoCall}
    BY DEF PhoneInv, PhoneShape
  <2>2. \A d \in notes' \cup ({active', screen'.call} \ {NoCall}) : Known(d)'
    BY <1>1, <1>2, <1>3, <2>1 DEF PhoneInv, Handled, screenVars
  <2>3. ASSUME NEW n \in DOMAIN taps' PROVE \E d \in Calls : taps'[n].call = d /\ Past(d)'
    <3>1. CASE taps'[n] = Tap(action, c)
      BY <1>4, <1>7, <3>1
    <3>2. CASE \E m \in DOMAIN taps : taps'[n] = taps[m]
      <4>1. PICK m \in DOMAIN taps : taps'[n] = taps[m]
        BY <3>2
      <4>2. taps[m].call \in Calls /\ Past(taps[m].call)
        BY TapElements DEF PhoneInv, Handled
      <4> QED
        BY <1>7, <4>1, <4>2
    <3> QED
      BY <1>5, <3>1, <3>2
  <2>4. \A d \in {answered', launch'} \ {NoCall} : Past(d)'
    BY <1>1, <1>7, <2>1 DEF PhoneInv, Handled, screenVars
  <2> QED
    BY <2>2, <2>3, <2>4, HandledNext
<1>9. RingIsAnswerable' /\ (screen'.started => screen'.call # NoCall)
  BY <1>1, <1>3 DEF PhoneInv, RingIsAnswerable, screenVars, speechVars
<1> QED
  BY <1>2, <1>6, <1>8, <1>9 DEF PhoneInv

LEMMA JsEndsStep ==
  ASSUME PhoneInv, NEW dies \in BOOLEAN, JsEnds(dies)
  PROVE  PhoneInv'
<1> USE PhoneCallAssumption DEF PhoneCallAssumption
<1>1. /\ ready' = {} /\ inbox' = [h \in Hubs |-> <<>>] /\ UNCHANGED <<rung, notes>>
      /\ active' = NoCall /\ answered' = NoCall /\ screen' = NoScreen /\ ringing' = NoCall
      /\ taps' \in {taps, <<>>} /\ launch' \in {launch, NoCall}
  BY DEF JsEnds, ForgetsHubs, ShutsDown
<1>2. NoScreen \in [call : Calls \cup {NoCall}, started : BOOLEAN] /\ NoScreen.call = NoCall
      /\ (NoScreen.started) = FALSE
  BY DEF NoScreen
<1>3. <<>> \in Seq(Message) /\ <<>> \in Seq(Touch)
  OBVIOUS
<1>4. Inboxes' /\ \A d \in Calls : Known(d) => Known(d)'
  BY <1>1, <1>3, Leaving DEF PhoneInv
<1>5. PhoneShape'
  BY <1>1, <1>2, <1>3 DEF PhoneInv, PhoneShape
<1>6. Handled'
  BY <1>1, <1>2, <1>4, NothingNew DEF PhoneInv
<1> QED
  BY <1>1, <1>2, <1>4, <1>5, <1>6 DEF PhoneInv, RingIsAnswerable

LEMMA RenderStep == PhoneInv /\ Render => PhoneInv'
<1> SUFFICES ASSUME PhoneInv, Render PROVE PhoneInv'
  OBVIOUS
<1> USE PhoneCallAssumption DEF PhoneCallAssumption
<1> DEFINE next == [call |-> active, started |-> FALSE]
<1>1. /\ screen.call # active /\ screen' = next /\ ringing' \in {ringing, NoCall}
      /\ ringing = active => ringing' = ringing
      /\ UNCHANGED <<rung, inbox, ready, notes, taps, launch, active, answered>>
  BY DEF Render, StopsRinging
<1>2. next.call = active /\ (next.started) = FALSE
      /\ (active \in Calls \cup {NoCall} => next \in [call : Calls \cup {NoCall}, started : BOOLEAN])
  OBVIOUS
<1> HIDE DEF next
<1>3. inbox' \in [Hubs -> Seq(Message)] /\ Inboxes' /\ \A d \in Calls : Known(d) => Known(d)'
  BY <1>1, Leaving DEF PhoneInv, PhoneShape
<1>4. PhoneShape'
  BY <1>1, <1>2, <1>3 DEF PhoneInv, PhoneShape
<1>5. Handled'
  BY <1>1, <1>2, <1>3, NothingNew DEF PhoneInv
<1> QED
  BY <1>1, <1>2, <1>3, <1>4, <1>5 DEF PhoneInv, RingIsAnswerable

LEMMA AnswersStep ==
  ASSUME PhoneInv, NEW speech \in BOOLEAN, Answers(speech)
  PROVE  PhoneInv'
<1> USE PhoneCallAssumption DEF PhoneCallAssumption
<1> DEFINE c == screen.call
           next == [screen EXCEPT !.started = TRUE]
<1>1. c \in Calls /\ Known(c)
  BY DEF Answers, PhoneInv, PhoneShape, Handled
<1>2. next.call = screen.call /\ next \in [call : Calls \cup {NoCall}, started : BOOLEAN]
  BY DEF PhoneInv, PhoneShape
<1>3. screen' = next /\ UNCHANGED <<inbox, ready, taps, launch>>
  BY DEF Answers
<1>4. /\ rung' \in [Calls -> {"no", "ringing", "answered", "over"}]
      /\ \A d \in Calls : rung[d] # "no" => rung'[d] # "no"
  BY DEF Answers, AnswersHub, PhoneInv, PhoneShape
<1>5. inbox' \in [Hubs -> Seq(Message)] /\ Inboxes' /\ \A d \in Calls : Known(d) => Known(d)'
  BY <1>3, <1>4, Leaving DEF PhoneInv, PhoneShape
<1>6. /\ notes' \in SUBSET notes /\ ringing' \in {ringing, NoCall}
      /\ active' \in {active, NoCall} /\ (active' # active => ringing' # active)
      /\ \/ answered' \in {answered, launch, NoCall}
         \/ answered' = c /\ ringing' # c
      /\ active' = c => c \in asked'
  <2>1. CASE speech
    BY <1>1, <2>1 DEF Answers, DismissCall, StopsRinging, MarksAnswered, AsksToSpeak
  <2>2. CASE ~speech
    BY <1>1, <2>2, Closing DEF Answers, PhoneInv
  <2> QED
    BY <2>1, <2>2
<1>7. PICK d \in Calls : d = c
  BY <1>1
<1> HIDE DEF next
<1>8. screen'.call = d
  BY <1>2, <1>3, <1>7
<1>9. PhoneShape'
  <2>1. taps' = taps /\ launch' = launch /\ ready' = ready /\ screen' = next
    BY <1>3
  <2>2. answered' \in Calls \cup {NoCall}
    BY <1>1, <1>6 DEF PhoneInv, PhoneShape
  <2>3. /\ notes' \in SUBSET Calls /\ ringing' \in Calls \cup {NoCall} /\ active' \in Calls \cup {NoCall}
    BY <1>6 DEF PhoneInv, PhoneShape
  <2> QED
    BY <1>2, <1>4, <1>5, <2>1, <2>2, <2>3 DEF PhoneInv, PhoneShape
<1>10. Handled'
  <2>1. Past(d)' \/ answered' # d
    BY <1>1, <1>5, <1>6, <1>7 DEF PhoneInv, PhoneShape, Handled, Past
  <2>2. \A b \in Calls : Past(b) => Past(b)'
    BY <1>5, <1>6 DEF Past
  <2>3. /\ notes \subseteq Calls /\ {active, screen.call, launch, answered} \subseteq Calls \cup {NoCall}
        /\ \A n \in DOMAIN taps : taps[n].call \in Calls
    BY TapElements DEF PhoneInv, PhoneShape
  <2>4. \A b \in notes' \cup ({active', screen'.call} \ {NoCall}) : Known(b)'
    BY <1>1, <1>5, <1>6, <1>7, <1>8, <2>3 DEF PhoneInv, Handled
  <2>5. \A n \in DOMAIN taps' : \E b \in Calls : taps'[n].call = b /\ Past(b)'
    BY <1>3, <2>2, <2>3 DEF PhoneInv, Handled
  <2>6. \A b \in {answered', launch'} \ {NoCall} : Past(b)'
    BY <1>3, <1>6, <1>7, <2>1, <2>2, <2>3 DEF PhoneInv, Handled
  <2> QED
    BY <2>4, <2>5, <2>6, HandledNext
<1>11. RingIsAnswerable' /\ (screen'.started => screen'.call # NoCall)
  BY <1>1, <1>3, <1>6, <1>7, <1>8 DEF PhoneInv, RingIsAnswerable
<1> QED
  BY <1>5, <1>9, <1>10, <1>11 DEF PhoneInv

LEMMA PhoneStepKeeps == PhoneInv /\ [PhoneCallNext]_phoneCallVars => PhoneInv'
<1> SUFFICES ASSUME PhoneInv, [PhoneCallNext]_phoneCallVars PROVE PhoneInv'
  OBVIOUS
<1>1. CASE UNCHANGED phoneCallVars
  BY <1>1 DEF phoneCallVars, nativeVars, screenVars, speechVars, PhoneInv, PhoneShape, Inboxes, Connected,
     Placed, Once, Announces, Handled, Known, Past, RingIsAnswerable
<1>2. CASE PhoneCallNext
  BY <1>2, HubStep, ConnectionStep, GetsCallStep, GetsCancelStep, PlainStep, ScreenStep, DrainStep, TapStep,
     JsEndsStep, RenderStep, AnswersStep DEF PhoneCallNext
<1> QED
  BY <1>1, <1>2

\* A phone rings only for the call on screen, whose hub is connected, and an answered call always has
\* speech to end it (CallRinger, CallSpeaker and their two callers in hub.ts and CallScreen.tsx).
THEOREM RingsCanBeAnswered == PhoneCallSpec => []RingIsAnswerable
<1>1. PhoneInv => RingIsAnswerable
  BY DEF PhoneInv
<1> QED
  BY <1>1, PhoneStarts, PhoneStepKeeps, PTL DEF PhoneCallSpec
-----------------------------------------------------------------------------
(* Refusals.  One is queued in Kotlin under a call that is tapped once, or held in JavaScript   *)
(* with the hubs that were told, and what its own hub was told it has acted on.                 *)

DeclineInv ==
  /\ refused \in SUBSET Calls /\ \A c \in refused : rung[c] # "no"
  /\ DOMAIN declines \subseteq Calls
  /\ \A c \in DOMAIN declines : rung[c] # "no" /\ (Placer[c] \in declines[c] => rung[c] # "ringing")
  /\ \A m, n \in DOMAIN taps : taps[m].call = taps[n].call => m = n
  /\ \A n \in DOMAIN taps : taps[n].call \notin notes
  /\ DeclineIsHeard

\* A call only goes on: what was placed stays placed, and none rings again.
Onward == \A c \in Calls : rung[c] # "no" => rung'[c] # "no" /\ (rung'[c] = "ringing" => rung[c] = "ringing")

LEMMA DeclinesStart == PhoneCallInit => DeclineInv
BY DEF PhoneCallInit, DeclineInv, DeclineIsHeard

LEMMA CallsGoOn == ASSUME PhoneShape, PhoneCallNext PROVE Onward
<1> USE DEF Onward, PhoneShape
<1>1. ASSUME NEW c \in Calls, HubRings(c) \/ HubCancels(c) \/ HubNotices(c) PROVE Onward
  BY <1>1 DEF HubRings, HubCancels, HubNotices
<1>2. ASSUME NEW cs, rung' = Declined(cs) PROVE Onward
  BY <1>2 DEF Declined
<1>3. ASSUME NEW c, rung' = EndedAt(c) PROVE Onward
  BY <1>3 DEF EndedAt
<1>4. ASSUME NEW h \in Hubs, Disconnected(h) \/ HubReady(h) PROVE Onward
  BY <1>2, <1>4 DEF Disconnected, HubReady, FlushDeclines
<1>5. ASSUME Drain \/ PressDecline PROVE Onward
  BY <1>2, <1>5 DEF Drain, PressDecline, DeclinesHub
<1>6. ASSUME HangUp \/ \E c \in Calls : Finished(c) PROVE Onward
  BY <1>3, <1>6 DEF HangUp, Finished
<1>7. ASSUME NEW b \in BOOLEAN, Answers(b) PROVE Onward
  BY <1>7 DEF Answers, AnswersHub
<1>8. ASSUME UNCHANGED rung PROVE Onward
  BY <1>8
<1>9. ASSUME \/ Foreground \/ StartJs \/ RingerStops \/ Render \/ SpeechEnds \/ \E b \in BOOLEAN : JsEnds(b)
             \/ \E c \in Calls : DeclineExpires(c) \/ Speaks(c) \/ TapNotification("answer", c) \/ TapNotification("decline", c)
             \/ \E h \in Hubs : GetsCall(h) \/ GetsCancel(h)
      PROVE  Onward
  BY <1>8, <1>9 DEF Foreground, StartJs, RingerStops, Render, SpeechEnds, JsEnds, DeclineExpires, Speaks,
     TapNotification, GetsCall, GetsCancel
<1> HIDE DEF Onward, PhoneShape
<1> QED
  BY <1>1, <1>4, <1>5, <1>6, <1>7, <1>9 DEF PhoneCallNext

\* Nothing is refused, tapped, shown or told that was not.
LEMMA RefusalsStay ==
  ASSUME DeclineInv, Onward, UNCHANGED <<taps, declines>>, notes' \in SUBSET notes, refused' \in SUBSET refused
  PROVE  DeclineInv'
<1>1. \A c \in Calls : c \in Tapped("decline")' <=> c \in Tapped("decline")
  BY DEF Tapped
<1>2. DeclineIsHeard'
  BY <1>1 DEF DeclineInv, DeclineIsHeard, Onward
<1> QED
  BY <1>2 DEF DeclineInv, Onward

\* flushDeclines(): whichever hub is told acts on it, and what is forgotten has been acted on.
LEMMA Flushed ==
  ASSUME Onward, NEW up \in SUBSET Hubs, NEW ds, DOMAIN ds \subseteq Calls, NEW cs,
         \A c \in DOMAIN ds : rung[c] # "no" /\ (Placer[c] \in ds[c] => rung[c] # "ringing"),
         HeardBy(ds, up) \subseteq cs, rung \in [Calls -> {"no", "ringing", "answered", "over"}],
         rung' = Declined(cs), declines' = Flush(ds, up)
  PROVE  /\ DOMAIN declines' \subseteq DOMAIN ds
         /\ \A c \in DOMAIN declines' : rung'[c] # "no" /\ (Placer[c] \in declines'[c] => rung'[c] # "ringing")
         /\ \A c \in DOMAIN ds : rung'[c] = "ringing" => c \in DOMAIN declines'
<1> USE PhoneCallAssumption DEF PhoneCallAssumption
<1>1. \A c \in DOMAIN ds : Placer[c] \in up => rung'[c] # "ringing"
  BY DEF Declined, HeardBy
<1>2. \A c \in DOMAIN ds : Placer[c] \in ds[c] \cup up => rung'[c] # "ringing"
  BY <1>1 DEF Onward
<1>3. \A c \in DOMAIN ds : Placer[c] \in Hubs
  OBVIOUS
<1>4. /\ DOMAIN declines' = {d \in DOMAIN ds : ~(Hubs \subseteq ds[d] \cup up)}
      /\ \A c \in DOMAIN declines' : declines'[c] = ds[c] \cup up
  BY DEF Flush
<1>5. \A c \in DOMAIN ds : rung'[c] = "ringing" => c \in DOMAIN declines'
  BY <1>2, <1>3, <1>4
<1> QED
  BY <1>2, <1>4, <1>5 DEF Onward

LEMMA ConnectionDeclines ==
  ASSUME PhoneInv, DeclineInv, Onward, NEW h \in Hubs, Disconnected(h) \/ HubReady(h)
  PROVE  DeclineInv'
<1>1. /\ ready' \in SUBSET Hubs /\ rung' = Declined(HeardBy(declines, ready')) /\ declines' = Flush(declines, ready')
      /\ UNCHANGED <<taps, refused>> /\ notes' \in SUBSET notes
  BY DEF Disconnected, HubReady, FlushDeclines, DropsStranded, DismissCall, PhoneInv, PhoneShape
<1>2. /\ DOMAIN declines' \subseteq Calls
      /\ \A c \in DOMAIN declines' : rung'[c] # "no" /\ (Placer[c] \in declines'[c] => rung'[c] # "ringing")
      /\ \A c \in DOMAIN declines : rung'[c] = "ringing" => c \in DOMAIN declines'
  BY <1>1, Flushed DEF DeclineInv, PhoneInv, PhoneShape
<1>3. Tapped("decline")' = Tapped("decline")
  BY <1>1 DEF Tapped
<1>4. DeclineIsHeard'
  BY <1>1, <1>2, <1>3 DEF DeclineInv, DeclineIsHeard, Onward
<1> QED
  BY <1>1, <1>2, <1>4 DEF DeclineInv, Onward

LEMMA DrainDeclines ==
  ASSUME PhoneInv, DeclineInv, Onward, Drain
  PROVE  DeclineInv'
<1> DEFINE mine == Tapped("decline") \cap {active}
           ds == Held(Tapped("decline") \ mine)
           cs == HeardBy(ds, ready) \cup (mine \cap Told)
<1>1. /\ rung' = Declined(cs) /\ declines' = Flush(ds, ready) /\ refused' = refused \ (mine \ Told)
      /\ taps' = <<>> /\ notes' = notes
  BY DEF Drain, TakesTaps
<1>2. \A c \in Tapped("decline") : c \in Calls /\ rung[c] # "no"
  <2> SUFFICES ASSUME NEW n \in DOMAIN taps PROVE taps[n].call \in Calls /\ rung[taps[n].call] # "no"
    BY DEF Tapped
  <2> QED
    BY TapElements DEF PhoneInv, Handled, Past, Known
<1>3. /\ DOMAIN ds = DOMAIN declines \cup (Tapped("decline") \ mine)
      /\ \A c \in DOMAIN ds : ds[c] = IF c \in DOMAIN declines THEN declines[c] ELSE {}
  BY DEF Held
<1>4. /\ DOMAIN ds \subseteq Calls
      /\ \A c \in DOMAIN ds : rung[c] # "no" /\ (Placer[c] \in ds[c] => rung[c] # "ringing")
  BY <1>2, <1>3 DEF DeclineInv
<1> HIDE DEF ds
<1>5. HeardBy(ds, ready) \subseteq cs /\ ready \in SUBSET Hubs /\ rung \in [Calls -> {"no", "ringing", "answered", "over"}]
  BY DEF PhoneInv, PhoneShape
<1>6. /\ DOMAIN declines' \subseteq DOMAIN ds
      /\ \A c \in DOMAIN declines' : rung'[c] # "no" /\ (Placer[c] \in declines'[c] => rung'[c] # "ringing")
      /\ \A c \in DOMAIN ds : rung'[c] = "ringing" => c \in DOMAIN declines'
  <2> HIDE DEF cs
  <2> QED
    BY <1>1, <1>4, <1>5, Flushed
<1>7. \A c \in mine \cap Told : rung'[c] # "ringing"
  BY <1>1, <1>2 DEF Declined
<1>8. DeclineIsHeard'
  <2> SUFFICES ASSUME NEW c \in refused, c \notin mine \ Told, rung'[c] = "ringing" PROVE c \in DOMAIN declines'
    BY <1>1 DEF DeclineIsHeard
  <2>1. c \notin mine
    BY <1>7
  <2>2. c \in Tapped("decline") \/ c \in DOMAIN declines
    BY DEF DeclineInv, DeclineIsHeard, Onward
  <2> QED
    BY <1>3, <1>6, <2>1, <2>2
<1>9. refused' \in SUBSET Calls /\ \A c \in refused' : rung'[c] # "no"
  BY <1>1 DEF DeclineInv, Onward
<1>10. DOMAIN taps' = {}
  BY <1>1
<1> QED
  BY <1>4, <1>6, <1>8, <1>9, <1>10 DEF DeclineInv
\* A tap joins the queue, whose first one goes when it is full.
LEMMA TapDeclines ==
  ASSUME PhoneInv, DeclineInv, Onward, NEW c \in Calls, NEW action \in {"answer", "decline"},
         TapNotification(action, c)
  PROVE  DeclineInv'
<1> DEFINE q == IF Len(taps) >= TapLimit THEN Tail(taps) ELSE taps
           off == IF Len(taps) >= TapLimit THEN 1 ELSE 0
           t == Tap(action, c)
           dropped == Tapped("decline") \ {u.call : u \in {taps'[n] : n \in DOMAIN taps'}}
<1>1. /\ taps' = Append(q, t) /\ c \in notes /\ notes' = notes \ {c} /\ UNCHANGED <<rung, declines>>
      /\ refused' = (refused \ dropped) \cup (IF action = "decline" THEN {c} ELSE {})
  BY DEF TapNotification, Queued, DismissCall
<1>2. taps \in Seq(Touch) /\ Len(taps) \in Nat /\ DOMAIN taps = 1..Len(taps)
  BY DEF PhoneInv, PhoneShape
<1>3. /\ q \in Seq(Touch) /\ off \in Nat /\ Len(q) = Len(taps) - off
      /\ \A n \in 1..Len(q) : n + off \in DOMAIN taps /\ q[n] = taps[n + off]
  <2>1. CASE Len(taps) >= TapLimit
    <3>1. Len(taps) > 0 /\ taps # <<>>
      BY <1>2, <2>1, PhoneCallAssumption DEF PhoneCallAssumption
    <3> QED
      BY <1>2, <2>1, <3>1
  <2>2. CASE ~(Len(taps) >= TapLimit)
    BY <1>2, <2>2
  <2> QED
    BY <2>1, <2>2
<1>4. t.call = c /\ t.action = action
  BY DEF Tap
<1> HIDE DEF q, off, t
<1> DEFINE last == Len(q) + 1
<1>5. /\ last \in Nat \ {0} /\ DOMAIN taps' = 1..last /\ taps'[last] = t
      /\ \A n \in 1..last : n # last => n \in 1..Len(q) /\ taps'[n] = q[n]
  <2>1. Len(q) \in Nat
    BY <1>3
  <2>2. DOMAIN taps' = 1..last /\ taps'[last] = t
    BY <1>1, <1>3, <2>1
  <2>3. \A n \in 1..last : n # last => n \in 1..Len(q)
    BY <2>1
  <2>4. \A n \in 1..Len(q) : taps'[n] = q[n]
    BY <1>1, <1>3
  <2> QED
    BY <2>1, <2>2, <2>3, <2>4
<1>6. \A n \in DOMAIN taps' : n # last => n + off \in DOMAIN taps /\ taps'[n] = taps[n + off]
  BY <1>3, <1>5
<1> HIDE DEF last
<1>7. \A n \in DOMAIN taps : taps[n].call # c
  BY <1>1 DEF DeclineInv
<1>8. \A m, n \in DOMAIN taps' : taps'[m].call = taps'[n].call => m = n
  <2> SUFFICES ASSUME NEW m \in DOMAIN taps', NEW n \in DOMAIN taps', taps'[m].call = taps'[n].call PROVE m = n
    OBVIOUS
  <2>1. CASE m # last /\ n # last
    <3>1. m + off = n + off
      BY <1>6, <2>1 DEF DeclineInv
    <3> QED
      BY <1>3, <1>5, <3>1
  <2>2. CASE m = last \/ n = last
    BY <1>4, <1>5, <1>6, <1>7, <2>2
  <2> QED
    BY <2>1, <2>2
<1>9. \A n \in DOMAIN taps' : taps'[n].call \notin notes'
  BY <1>1, <1>4, <1>5, <1>6 DEF DeclineInv
<1>10. action = "decline" => c \in Tapped("decline")'
  <2>1. last \in DOMAIN taps' /\ taps'[last].call = c /\ taps'[last].action = action
    BY <1>4, <1>5
  <2> QED
    BY <2>1 DEF Tapped
<1>11. ASSUME NEW d \in Tapped("decline"), d \notin dropped PROVE d \in Tapped("decline")'
  <2>1. PICK n \in DOMAIN taps' : taps'[n].call = d
    BY <1>11
  <2>2. PICK m \in DOMAIN taps : taps[m].action = "decline" /\ taps[m].call = d
    BY <1>11 DEF Tapped
  <2>3. n # last
    BY <1>4, <1>5, <1>7, <2>1, <2>2
  <2>4. n + off = m
    BY <1>6, <2>1, <2>2, <2>3 DEF DeclineInv
  <2>5. taps'[n].action = "decline"
    BY <1>6, <2>2, <2>3, <2>4
  <2> QED
    BY <2>1, <2>5 DEF Tapped
<1>12. DeclineIsHeard'
  <2> SUFFICES ASSUME NEW d \in refused', rung'[d] = "ringing" PROVE d \in Tapped("decline")' \/ d \in DOMAIN declines'
    BY DEF DeclineIsHeard
  <2>1. CASE action = "decline" /\ d = c
    BY <1>10, <2>1
  <2>2. CASE ~(action = "decline" /\ d = c)
    BY <1>1, <1>11, <2>2 DEF DeclineInv, DeclineIsHeard
  <2> QED
    BY <2>1, <2>2
<1>13. refused' \in SUBSET Calls /\ \A d \in refused' : rung'[d] # "no"
  BY <1>1 DEF DeclineInv, PhoneInv, Handled, Known
<1> QED
  BY <1>1, <1>8, <1>9, <1>12, <1>13 DEF DeclineInv

LEMMA ShownDeclines ==
  ASSUME PhoneInv, DeclineInv, Onward, NEW h \in Hubs, GetsCall(h)
  PROVE  DeclineInv'
<1> DEFINE c == Head(inbox[h]).call
<1>1. inbox[h] \in Seq(Message) /\ inbox[h] # <<>> /\ Head(inbox[h]).frame = "call"
  BY DEF GetsCall, PhoneInv, PhoneShape
<1>2. 1 \in DOMAIN inbox[h] /\ inbox[h][1] = Head(inbox[h]) /\ inbox[h][1] \in Message
  BY <1>1
<1>3. Announces(h, 1, c)
  BY <1>1, <1>2 DEF Announces, Frames, Message
<1>4. notes' = notes \cup {c} /\ UNCHANGED <<rung, taps, declines, refused>>
  BY DEF GetsCall, ShowsIncomingCall, Posts
<1>5. \A n \in DOMAIN taps : taps[n].call # c
  BY <1>3 DEF PhoneInv, Handled, Past, Known
<1>6. DeclineIsHeard'
  BY <1>4 DEF DeclineInv, DeclineIsHeard, Tapped
<1> QED
  BY <1>4, <1>5, <1>6 DEF DeclineInv

LEMMA ExpiredDeclines ==
  ASSUME DeclineInv, Onward, NEW c \in Calls, DeclineExpires(c)
  PROVE  DeclineInv'
<1>1. /\ declines' = [d \in DOMAIN declines \ {c} |-> declines[d]] /\ refused' = refused \ {c}
      /\ UNCHANGED <<rung, taps, notes>>
  BY DEF DeclineExpires, nativeVars
<1>2. DeclineIsHeard'
  BY <1>1 DEF DeclineInv, DeclineIsHeard, Tapped
<1> QED
  BY <1>1, <1>2 DEF DeclineInv

LEMMA PressedDecline ==
  ASSUME PhoneInv, DeclineInv, Onward, PressDecline
  PROVE  DeclineInv'
<1> DEFINE told == {screen.call} \cap Told
<1>1. /\ rung' = Declined(told) /\ refused' = refused \cup told /\ UNCHANGED <<taps, declines>>
      /\ notes' \in SUBSET notes
  BY DEF PressDecline, DeclinesHub, ClosesCall, DismissCall, PhoneInv, PhoneShape
<1>2. \A c \in told : c \in Calls /\ rung[c] # "no" /\ rung'[c] # "ringing"
  BY <1>1, PhoneCallAssumption DEF PhoneCallAssumption, Told, Declined, PhoneInv, Handled, Known
<1>3. DeclineIsHeard'
  BY <1>1, <1>2 DEF DeclineInv, DeclineIsHeard, Onward, Tapped
<1> QED
  BY <1>1, <1>2, <1>3 DEF DeclineInv, Onward

LEMMA EndedDeclines ==
  ASSUME PhoneInv, DeclineInv, Onward, NEW dies \in BOOLEAN, JsEnds(dies)
  PROVE  DeclineInv'
<1>1. /\ DOMAIN declines' = {} /\ UNCHANGED <<rung, notes>>
      /\ \/ taps' = <<>> /\ refused' = {}
         \/ taps' = taps /\ refused' = Tapped("decline")
  BY DEF JsEnds, ForgetsHubs
<1>2. CASE taps' = <<>> /\ refused' = {}
  <2>1. DOMAIN taps' = {}
    BY <1>2
  <2> QED
    BY <1>1, <1>2, <2>1 DEF DeclineInv, DeclineIsHeard
<1>3. CASE taps' = taps /\ refused' = Tapped("decline")
  <2>1. \A n \in DOMAIN taps : taps[n].call \in Calls /\ rung[taps[n].call] # "no"
    BY TapElements DEF PhoneInv, Handled, Past, Known
  <2>2. refused' \in SUBSET Calls /\ \A c \in refused' : rung[c] # "no"
    BY <1>3, <2>1 DEF Tapped
  <2>3. refused' = Tapped("decline")'
    BY <1>3 DEF Tapped
  <2> QED
    BY <1>1, <1>3, <2>2, <2>3 DEF DeclineInv, DeclineIsHeard
<1> QED
  BY <1>1, <1>2, <1>3
LEMMA DeclineStepKeeps ==
  PhoneInv /\ DeclineInv /\ [PhoneCallNext]_phoneCallVars => DeclineInv'
<1> SUFFICES ASSUME PhoneInv, DeclineInv, [PhoneCallNext]_phoneCallVars PROVE DeclineInv'
  OBVIOUS
<1>1. CASE UNCHANGED phoneCallVars
  BY <1>1 DEF phoneCallVars, nativeVars, DeclineInv, DeclineIsHeard, Tapped
<1>2. CASE PhoneCallNext
  <2>1. Onward
    BY <1>2, CallsGoOn DEF PhoneInv
  <2>2. ASSUME UNCHANGED <<taps, declines>>, notes' \in SUBSET notes, refused' \in SUBSET refused PROVE DeclineInv'
    BY <2>1, <2>2, RefusalsStay
  <2>3. ASSUME \/ Foreground \/ StartJs \/ RingerStops \/ Render \/ HangUp \/ SpeechEnds
               \/ \E b \in BOOLEAN : Answers(b)
               \/ \E c \in Calls : HubRings(c) \/ HubCancels(c) \/ HubNotices(c) \/ Speaks(c) \/ Finished(c)
               \/ \E h \in Hubs : GetsCancel(h)
        PROVE  UNCHANGED <<taps, declines>> /\ notes' \in SUBSET notes /\ refused' \in SUBSET refused
    <3> USE DEF nativeVars
    <3>1. CASE Foreground \/ StartJs \/ RingerStops \/ Render \/ SpeechEnds
      BY <3>1 DEF Foreground, StartJs, RingerStops, Render, SpeechEnds
    <3>2. CASE HangUp
      BY <3>2 DEF HangUp, ClosesCall, DismissCall
    <3>3. ASSUME NEW b \in BOOLEAN, Answers(b)
          PROVE  UNCHANGED <<taps, declines>> /\ notes' \in SUBSET notes /\ refused' \in SUBSET refused
      BY <3>3 DEF Answers, ClosesCall, DismissCall
    <3>4. ASSUME NEW c \in Calls, HubRings(c) \/ HubCancels(c) \/ HubNotices(c) \/ Speaks(c) \/ Finished(c)
          PROVE  UNCHANGED <<taps, declines>> /\ notes' \in SUBSET notes /\ refused' \in SUBSET refused
      BY <3>4 DEF HubRings, HubCancels, HubNotices, Speaks, Finished, ClosesCall, DismissCall
    <3>5. ASSUME NEW h \in Hubs, GetsCancel(h)
          PROVE  UNCHANGED <<taps, declines>> /\ notes' \in SUBSET notes /\ refused' \in SUBSET refused
      BY <3>5 DEF GetsCancel, DismissCall
    <3> QED
      BY <2>3, <3>1, <3>2, <3>3, <3>4, <3>5
  <2>4. CASE Drain \/ PressDecline \/ \E b \in BOOLEAN : JsEnds(b)
    BY <2>1, <2>4, DrainDeclines, PressedDecline, EndedDeclines
  <2>5. CASE \E c \in Calls : DeclineExpires(c) \/ \E action \in {"answer", "decline"} : TapNotification(action, c)
    BY <2>1, <2>5, ExpiredDeclines, TapDeclines
  <2>6. CASE \E h \in Hubs : Disconnected(h) \/ HubReady(h) \/ GetsCall(h)
    BY <2>1, <2>6, ConnectionDeclines, ShownDeclines
  <2> QED
    BY <1>2, <2>2, <2>3, <2>4, <2>5, <2>6 DEF PhoneCallNext
<1> QED
  BY <1>1, <1>2

\* Whoever declines has declined: while a hub goes on ringing for a call refused on this phone, the
\* refusal is queued or held, however connections, taps, both hubs and the process come and go
\* (CallEvents, flushDeclines).
THEOREM DeclinesAreHeard == PhoneCallSpec => []DeclineIsHeard
<1>1. DeclineInv => DeclineIsHeard
  BY DEF DeclineInv
<1> QED
  BY <1>1, PhoneStarts, PhoneStepKeeps, DeclinesStart, DeclineStepKeeps, PTL DEF PhoneCallSpec

----------------------------------------------------------------------------
(* The watch of a phone, for any length of the queue of commands: one that  *)
(* was asked to watch has something armed that will go on watching.          *)

Starting == \E n \in DOMAIN commands : commands[n] = "start"
\* What Android was asked for last is that the service stops
LastStops == commands # <<>> /\ commands[Len(commands)] = "stop"
Standing == alarm \/ booting \/ receiver # "none" \/ notice # "none" \/ Starting

WatchShape ==
  /\ commands \in Seq({"start", "stop"})
  /\ isWanted \in BOOLEAN /\ denied \in BOOLEAN /\ task \in BOOLEAN /\ kept \in BOOLEAN
  /\ should \in BOOLEAN /\ watching = should
  /\ should => js = "loaded"
\* The choice to watch is recorded before the start is asked for, and the choice not to before
\* the stop: a stop that is still to be heard of a phone that is to watch was followed by a start,
\* or by a refusal that the notice tells of.
Standby == isWanted => Standing /\ (LastStops => notice # "none")
Watched == js = "loaded" /\ should => task \/ Starting
WatchInv == WatchShape /\ (~denied => Standby /\ Watched)

LEMMA StartAsked ==
  ASSUME WatchShape, commands' = Append(commands, "start")
  PROVE  commands' \in Seq({"start", "stop"}) /\ Starting' /\ ~LastStops'
<1>1. /\ commands' \in Seq({"start", "stop"}) /\ Len(commands') = Len(commands) + 1
      /\ commands'[Len(commands) + 1] = "start" /\ Len(commands) \in Nat
  BY DEF WatchShape
<1>2. Len(commands) + 1 \in DOMAIN commands'
  BY <1>1
<1>3. QED
  BY <1>1, <1>2 DEF Starting, LastStops

LEMMA StopAsked ==
  ASSUME WatchShape, commands' = Append(commands, "stop")
  PROVE  commands' \in Seq({"start", "stop"}) /\ (Starting => Starting')
<1>1. /\ commands' \in Seq({"start", "stop"}) /\ Len(commands') = Len(commands) + 1
      /\ \A n \in DOMAIN commands : n \in DOMAIN commands' /\ commands'[n] = commands[n]
  BY DEF WatchShape
<1>2. QED
  BY <1>1 DEF Starting

\* The head is taken, and what was asked for last still is.
LEMMA Heeded ==
  ASSUME WatchShape, commands # <<>>, commands' = Tail(commands)
  PROVE  /\ commands' \in Seq({"start", "stop"})
         /\ Head(commands) \in {"start", "stop"}
         /\ LastStops' => LastStops
         /\ Head(commands) = "stop" => (Starting => Starting')
         /\ Head(commands) = "stop" => LastStops \/ Starting'
<1>1. /\ Len(commands) \in Nat \ {0} /\ Len(commands') = Len(commands) - 1 /\ commands' \in Seq({"start", "stop"})
      /\ \A n \in 1..Len(commands) - 1 : commands'[n] = commands[n + 1]
      /\ Head(commands) = commands[1] /\ \A n \in 1..Len(commands) : commands[n] \in {"start", "stop"}
      /\ DOMAIN commands = 1..Len(commands) /\ DOMAIN commands' = 1..Len(commands) - 1
  BY DEF WatchShape
<1>2. LastStops' => LastStops
  <2>1. ASSUME LastStops' PROVE LastStops
    <3>1. Len(commands') \in 1..Len(commands) - 1
      BY <1>1, <2>1 DEF LastStops
    <3>2. commands'[Len(commands')] = commands[Len(commands)]
      BY <1>1, <3>1
    <3>3. QED
      BY <1>1, <2>1, <3>2 DEF LastStops
  <2>2. QED
    BY <2>1
<1>3. ASSUME commands[1] = "stop", NEW n \in DOMAIN commands, commands[n] = "start" PROVE Starting'
  <2>1. n - 1 \in DOMAIN commands' /\ commands'[n - 1] = commands[n]
    BY <1>1, <1>3
  <2>2. QED
    BY <1>3, <2>1 DEF Starting
<1>4. ASSUME commands[1] = "stop", ~LastStops PROVE Starting'
  <2>1. Len(commands) \in DOMAIN commands /\ commands[Len(commands)] = "start"
    BY <1>1, <1>4 DEF LastStops
  <2>2. QED
    BY <1>3, <1>4, <2>1
<1>5. QED
  BY <1>1, <1>2, <1>3, <1>4 DEF Starting

LEMMA WatchStarts == PhoneWatchInit => WatchInv
<1>1. <<>> \in Seq({"start", "stop"})
  OBVIOUS
<1>2. QED
  BY <1>1 DEF PhoneWatchInit, WatchInv, WatchShape, Standby, Watched

\* applyWatching() records the choice and asks for what it chose.
LEMMA ApplyingKeeps ==
  ASSUME WatchInv, NEW s \in BOOLEAN, Applies(s), js' = "loaded", kept' \in BOOLEAN,
         UNCHANGED <<alarm, booting, receiver>>
  PROVE  WatchInv'
<1>1. should' = s /\ watching' = s /\ task' = (task /\ s) /\ task' \in BOOLEAN
  BY DEF Applies, ReleasesWatchers, WatchInv, WatchShape
<1>2. CASE s = watching /\ UNCHANGED <<choiceVars, commands, denied>>
  <2>1. WatchShape'
    BY <1>1, <1>2 DEF WatchInv, WatchShape, choiceVars
  <2>2. (~denied /\ Standby)' \/ denied'
    BY <1>2 DEF WatchInv, Standby, Standing, Starting, LastStops, choiceVars
  <2>3. ~denied' => Watched'
    BY <1>1, <1>2 DEF WatchInv, WatchShape, Watched, Starting
  <2>4. QED
    BY <2>1, <2>2, <2>3 DEF WatchInv
<1>3. CASE /\ s /\ ~watching
           /\ \E allowed \in {TRUE, ~MayRefuse} : Starts(allowed) /\ denied' = ~allowed
           /\ CancelsResume /\ RemembersNotice(FALSE)
  <2>1. PICK allowed \in {TRUE, ~MayRefuse} : Starts(allowed) /\ denied' = ~allowed
    BY <1>3
  <2>2. isWanted' = TRUE /\ allowed \in BOOLEAN
        /\ commands' = IF allowed THEN Append(commands, "start") ELSE commands
    BY <2>1 DEF Starts, SetsWanted, MayRefuse
  <2>3. CASE allowed
    <3>1. commands' = Append(commands, "start")
      BY <2>2, <2>3
    <3>2. commands' \in Seq({"start", "stop"}) /\ Starting' /\ ~LastStops'
      BY <3>1, StartAsked DEF WatchInv
    <3>3. WatchShape'
      BY <1>1, <2>1, <2>2, <3>2 DEF WatchShape
    <3>4. QED
      BY <3>2, <3>3 DEF WatchInv, Standby, Standing, Watched
  <2>4. CASE ~allowed
    BY <1>1, <2>1, <2>2, <2>4 DEF WatchInv, WatchShape
  <2>5. QED
    BY <2>2, <2>3, <2>4
<1>4. CASE ~s /\ watching /\ Stops /\ denied' = FALSE
  <2>1. isWanted' = FALSE /\ (commands' = Append(commands, "stop") \/ commands' = commands)
    BY <1>4 DEF Stops, SetsWanted
  <2>2. commands' \in Seq({"start", "stop"})
    BY <2>1, StopAsked DEF WatchInv, WatchShape
  <2>3. QED
    BY <1>1, <1>4, <2>1, <2>2 DEF WatchInv, WatchShape, Standby, Watched
<1>5. QED
  BY <1>2, <1>3, <1>4 DEF Applies

\* A receiver with no JavaScript to wake starts the service, or shows the notice.
LEMMA RecoveringKeeps == ASSUME WatchInv, Recovers PROVE WatchInv'
<1>1. PICK allowed \in {TRUE, ~MayRefuse} :
        /\ Starts(allowed)
        /\ IF allowed THEN CancelsResume ELSE ShowsResume
        /\ denied' = (denied /\ ~allowed)
  BY DEF Recovers
<1>2. /\ isWanted' = TRUE /\ allowed \in BOOLEAN
      /\ commands' = IF allowed THEN Append(commands, "start") ELSE commands
      /\ UNCHANGED <<kept, js, should, watching, task>>
  BY <1>1 DEF Recovers, Starts, SetsWanted, MayRefuse
<1>3. CASE allowed
  <2>1. commands' = Append(commands, "start")
    BY <1>2, <1>3
  <2>2. commands' \in Seq({"start", "stop"}) /\ Starting' /\ ~LastStops'
    BY <2>1, StartAsked DEF WatchInv
  <2>3. WatchShape'
    BY <1>1, <1>2, <2>2 DEF WatchInv, WatchShape
  <2>4. QED
    BY <2>2, <2>3 DEF WatchInv, Standby, Standing, Watched
<1>4. CASE ~allowed
  <2>1. notice' = "shown" /\ commands' = commands /\ (denied' <=> denied) /\ denied' \in BOOLEAN
    BY <1>1, <1>2, <1>4 DEF ShowsResume, WatchInv, WatchShape
  <2>2. WatchShape'
    BY <1>2, <2>1 DEF WatchInv, WatchShape
  <2>3. Standby'
    BY <2>1 DEF Standby, Standing
  <2>4. ~denied' => Watched'
    BY <1>2, <2>1 DEF WatchInv, Watched, Starting
  <2>5. QED
    BY <2>2, <2>3, <2>4 DEF WatchInv
<1>5. QED
  BY <1>2, <1>3, <1>4

\* The service hears what it is asked to do.
LEMMA CommandedKeeps == ASSUME WatchInv, Commanded PROVE WatchInv'
<1>1. /\ commands # <<>> /\ commands' = Tail(commands)
      /\ UNCHANGED <<isWanted, notice, receiver, booting, kept, should, watching, denied>>
      /\ (js = "loaded") <=> (js' = "loaded")
  BY DEF Commanded, choiceVars, LoadsRuntime
<1>2. /\ commands' \in Seq({"start", "stop"}) /\ Head(commands) \in {"start", "stop"}
      /\ LastStops' => LastStops
      /\ Head(commands) = "stop" => (Starting => Starting')
      /\ Head(commands) = "stop" => LastStops \/ Starting'
  BY <1>1, Heeded DEF WatchInv
<1>3. CASE Head(commands) = "stop"
  <2>1. task' = task
    BY <1>3 DEF Commanded
  <2>2. WatchShape'
    BY <1>1, <1>2, <2>1 DEF WatchInv, WatchShape
  <2>3. ~denied' => Standby'
    BY <1>1, <1>2, <1>3 DEF WatchInv, Standby, Standing
  <2>4. ~denied' => Watched'
    BY <1>1, <1>2, <1>3, <2>1 DEF WatchInv, Watched
  <2>5. QED
    BY <2>2, <2>3, <2>4 DEF WatchInv
<1>4. CASE Head(commands) # "stop"
  <2>1. alarm' = TRUE /\ task' = (js = "loaded" => should)
    BY <1>4 DEF Commanded, Schedules, WhileWatching
  <2>2. WatchShape'
    BY <1>1, <1>2, <2>1 DEF WatchInv, WatchShape
  <2>3. ~denied' => Standby'
    BY <1>1, <1>2, <2>1 DEF WatchInv, Standby, Standing
  <2>4. Watched'
    BY <1>1, <2>1 DEF Watched
  <2>5. QED
    BY <2>2, <2>3, <2>4 DEF WatchInv
<1>5. QED
  BY <1>3, <1>4

\* JavaScript ends, and with it the process, or the phone.
LEMMA EndsKeep == ASSUME WatchInv, RuntimeEnds \/ Killed \/ Reboot PROVE WatchInv'
<1>1. js' = "off" /\ should' = FALSE /\ watching' = FALSE /\ task' = FALSE /\ kept' = kept /\ isWanted' = isWanted
  BY DEF RuntimeEnds, Killed, Reboot, JsGone, choiceVars
<1>2. \/ denied' = denied /\ UNCHANGED <<alarm, booting, receiver, notice>>
         /\ (commands' = commands \/ commands' = Append(commands, "start"))
      \/ denied' = FALSE /\ booting' = TRUE /\ commands' = <<>>
  BY DEF RuntimeEnds, Killed, Reboot, choiceVars, androidVars
<1>3. CASE commands' = commands /\ denied' = denied /\ UNCHANGED <<alarm, booting, receiver, notice>>
  BY <1>1, <1>3 DEF WatchInv, WatchShape, Standby, Standing, Starting, LastStops, Watched
<1>4. CASE commands' = Append(commands, "start") /\ denied' = denied
  <2>1. commands' \in Seq({"start", "stop"}) /\ Starting' /\ ~LastStops'
    BY <1>4, StartAsked DEF WatchInv
  <2>2. QED
    BY <1>1, <1>4, <2>1 DEF WatchInv, WatchShape, Standby, Standing, Watched
<1>5. CASE denied' = FALSE /\ booting' = TRUE /\ commands' = <<>>
  <2>1. commands' \in Seq({"start", "stop"})
    BY <1>5
  <2>2. WatchShape'
    BY <1>1, <1>5, <2>1 DEF WatchInv, WatchShape
  <2>3. Standby' /\ Watched'
    BY <1>1, <1>5 DEF Standby, Standing, LastStops, Watched
  <2>4. QED
    BY <2>2, <2>3 DEF WatchInv
<1>6. QED
  BY <1>2, <1>3, <1>4, <1>5

\* An alarm or a restart is taken up by a receiver, and the alarm is armed again.
LEMMA AsksKeep ==
  ASSUME WatchInv,
         \/ AlarmFires \/ BootCompleted \/ NoticeSwiped \/ OpenApp \/ LeaveApp \/ Destroyed
         \/ AlarmActs /\ HasListener
  PROVE  WatchInv'
<1>1. /\ UNCHANGED <<isWanted, commands, kept, should, watching, task, denied>>
      /\ (js = "loaded") <=> (js' = "loaded")
      /\ \/ UNCHANGED <<alarm, booting, receiver, notice>>
         \/ notice' = "seen"
         \/ notice' = notice /\ alarm' = TRUE
         \/ notice' = notice /\ (receiver' # "none" \/ ~isWanted)
  BY DEF AlarmFires, BootCompleted, NoticeSwiped, OpenApp, LeaveApp, Destroyed, AlarmActs, LoadsRuntime,
         Schedules, WakesJs, AsksWanted, choiceVars, androidVars, hubVars
<1>2. WatchShape'
  BY <1>1 DEF WatchInv, WatchShape
<1>3. ~denied' => Standby'
  BY <1>1 DEF WatchInv, Standby, Standing, Starting, LastStops
<1>4. ~denied' => Watched'
  BY <1>1 DEF WatchInv, Watched, Starting
<1>5. QED
  BY <1>2, <1>3, <1>4 DEF WatchInv

LEMMA WatchSteps == WatchInv /\ [PhoneWatchNext]_phoneWatchVars => WatchInv'
<1> SUFFICES ASSUME WatchInv, [PhoneWatchNext]_phoneWatchVars PROVE WatchInv'
  OBVIOUS
<1>1. CASE UNCHANGED phoneWatchVars
  BY <1>1 DEF phoneWatchVars, choiceVars, androidVars, hubVars, WatchInv, WatchShape, Standby, Standing,
              Starting, LastStops, Watched
<1>2. CASE PrefsLoaded
  <2>1. Applies(kept) /\ js' = "loaded" /\ kept' = kept /\ kept \in BOOLEAN /\ UNCHANGED <<alarm, booting, receiver>>
    BY <1>2 DEF PrefsLoaded, WatchInv, WatchShape
  <2>2. QED
    BY <2>1, ApplyingKeeps
<1>3. CASE SettingChanges
  <2>1. /\ Applies(~should) /\ js' = "loaded" /\ kept' \in {kept, ~should} /\ kept \in BOOLEAN
        /\ UNCHANGED <<alarm, booting, receiver>>
    BY <1>3 DEF SettingChanges, Persists, WatchInv, WatchShape
  <2>2. (~should) \in BOOLEAN /\ kept' \in BOOLEAN
    BY <2>1
  <2>3. QED
    BY <2>1, <2>2, ApplyingKeeps
<1>4. CASE Commanded
  BY <1>4, CommandedKeeps
<1>5. CASE AlarmActs \/ BootActs
  <2>1. Recovers \/ (AlarmActs /\ HasListener)
    BY <1>5 DEF AlarmActs, BootActs
  <2>2. QED
    BY <2>1, RecoveringKeeps, AsksKeep
<1>6. CASE RuntimeEnds \/ Killed \/ Reboot
  BY <1>6, EndsKeep
<1>7. CASE AlarmFires \/ BootCompleted \/ NoticeSwiped \/ OpenApp \/ LeaveApp \/ Destroyed
  BY <1>7, AsksKeep
<1>8. QED
  BY <1>1, <1>2, <1>3, <1>4, <1>5, <1>6, <1>7 DEF PhoneWatchNext

\* However JavaScript, the service and the phone come and go, a phone that is to watch has an
\* alarm, a start, a restart or a notice standing, and one whose JavaScript should watch has a
\* task or a start under way (hub.ts: applyWatching; NotifyjsWatchService, WatchAlarm).
THEOREM TheWatchGoesOn == PhoneWatchSpec => []WatchGoesOn
<1>1. WatchInv => WatchGoesOn
  BY DEF WatchInv, Standby, Standing, Starting, Watched, WatchGoesOn
<1>2. QED
  BY <1>1, WatchStarts, WatchSteps, PTL DEF PhoneWatchSpec

----------------------------------------------------------------------------
(* A call on the desktop app, for any number of calls and of presses: the    *)
(* window shows and rings for the call that the main process holds.          *)

DeskPlaces == {"none", "ringing", "answered", "over"}
PageMsg ==
  [is : {"state", "call"}, call : DeskCalls \cup {NoDeskCall}, run : {NoRun}]
  \cup [is : {"reply"}, call : {NoDeskCall}, run : Runs \cup {NoRun}]
MainMsg ==
  [is : {"answer", "speak"}, call : DeskCalls, run : Runs]
  \cup [is : {"decline", "end"}, call : DeskCalls, run : Runs \cup {NoRun}]
DeskRun == [call : DeskCalls \cup {NoDeskCall}, at : {"none", "answering", "speaking", "ending"}]

DeskShape ==
  /\ placed \in [DeskCalls -> DeskPlaces] /\ run \in [Runs -> DeskRun]
  /\ deskCall \in DeskCalls \cup {NoDeskCall} /\ shown \in DeskCalls \cup {NoDeskCall}
  /\ toPage \in Seq(PageMsg) /\ toMain \in Seq(MainMsg)
  /\ talking \subseteq Runs /\ hushed \subseteq Runs /\ said \in Runs \cup {NoRun}
  /\ voice \in {"window", "system", "off"}
  /\ pageUp \in BOOLEAN /\ answering \in BOOLEAN /\ excused \in BOOLEAN
  /\ \A i \in Runs : run[i].at # "none" => run[i].call \in DeskCalls
Counted == presses \in Nat /\ \A i \in Runs : i > presses => run[i].at = "none"

\* Of a call that has not come nobody has heard, and a window that has not loaded has heard of none.
Begun ==
  \A c \in DeskCalls : placed[c] = "none" =>
    /\ deskCall # c /\ shown # c /\ c \notin unheard
    /\ \A n \in DOMAIN toPage : toPage[n].call # c
    /\ \A i \in Runs : run[i].call # c
Unloaded ==
  ~pageUp => /\ toPage = <<>> /\ toMain = <<>> /\ shown = NoDeskCall /\ ring = "off"
             /\ deskCall \in unheard \cup {NoDeskCall}
             /\ \A i \in Runs : run[i].at = "none"

\* What the main process says last is what it holds, and a call is shown before it is heard.
NoCalls(q) == \A n \in DOMAIN q : q[n].is # "call"
Shows(q) == \E n \in DOMAIN q : q[n].is = "state"
LastWord(q, d) ==
  \A n \in DOMAIN q : q[n].is # "reply" /\ (\A m \in DOMAIN q : m > n => q[m].is # "call") => q[n].call = d
ShownFirst(q, d) ==
  \A n \in DOMAIN q : q[n].is = "call" => IF n = 1 THEN d = q[n].call ELSE q[n - 1] = State(q[n].call)
Latest ==
  /\ LastWord(toPage, deskCall) /\ ShownFirst(toPage, shown)
  /\ pageUp /\ NoCalls(toPage) =>
       /\ shown = deskCall \/ Shows(toPage)
       /\ deskCall \in DeskCalls \ unheard => shown = deskCall

\* A press that the main process has yet to hear of answers or declines whatever call it holds then.
Pressed(q) == \E n \in DOMAIN q : q[n].is \in {"answer", "decline"}
Sounds ==
  pageUp /\ ~excused /\ NoCalls(toPage) =>
    /\ deskCall = NoDeskCall => ring = "off"
    /\ deskCall \in DeskCalls \ unheard => (ring # "off" /\ ~answering) \/ deskAnswered = deskCall \/ Pressed(toMain)
\* A run that is of the call held was heard of, or is about to be.
Heard == \A i \in Runs : run[i].at # "none" /\ run[i].call = deskCall => deskAnswered = deskCall \/ Pressed(toMain)
Kept == Begun /\ Unloaded /\ Latest /\ Sounds /\ Heard

\* Each run awaits one thing: its invocation, its reply, or the voice.
Bears(q, i) == \E n \in DOMAIN q : q[n].run = i
Bids(q, i) == \E n \in DOMAIN q : q[n].is = "speak" /\ q[n].run = i
Single(q) == \A m, n \in DOMAIN q : q[m].run = q[n].run /\ q[m].run # NoRun => m = n
OnePlace(i, qm, qp, read, r, sd, v) ==
  /\ ~(Bears(qm, i) /\ Bears(qp, i))
  /\ i \in read => ~Bears(qm, i) /\ ~Bears(qp, i) /\ r[i].at = "speaking" /\ v = "system"
  /\ r[i].at = "none" \/ (r[i].at = "speaking" /\ v = "window") => ~Bears(qm, i) /\ ~Bears(qp, i)
  /\ sd = i => r[i].at = "speaking" /\ v = "window"
  /\ Bids(qm, i) => r[i].at = "speaking" /\ v = "system"
Awaits ==
  /\ Single(toMain) /\ Single(toPage)
  /\ \A i \in Runs : OnePlace(i, toMain, toPage, talking \cup hushed, run, said, voice)
DeskInv == DeskShape /\ Counted /\ Kept /\ Awaits

LEMMA NoSuchRun == NoRun \notin Runs /\ NoDeskCall \notin DeskCalls /\ Runs \subseteq Nat
BY DeskConstants DEF DeskConstants, NoRun, Runs

-----------------------------------------------------------------------------
(* Queues *)

LEMMA Taken ==
  ASSUME NEW S, NEW q \in Seq(S), q # <<>>, NEW r, r = Tail(q)
  PROVE  /\ r \in Seq(S) /\ 1 \in DOMAIN q /\ Head(q) = q[1] /\ Head(q) \in S
         /\ \A n \in DOMAIN r : n \in Nat /\ n > 0 /\ n + 1 \in DOMAIN q /\ r[n] = q[n + 1]
         /\ \A n \in DOMAIN q : n \in Nat /\ (n = 1 \/ (n > 1 /\ n - 1 \in DOMAIN r /\ r[n - 1] = q[n]))
OBVIOUS

LEMMA TakenRuns ==
  ASSUME NEW S, NEW q \in Seq(S), q # <<>>, NEW r, r = Tail(q)
  PROVE  /\ \A i : (Bears(r, i) => Bears(q, i)) /\ (Bids(r, i) => Bids(q, i))
         /\ Bears(q, Head(q).run) /\ (Head(q).is = "speak" => Bids(q, Head(q).run))
         /\ Single(q) => Single(r) /\ (Head(q).run # NoRun => ~Bears(r, Head(q).run))
<1>1. /\ 1 \in DOMAIN q /\ Head(q) = q[1]
      /\ \A n \in DOMAIN r : n \in Nat /\ n > 0 /\ n + 1 \in DOMAIN q /\ r[n] = q[n + 1]
  BY Taken
<1>2. ASSUME NEW i, NEW n \in DOMAIN r, r[n].run = i PROVE Bears(q, i) /\ (r[n].is = "speak" => Bids(q, i))
  <2>1. n + 1 \in DOMAIN q /\ q[n + 1].run = i /\ q[n + 1].is = r[n].is
    BY <1>1, <1>2
  <2>2. QED
    BY <2>1 DEF Bears, Bids
<1>3. ASSUME Single(q), NEW m \in DOMAIN r, NEW n \in DOMAIN r, r[m].run = r[n].run, r[m].run # NoRun PROVE m = n
  <2>1. m \in Nat /\ n \in Nat /\ m + 1 \in DOMAIN q /\ n + 1 \in DOMAIN q /\ q[m + 1].run = q[n + 1].run /\ q[m + 1].run # NoRun
    BY <1>1, <1>3
  <2>2. m + 1 = n + 1
    BY <1>3, <2>1 DEF Single
  <2>3. QED
    BY <2>1, <2>2
<1>4. ASSUME Single(q), Head(q).run # NoRun, NEW n \in DOMAIN r, r[n].run = Head(q).run PROVE FALSE
  <2>1. n \in Nat /\ n > 0 /\ n + 1 \in DOMAIN q /\ q[n + 1].run = q[1].run /\ q[1].run # NoRun /\ 1 \in DOMAIN q
    BY <1>1, <1>4
  <2>2. n + 1 = 1
    BY <1>4, <2>1 DEF Single
  <2>3. QED
    BY <2>1, <2>2
<1>5. QED
  BY <1>1, <1>2, <1>3, <1>4 DEF Bears, Bids, Single

\* What is read goes, and the words after it stand as they stood.
LEMMA TakenWords ==
  ASSUME NEW S, NEW q \in Seq(S), q # <<>>, NEW r, r = Tail(q), NEW d, LastWord(q, d)
  PROVE  /\ LastWord(r, d)
         /\ Head(q).is # "call" /\ NoCalls(r) => NoCalls(q)
         /\ Head(q).is # "state" /\ Shows(q) => Shows(r)
         /\ Head(q).is # "reply" /\ NoCalls(r) => Head(q).call = d
<1>1. /\ 1 \in DOMAIN q /\ Head(q) = q[1]
      /\ \A n \in DOMAIN r : n \in Nat /\ n > 0 /\ n + 1 \in DOMAIN q /\ r[n] = q[n + 1]
      /\ \A n \in DOMAIN q : n \in Nat /\ (n = 1 \/ (n > 1 /\ n - 1 \in DOMAIN r /\ r[n - 1] = q[n]))
  BY Taken
<1>2. ASSUME NEW n \in DOMAIN r, r[n].is # "reply", \A m \in DOMAIN r : m > n => r[m].is # "call" PROVE r[n].call = d
  <2>1. ASSUME NEW m \in DOMAIN q, m > n + 1 PROVE q[m].is # "call"
    <3>1. m - 1 \in DOMAIN r /\ r[m - 1] = q[m] /\ m - 1 > n
      BY <1>1, <2>1
    <3>2. QED
      BY <1>2, <3>1
  <2>2. n + 1 \in DOMAIN q /\ q[n + 1] = r[n]
    BY <1>1
  <2>3. QED
    BY <1>2, <2>1, <2>2 DEF LastWord
<1>3. Head(q).is # "call" /\ NoCalls(r) => NoCalls(q)
  BY <1>1 DEF NoCalls
<1>4. Head(q).is # "state" /\ Shows(q) => Shows(r)
  BY <1>1 DEF Shows
<1>5. ASSUME Head(q).is # "reply", NoCalls(r) PROVE Head(q).call = d
  <2>1. \A m \in DOMAIN q : m > 1 => q[m].is # "call"
    BY <1>1, <1>5 DEF NoCalls
  <2>2. QED
    BY <1>1, <1>5, <2>1 DEF LastWord
<1>6. QED
  BY <1>2, <1>3, <1>4, <1>5 DEF LastWord

LEMMA TakenFirst ==
  ASSUME NEW S, NEW q \in Seq(S), q # <<>>, NEW r, r = Tail(q), NEW d, NEW e, ShownFirst(q, d),
         e = IF Head(q).is = "state" THEN Head(q).call ELSE d
  PROVE  ShownFirst(r, e) /\ (Head(q).is = "call" => Head(q).call = d)
<1>1. /\ 1 \in DOMAIN q /\ Head(q) = q[1]
      /\ \A n \in DOMAIN r : n \in Nat /\ n > 0 /\ n + 1 \in DOMAIN q /\ r[n] = q[n + 1]
  BY Taken
<1>2. ASSUME NEW n \in DOMAIN r, r[n].is = "call"
      PROVE  IF n = 1 THEN e = r[n].call ELSE r[n - 1] = State(r[n].call)
  <2>1. n \in Nat /\ n > 0 /\ n + 1 \in DOMAIN q /\ q[n + 1] = r[n] /\ n + 1 # 1 /\ (n + 1) - 1 = n
    BY <1>1
  <2>2. q[n] = State(r[n].call)
    BY <1>2, <2>1 DEF ShownFirst
  <2>3. CASE n = 1
    BY <1>1, <2>2, <2>3 DEF State
  <2>4. CASE n # 1
    <3>1. n - 1 \in DOMAIN r
      <4>1. r \in Seq(S) /\ DOMAIN r = 1..Len(r) /\ Len(r) \in Nat
        OBVIOUS
      <4>2. QED
        BY <2>1, <2>4, <4>1
    <3>2. r[n - 1] = q[n]
      BY <1>1, <2>1, <3>1
    <3>3. QED
      BY <2>2, <2>4, <3>2
  <2>5. QED
    BY <2>3, <2>4
<1>3. QED
  BY <1>1, <1>2 DEF ShownFirst

LEMMA TakenPress ==
  ASSUME NEW S, NEW q \in Seq(S), q # <<>>, NEW r, r = Tail(q), Pressed(q)
  PROVE  Pressed(r) \/ Head(q).is \in {"answer", "decline"}
<1>1. /\ 1 \in DOMAIN q /\ Head(q) = q[1]
      /\ \A n \in DOMAIN q : n = 1 \/ (n - 1 \in DOMAIN r /\ r[n - 1] = q[n])
  BY Taken
<1>2. QED
  BY <1>1 DEF Pressed

\* r is s after q
Follows(r, q, s) ==
  /\ Len(q) \in Nat /\ DOMAIN q = 1..Len(q)
  /\ \A n \in DOMAIN q : n \in DOMAIN r /\ r[n] = q[n]
  /\ \A n \in DOMAIN s : Len(q) + n \in DOMAIN r /\ r[Len(q) + n] = s[n]
  /\ \A n \in DOMAIN r : n \notin DOMAIN q => \E m \in DOMAIN s : n = Len(q) + m /\ r[n] = s[m]

LEMMA Joined ==
  ASSUME NEW S, NEW q \in Seq(S), NEW s \in Seq(S), NEW r, r = q \o s
  PROVE  r \in Seq(S) /\ Follows(r, q, s)
<1>1. /\ Len(q) \in Nat /\ Len(s) \in Nat /\ DOMAIN q = 1..Len(q) /\ DOMAIN s = 1..Len(s)
      /\ r \in Seq(S) /\ Len(r) = Len(q) + Len(s) /\ DOMAIN r = 1..Len(r)
      /\ \A n \in 1..Len(q) + Len(s) : r[n] = IF n <= Len(q) THEN q[n] ELSE s[n - Len(q)]
  <2>1. /\ q \o s \in Seq(S) /\ Len(q \o s) = Len(q) + Len(s)
        /\ \A n \in 1..Len(q) + Len(s) : (q \o s)[n] = IF n <= Len(q) THEN q[n] ELSE s[n - Len(q)]
    BY ConcatProperties
  <2>2. QED
    BY <2>1
<1>2. ASSUME NEW n \in DOMAIN r, n \notin DOMAIN q
      PROVE  \E m \in DOMAIN s : n = Len(q) + m /\ r[n] = s[m]
  <2>1. n - Len(q) \in DOMAIN s /\ n = Len(q) + (n - Len(q)) /\ r[n] = s[n - Len(q)]
    BY <1>1, <1>2
  <2>2. QED
    BY <2>1
<1>3. ASSUME NEW n \in DOMAIN s PROVE Len(q) + n \in DOMAIN r /\ r[Len(q) + n] = s[n]
  <2>1. n \in Nat /\ n > 0 /\ Len(q) + n \in 1..Len(q) + Len(s) /\ ~(Len(q) + n <= Len(q)) /\ (Len(q) + n) - Len(q) = n
    BY <1>1, <1>3
  <2>2. QED
    BY <1>1, <2>1
<1>4. QED
  BY <1>1, <1>2, <1>3 DEF Follows

LEMMA JoinedRuns ==
  ASSUME NEW S, NEW q \in Seq(S), NEW s \in Seq(S), NEW r, r = q \o s
  PROVE  /\ \A i : Bears(r, i) => Bears(q, i) \/ Bears(s, i)
         /\ Single(q) /\ Single(s) /\ (\A i : i # NoRun => ~(Bears(q, i) /\ Bears(s, i))) => Single(r)
<1>1. /\ Len(q) \in Nat
      /\ \A n \in DOMAIN q : n \in DOMAIN r /\ r[n] = q[n]
      /\ \A n \in DOMAIN r : n \notin DOMAIN q => \E m \in DOMAIN s : n = Len(q) + m /\ r[n] = s[m]
  <2>1. Follows(r, q, s)
    BY Joined
  <2>2. QED
    BY <2>1 DEF Follows
<1>2. ASSUME NEW i, NEW n \in DOMAIN r, r[n].run = i PROVE Bears(q, i) \/ Bears(s, i)
  BY <1>1, <1>2 DEF Bears
<1>3. ASSUME Single(q), Single(s), \A i : i # NoRun => ~(Bears(q, i) /\ Bears(s, i)),
             NEW m \in DOMAIN r, NEW n \in DOMAIN r, r[m].run = r[n].run, r[m].run # NoRun
      PROVE  m = n
  <2>1. CASE m \in DOMAIN q /\ n \in DOMAIN q
    BY <1>1, <1>3, <2>1 DEF Single
  <2>2. CASE m \in DOMAIN q /\ n \notin DOMAIN q
    <3>1. Bears(q, r[m].run) /\ Bears(s, r[m].run)
      BY <1>1, <1>3, <2>2 DEF Bears
    <3>2. QED
      BY <1>3, <3>1
  <2>3. CASE m \notin DOMAIN q /\ n \in DOMAIN q
    <3>1. Bears(q, r[m].run) /\ Bears(s, r[m].run)
      BY <1>1, <1>3, <2>3 DEF Bears
    <3>2. QED
      BY <1>3, <3>1
  <2>4. CASE m \notin DOMAIN q /\ n \notin DOMAIN q
    <3>1. PICK k \in DOMAIN s : m = Len(q) + k /\ r[m] = s[k]
      BY <1>1, <2>4
    <3>2. PICK l \in DOMAIN s : n = Len(q) + l /\ r[n] = s[l]
      BY <1>1, <2>4
    <3>3. k = l
      BY <1>3, <3>1, <3>2 DEF Single
    <3>4. QED
      BY <3>1, <3>2, <3>3
  <2>5. QED
    BY <2>1, <2>2, <2>3, <2>4
<1>4. QED
  BY <1>2, <1>3 DEF Bears, Single

\* What the main process sends of a call it holds still, and of one it takes or lets go of
Plain(s, d) == \A n \in DOMAIN s : s[n].is # "reply" => s[n].is = "state" /\ s[n].call = d
Turn(s, d) ==
  /\ 1 \in DOMAIN s /\ 2 \in DOMAIN s /\ s[1] = State(d) /\ s[2] = Call(d)
  /\ \A n \in DOMAIN s : n # 1 /\ n # 2 => s[n].is = "reply"
Letter(s, d, j) ==
  /\ s \in Seq(PageMsg) /\ Single(s)
  /\ \A n \in DOMAIN s : s[n].run \in {NoRun, j} /\ s[n].call \in {d, NoDeskCall}

LEMMA JoinedPlain ==
  ASSUME NEW S, NEW q \in Seq(S), NEW s \in Seq(S), NEW r, r = q \o s, NEW d, NEW e,
         Plain(s, d), LastWord(q, d), ShownFirst(q, e)
  PROVE  LastWord(r, d) /\ ShownFirst(r, e) /\ (NoCalls(r) => NoCalls(q)) /\ (Shows(q) => Shows(r))
<1>1. /\ Len(q) \in Nat /\ DOMAIN q = 1..Len(q)
      /\ \A n \in DOMAIN q : n \in DOMAIN r /\ r[n] = q[n]
      /\ \A n \in DOMAIN r : n \notin DOMAIN q => \E m \in DOMAIN s : n = Len(q) + m /\ r[n] = s[m]
  <2>1. Follows(r, q, s)
    BY Joined
  <2>2. QED
    BY <2>1 DEF Follows
<1>2. ASSUME NEW n \in DOMAIN r, r[n].is # "reply", \A m \in DOMAIN r : m > n => r[m].is # "call" PROVE r[n].call = d
  <2>1. CASE n \in DOMAIN q
    BY <1>1, <1>2, <2>1 DEF LastWord
  <2>2. CASE n \notin DOMAIN q
    BY <1>1, <1>2, <2>2 DEF Plain
  <2>3. QED
    BY <2>1, <2>2
<1>3. ASSUME NEW n \in DOMAIN r, r[n].is = "call" PROVE IF n = 1 THEN e = r[n].call ELSE r[n - 1] = State(r[n].call)
  <2>1. n \in DOMAIN q /\ r[n] = q[n]
    BY <1>1, <1>3 DEF Plain
  <2>2. IF n = 1 THEN e = q[n].call ELSE q[n - 1] = State(q[n].call)
    BY <1>3, <2>1 DEF ShownFirst
  <2>3. n # 1 => n - 1 \in DOMAIN q /\ r[n - 1] = q[n - 1]
    BY <1>1, <2>1
  <2>4. QED
    BY <2>1, <2>2, <2>3
<1>4. (NoCalls(r) => NoCalls(q)) /\ (Shows(q) => Shows(r))
  BY <1>1 DEF NoCalls, Shows
<1>5. QED
  BY <1>2, <1>3, <1>4 DEF LastWord, ShownFirst

LEMMA JoinedTurn ==
  ASSUME NEW S, NEW q \in Seq(S), NEW s \in Seq(S), NEW r, r = q \o s, NEW d, NEW e, Turn(s, d), ShownFirst(q, e)
  PROVE  LastWord(r, d) /\ ShownFirst(r, e) /\ ~NoCalls(r)
<1> DEFINE k == Len(q) + 1
           l == Len(q) + 2
<1>1. /\ Len(q) \in Nat /\ DOMAIN q = 1..Len(q)
      /\ \A n \in DOMAIN q : n \in DOMAIN r /\ r[n] = q[n]
      /\ \A n \in DOMAIN s : Len(q) + n \in DOMAIN r /\ r[Len(q) + n] = s[n]
      /\ \A n \in DOMAIN r : n \notin DOMAIN q => \E m \in DOMAIN s : n = Len(q) + m /\ r[n] = s[m]
  <2>1. Follows(r, q, s)
    BY Joined
  <2>2. QED
    BY <2>1 DEF Follows
<1>2. /\ k \in Nat /\ l \in Nat /\ l - 1 = k /\ l # 1 /\ k < l
      /\ k \in DOMAIN r /\ l \in DOMAIN r /\ r[k] = State(d) /\ r[l] = Call(d)
      /\ \A n \in DOMAIN q : n < l /\ (n # 1 => n - 1 \in DOMAIN q)
  BY <1>1 DEF Turn
<1>3. ASSUME NEW n \in DOMAIN r, n \notin DOMAIN q PROVE n = k \/ n = l \/ r[n].is = "reply"
  <2>1. PICK m \in DOMAIN s : n = Len(q) + m /\ r[n] = s[m]
    BY <1>1, <1>3
  <2>2. QED
    BY <2>1 DEF Turn
<1> HIDE DEF k, l
<1>4. r[l].is = "call" /\ r[l].call = d /\ r[k].is = "state"
  BY <1>2 DEF State, Call
<1>5. ASSUME NEW n \in DOMAIN r, r[n].is # "reply", \A m \in DOMAIN r : m > n => r[m].is # "call" PROVE r[n].call = d
  <2>1. ~(l > n)
    BY <1>2, <1>4, <1>5
  <2>2. n = l
    BY <1>2, <1>3, <1>5, <2>1
  <2>3. QED
    BY <1>4, <2>2
<1>6. ASSUME NEW n \in DOMAIN r, r[n].is = "call" PROVE IF n = 1 THEN e = r[n].call ELSE r[n - 1] = State(r[n].call)
  <2>1. CASE n \in DOMAIN q
    <3>1. IF n = 1 THEN e = q[n].call ELSE q[n - 1] = State(q[n].call)
      BY <1>1, <1>6, <2>1 DEF ShownFirst
    <3>2. r[n] = q[n] /\ (n # 1 => r[n - 1] = q[n - 1])
      BY <1>1, <1>2, <2>1
    <3>3. QED
      BY <3>1, <3>2
  <2>2. CASE n \notin DOMAIN q
    <3>1. n = l
      BY <1>3, <1>4, <1>6, <2>2
    <3>2. QED
      BY <1>2, <1>4, <3>1
  <2>3. QED
    BY <2>1, <2>2
<1>7. ~NoCalls(r)
  BY <1>2, <1>4 DEF NoCalls
<1>8. QED
  BY <1>5, <1>6, <1>7 DEF LastWord, ShownFirst

LEMMA PostedOn ==
  ASSUME NEW S, NEW q \in Seq(S), NEW f \in S, NEW r, r = Append(q, f)
  PROVE  /\ r \in Seq(S)
         /\ \A i : Bears(r, i) => Bears(q, i) \/ f.run = i
         /\ \A i : Bids(r, i) => Bids(q, i) \/ (f.is = "speak" /\ f.run = i)
         /\ Pressed(q) \/ f.is \in {"answer", "decline"} => Pressed(r)
         /\ Single(q) /\ (f.run = NoRun \/ ~Bears(q, f.run)) => Single(r)
<1> DEFINE last == Len(q) + 1
<1>1. /\ r \in Seq(S) /\ last \in DOMAIN r /\ r[last] = f
      /\ \A n \in DOMAIN q : n \in DOMAIN r /\ r[n] = q[n]
      /\ \A n \in DOMAIN r : n \in DOMAIN q \/ n = last
  <2>1. /\ Len(q) \in Nat /\ r \in Seq(S) /\ Len(r) = Len(q) + 1 /\ DOMAIN r = 1..Len(q) + 1 /\ DOMAIN q = 1..Len(q)
        /\ r[Len(q) + 1] = f
    OBVIOUS
  <2>2. \A n \in DOMAIN q : n \in DOMAIN r /\ r[n] = q[n]
    OBVIOUS
  <2>3. QED
    BY <2>1, <2>2
<1> HIDE DEF last
<1>2. \A i : Bears(r, i) => Bears(q, i) \/ f.run = i
  BY <1>1 DEF Bears
<1>3. \A i : Bids(r, i) => Bids(q, i) \/ (f.is = "speak" /\ f.run = i)
  BY <1>1 DEF Bids
<1>4. Pressed(q) \/ f.is \in {"answer", "decline"} => Pressed(r)
  BY <1>1 DEF Pressed
<1>5. Single(q) /\ (f.run = NoRun \/ ~Bears(q, f.run)) => Single(r)
  BY <1>1 DEF Single, Bears
<1>6. QED
  BY <1>1, <1>2, <1>3, <1>4, <1>5

\* The letters there are
LEMMA Letters ==
  ASSUME NEW d \in DeskCalls \cup {NoDeskCall}, NEW j \in Runs \cup {NoRun}
  PROVE  /\ Letter(<<>>, d, j) /\ Plain(<<>>, d)
         /\ Letter(<<State(d)>>, d, j) /\ Plain(<<State(d)>>, d)
         /\ Letter(<<Reply(j)>>, d, j) /\ Plain(<<Reply(j)>>, d)
         /\ Letter(<<State(d), Call(d)>>, d, j) /\ Turn(<<State(d), Call(d)>>, d)
<1>1. State(d) \in PageMsg /\ Call(d) \in PageMsg /\ Reply(j) \in PageMsg
  BY DEF State, Call, Reply, PageMsg
<1>2. ASSUME NEW s, s = <<>> PROVE Letter(s, d, j) /\ Plain(s, d)
  <2>1. s \in Seq(PageMsg) /\ DOMAIN s = {}
    BY <1>2
  <2>2. QED
    BY <2>1 DEF Letter, Plain, Single
<1>3. ASSUME NEW s, s = <<State(d)>> PROVE Letter(s, d, j) /\ Plain(s, d)
  <2>1. s \in Seq(PageMsg) /\ DOMAIN s = {1} /\ s[1] = State(d)
    BY <1>1, <1>3
  <2>2. QED
    BY <2>1 DEF Letter, Plain, Single, State
<1>4. ASSUME NEW s, s = <<Reply(j)>> PROVE Letter(s, d, j) /\ Plain(s, d)
  <2>1. s \in Seq(PageMsg) /\ DOMAIN s = {1} /\ s[1] = Reply(j)
    BY <1>1, <1>4
  <2>2. QED
    BY <2>1 DEF Letter, Plain, Single, Reply
<1>5. ASSUME NEW s, s = <<State(d), Call(d)>> PROVE Letter(s, d, j) /\ Turn(s, d)
  <2>1. s \in Seq(PageMsg) /\ DOMAIN s = {1, 2} /\ s[1] = State(d) /\ s[2] = Call(d)
    BY <1>1, <1>5
  <2>2. QED
    BY <2>1 DEF Letter, Turn, Single, State, Call
<1>6. QED
  BY <1>2, <1>3, <1>4, <1>5

LEMMA AppendedThird ==
  ASSUME NEW S, NEW a \in S, NEW b \in S, NEW c \in S, NEW s, s = Append(<<a, b>>, c)
  PROVE  s \in Seq(S) /\ DOMAIN s = {1, 2, 3} /\ s[1] = a /\ s[2] = b /\ s[3] = c
<1>1. <<a, b>> \in Seq(S) /\ Len(<<a, b>>) = 2 /\ <<a, b>>[1] = a /\ <<a, b>>[2] = b
  OBVIOUS
<1> DEFINE p == <<a, b>>
<1>2. p \in Seq(S) /\ Len(p) = 2 /\ p[1] = a /\ p[2] = b /\ s = Append(p, c)
  BY <1>1
<1> HIDE DEF p
<1>3. QED
  BY <1>2

LEMMA ClearingLetters ==
  ASSUME NEW j \in Runs \cup {NoRun}
  PROVE  /\ Letter(ClearCallSent, NoDeskCall, j) /\ Turn(ClearCallSent, NoDeskCall)
         /\ LET s == Append(ClearCallSent, Reply(j)) IN Letter(s, NoDeskCall, j) /\ Turn(s, NoDeskCall)
<1>1. Letter(ClearCallSent, NoDeskCall, j) /\ Turn(ClearCallSent, NoDeskCall)
  BY Letters DEF ClearCallSent
<1>2. ASSUME NEW s, s = Append(ClearCallSent, Reply(j)) PROVE Letter(s, NoDeskCall, j) /\ Turn(s, NoDeskCall)
  <2>1. State(NoDeskCall) \in PageMsg /\ Call(NoDeskCall) \in PageMsg /\ Reply(j) \in PageMsg
    BY DEF State, Call, Reply, PageMsg
  <2>2. /\ s \in Seq(PageMsg) /\ DOMAIN s = {1, 2, 3}
        /\ s[1] = State(NoDeskCall) /\ s[2] = Call(NoDeskCall) /\ s[3] = Reply(j)
    <3>1. ClearCallSent = <<State(NoDeskCall), Call(NoDeskCall)>>
      BY DEF ClearCallSent
    <3>2. QED
      BY <1>2, <2>1, <3>1, AppendedThird
  <2>3. QED
    BY <2>2 DEF Letter, Turn, Single, State, Call, Reply
<1>3. QED
  BY <1>1, <1>2

-----------------------------------------------------------------------------
(* What a step keeps *)

LEMMA DeskStarts == DeskConstants /\ DeskCallInit => DeskInv
<1> SUFFICES ASSUME DeskConstants, DeskCallInit PROVE DeskInv
  OBVIOUS
<1>1. DeskShape /\ Counted
  <2>1. toPage \in Seq(PageMsg) /\ toMain \in Seq(MainMsg)
    BY DEF DeskCallInit
  <2>2. QED
    BY <2>1, NoSuchRun DEF DeskCallInit, DeskShape, Counted, DeskPlaces, DeskRun, Free, Runs
<1>2. DOMAIN toPage = {} /\ DOMAIN toMain = {}
  BY DEF DeskCallInit
<1>3. Kept
  BY <1>2, NoSuchRun DEF DeskCallInit, Kept, Begun, Unloaded, Latest, LastWord, ShownFirst, Sounds, Heard, Free
<1>4. Awaits
  BY <1>2, NoSuchRun DEF DeskCallInit, Awaits, Single, OnePlace, Bears, Bids, Free
<1>5. QED
  BY <1>1, <1>3, <1>4 DEF DeskInv

LEMMA DeskTells == DeskConstants /\ DeskInv => RingFollowsCall
<1> SUFFICES ASSUME DeskConstants, DeskInv, DeskCaughtUp, ~excused
    PROVE  /\ shown = deskCall
           /\ deskCall = NoDeskCall => ring = "off" /\ said = NoRun /\ talking = {}
           /\ deskCall \in DeskCalls \ (unheard \cup {deskAnswered}) => ring # "off" /\ ~answering
  BY DEF RingFollowsCall
<1>1. DOMAIN toPage = {} /\ DOMAIN toMain = {} /\ pageUp /\ \A i \in Runs : run[i].at = "none"
  BY DEF DeskCaughtUp, Free
<1>2. NoCalls(toPage) /\ ~Shows(toPage) /\ ~Pressed(toMain)
  BY <1>1 DEF NoCalls, Shows, Pressed
<1>3. shown = deskCall
  BY <1>1, <1>2 DEF DeskInv, Kept, Latest
<1>4. said = NoRun /\ talking = {}
  BY <1>1 DEF DeskInv, DeskShape, Awaits, OnePlace
<1>5. (deskCall = NoDeskCall => ring = "off")
      /\ (deskCall \in DeskCalls \ (unheard \cup {deskAnswered}) => ring # "off" /\ ~answering)
  BY <1>1, <1>2 DEF DeskInv, Kept, Sounds
<1>6. QED
  BY <1>3, <1>4, <1>5

\* The main process keeps its call and says so, or takes or lets go of one, which no run is of.
Holds(s, d) ==
  \/ /\ d = deskCall /\ Plain(s, d) /\ (deskAnswered = d => deskAnswered' = d)
     /\ d # NoDeskCall /\ Pressed(toMain) => Pressed(toMain') \/ deskAnswered' = d
  \/ Turn(s, d) /\ \A i \in Runs : run[i].at # "none" => run[i].call # d
TakesPlace(d) ==
  /\ \A c \in DeskCalls : placed'[c] = "none" => placed[c] = "none" /\ d # c /\ c \notin unheard'
  /\ unheard \subseteq unheard' /\ (pageUp => unheard' = unheard)
  /\ ~pageUp => toMain' = toMain /\ d \in unheard' \cup {NoDeskCall}

LEMMA MainMoves ==
  ASSUME DeskConstants, DeskShape, Kept, NEW d \in DeskCalls \cup {NoDeskCall}, NEW j, NEW s, Letter(s, d, j),
         Sends(s), deskCall' = d, UNCHANGED <<pageUp, windowVars, run, excused>>, Holds(s, d), TakesPlace(d)
  PROVE  Kept' /\ toPage' \in Seq(PageMsg)
<1> USE DEF windowVars
<1>1. s \in Seq(PageMsg) /\ toPage \in Seq(PageMsg) /\ pageUp \in BOOLEAN
  BY DEF Letter, DeskShape
<1>2. (pageUp => toPage' = toPage \o s) /\ (~pageUp => toPage' = toPage)
  BY DEF Sends
<1>3. pageUp => toPage' \in Seq(PageMsg) /\ Follows(toPage', toPage, s)
  BY <1>1, <1>2, Joined
<1>4. Begun'
  <2>1. ASSUME NEW n \in DOMAIN toPage' PROVE (n \in DOMAIN toPage /\ toPage'[n] = toPage[n]) \/ toPage'[n].call \in {d, NoDeskCall}
    <3>1. CASE pageUp
      BY <1>3, <3>1 DEF Follows, Letter
    <3>2. CASE ~pageUp
      BY <1>2, <3>2
    <3>3. QED
      BY <1>1, <3>1, <3>2
  <2>2. QED
    BY <2>1, NoSuchRun DEF Kept, Begun, TakesPlace
<1>5. Unloaded'
  BY <1>1, <1>2 DEF Kept, Unloaded, TakesPlace
<1>6. LastWord(toPage, deskCall) /\ ShownFirst(toPage, shown)
  BY DEF Kept, Latest
<1>7. CASE pageUp /\ Turn(s, d) /\ \A i \in Runs : run[i].at # "none" => run[i].call # d
  <2>1. LastWord(toPage', d) /\ ShownFirst(toPage', shown) /\ ~NoCalls(toPage')
    BY <1>1, <1>2, <1>6, <1>7, JoinedTurn
  <2>2. Latest' /\ Sounds' /\ Heard'
    BY <1>7, <2>1 DEF Latest, Sounds, Heard
  <2>3. QED
    BY <1>3, <1>4, <1>5, <1>7, <2>2 DEF Kept
<1>8. CASE /\ pageUp /\ d = deskCall /\ Plain(s, d) /\ (deskAnswered = d => deskAnswered' = d)
           /\ d # NoDeskCall /\ Pressed(toMain) => Pressed(toMain') \/ deskAnswered' = d
  <2>1. LastWord(toPage', d) /\ ShownFirst(toPage', shown)
        /\ (NoCalls(toPage') => NoCalls(toPage)) /\ (Shows(toPage) => Shows(toPage'))
    BY <1>1, <1>2, <1>6, <1>8, JoinedPlain
  <2>2. unheard' = unheard
    BY <1>8 DEF TakesPlace
  <2>3. Latest'
    BY <1>8, <2>1, <2>2 DEF Kept, Latest
  <2>4. Sounds'
    BY <1>8, <2>1, <2>2, NoSuchRun DEF Kept, Sounds
  <2>5. Heard'
    BY <1>8, NoSuchRun DEF Kept, Heard, DeskShape
  <2>6. QED
    BY <1>3, <1>4, <1>5, <1>8, <2>3, <2>4, <2>5 DEF Kept
<1>9. CASE ~pageUp
  <2>1. toPage' = toPage /\ ~pageUp' /\ DOMAIN toPage = {} /\ \A i \in Runs : run[i].at = "none"
    BY <1>2, <1>9 DEF Kept, Unloaded
  <2>2. Latest' /\ Sounds' /\ Heard'
    BY <2>1 DEF Latest, LastWord, ShownFirst, Sounds, Heard
  <2>3. QED
    BY <1>1, <1>4, <1>5, <2>1, <2>2 DEF Kept
<1>10. QED
  BY <1>1, <1>7, <1>8, <1>9 DEF Holds

\* A reply is read, or none; what rings goes on ringing, or a press is on its way.
Silences ==
  /\ ring = "off" => ring' = "off"
  /\ deskCall \in DeskCalls /\ shown = deskCall /\ ring # "off" /\ ~answering /\ ~excused' =>
       (ring' # "off" /\ ~answering') \/ deskAnswered = deskCall \/ Pressed(toMain')
RunsGo ==
  \A i \in Runs :
    /\ run'[i].call \in {run[i].call, shown, NoDeskCall}
    /\ run'[i].at # "none" => Pressed(toMain') \/ (run[i].at # "none" /\ run'[i].call = run[i].call)

LEMMA WindowMoves ==
  ASSUME DeskConstants, DeskShape, Kept, pageUp,
         toPage' = toPage \/ (toPage # <<>> /\ toPage' = Tail(toPage) /\ Head(toPage).is = "reply"),
         UNCHANGED <<placed, deskCall, deskAnswered, pageUp, shown, unheard>>,
         Pressed(toMain) => Pressed(toMain'), excused => excused', Silences, RunsGo
  PROVE  Kept'
<1>1. /\ LastWord(toPage', deskCall) /\ ShownFirst(toPage', shown)
      /\ (NoCalls(toPage') => NoCalls(toPage)) /\ (Shows(toPage) => Shows(toPage'))
      /\ \A n \in DOMAIN toPage' : \E m \in DOMAIN toPage : toPage'[n] = toPage[m]
  <2>1. LastWord(toPage, deskCall) /\ ShownFirst(toPage, shown) /\ toPage \in Seq(PageMsg)
    BY DEF Kept, Latest, DeskShape
  <2>2. CASE toPage' = toPage
    BY <2>1, <2>2
  <2>3. CASE toPage # <<>> /\ toPage' = Tail(toPage) /\ Head(toPage).is = "reply"
    <3>1. LastWord(toPage', deskCall) /\ (NoCalls(toPage') => NoCalls(toPage)) /\ (Shows(toPage) => Shows(toPage'))
      BY <2>1, <2>3, TakenWords
    <3>2. ShownFirst(toPage', shown)
      BY <2>1, <2>3, TakenFirst
    <3>3. \A n \in DOMAIN toPage' : n + 1 \in DOMAIN toPage /\ toPage'[n] = toPage[n + 1]
      BY <2>1, <2>3, Taken
    <3>4. QED
      BY <3>1, <3>2, <3>3
  <2>4. QED
    BY <2>2, <2>3
<1>2. Begun'
  BY <1>1, NoSuchRun DEF Kept, Begun, RunsGo
<1>3. Unloaded'
  BY DEF Unloaded
<1>4. Latest'
  BY <1>1 DEF Kept, Latest
<1>5. Sounds'
  <2> SUFFICES ASSUME ~excused', NoCalls(toPage')
      PROVE  /\ deskCall = NoDeskCall => ring' = "off"
             /\ deskCall \in DeskCalls \ unheard =>
                  (ring' # "off" /\ ~answering') \/ deskAnswered = deskCall \/ Pressed(toMain')
    BY DEF Sounds
  <2>1. ~excused /\ NoCalls(toPage)
    BY <1>1
  <2>2. deskCall \in DeskCalls \ unheard => shown = deskCall
    BY <2>1 DEF Kept, Latest
  <2>3. /\ deskCall = NoDeskCall => ring = "off"
        /\ deskCall \in DeskCalls \ unheard => (ring # "off" /\ ~answering) \/ deskAnswered = deskCall \/ Pressed(toMain)
    BY <2>1 DEF Kept, Sounds
  <2>4. QED
    BY <2>2, <2>3 DEF Silences
<1>6. Heard'
  BY DEF Kept, Heard, RunsGo
<1>7. QED
  BY <1>2, <1>3, <1>4, <1>5, <1>6 DEF Kept

\* One run goes on, and the others wait where they waited.
OthersWait(j) ==
  \A i \in Runs : i # j =>
    /\ (Bears(toMain', i) => Bears(toMain, i)) /\ (Bears(toPage', i) => Bears(toPage, i))
    /\ (Bids(toMain', i) => Bids(toMain, i))
    /\ (i \in talking' \cup hushed' => i \in talking \cup hushed)
    /\ run'[i] = run[i] /\ (said' = i => said = i)

LEMMA StillAwaits ==
  ASSUME Awaits, NEW j, OthersWait(j), Single(toMain'), Single(toPage'), voice' = voice,
         j \in Runs => OnePlace(j, toMain', toPage', talking' \cup hushed', run', said', voice')
  PROVE  Awaits'
<1>1. ASSUME NEW i \in Runs, i # j PROVE OnePlace(i, toMain', toPage', talking' \cup hushed', run', said', voice')
  BY <1>1 DEF Awaits, OthersWait, OnePlace
<1>2. QED
  BY <1>1 DEF Awaits

\* A letter that bears one run, which waits for nothing else
LEMMA LetterAwaits ==
  ASSUME DeskShape, Awaits, NEW d, NEW j \in Runs \cup {NoRun}, NEW s, Letter(s, d, j), Sends(s),
         UNCHANGED <<run, said, voice>>, Single(toMain'),
         \A i : (Bears(toMain', i) => Bears(toMain, i)) /\ (Bids(toMain', i) => Bids(toMain, i)),
         \A i \in Runs : i # j => (i \in talking' \cup hushed' => i \in talking \cup hushed),
         j \in Runs => /\ ~Bears(toPage, j) /\ ~Bears(toMain', j) /\ j \notin talking' \cup hushed'
                       /\ ~(run[j].at = "none" \/ (run[j].at = "speaking" /\ voice = "window"))
  PROVE  Awaits'
<1>1. s \in Seq(PageMsg) /\ toPage \in Seq(PageMsg) /\ Single(s) /\ (\A i : Bears(s, i) => i \in {NoRun, j})
  BY DEF Letter, DeskShape, Bears
<1>2. Single(toPage') /\ \A i : i \notin {NoRun, j} /\ Bears(toPage', i) => Bears(toPage, i)
  <2>1. CASE toPage' = toPage \o s
    <3>1. \A i : i # NoRun => ~(Bears(toPage, i) /\ Bears(s, i))
      BY <1>1
    <3>2. (\A i : Bears(toPage', i) => Bears(toPage, i) \/ Bears(s, i)) /\ Single(toPage')
      BY <1>1, <2>1, <3>1, JoinedRuns DEF Awaits
    <3>3. QED
      BY <1>1, <3>2
  <2>2. CASE toPage' = toPage
    BY <2>2 DEF Awaits
  <2>3. QED
    BY <2>1, <2>2 DEF Sends
<1>3. OthersWait(j)
  BY <1>2 DEF OthersWait, Runs, NoRun
<1>4. ASSUME j \in Runs PROVE OnePlace(j, toMain', toPage', talking' \cup hushed', run', said', voice')
  <2>1. ~Bids(toMain', j)
    BY <1>4 DEF Bids, Bears
  <2>2. said # j
    BY <1>4 DEF Awaits, OnePlace
  <2>3. QED
    BY <1>4, <2>1, <2>2 DEF OnePlace
<1>5. QED
  BY <1>2, <1>3, <1>4, StillAwaits

-----------------------------------------------------------------------------
(* The main process *)

\* What it reads or sends is of one run at most, which has then got what it waited for.
Settles(j) ==
  /\ Single(toMain') /\ \A i : (Bears(toMain', i) => Bears(toMain, i)) /\ (Bids(toMain', i) => Bids(toMain, i))
  /\ \A i \in Runs : i # j => (i \in talking' \cup hushed' => i \in talking \cup hushed)
  /\ j \in Runs => /\ ~Bears(toPage, j) /\ ~Bears(toMain', j) /\ j \notin talking' \cup hushed'
                   /\ ~(run[j].at = "none" \/ (run[j].at = "speaking" /\ voice = "window"))

LEMMA MainKeeps ==
  ASSUME DeskConstants, DeskInv, NEW d \in DeskCalls \cup {NoDeskCall}, NEW j \in Runs \cup {NoRun},
         NEW s, Letter(s, d, j), Sends(s), deskCall' = d,
         UNCHANGED <<pageUp, windowVars, run, voice, presses, excused>>, Holds(s, d), TakesPlace(d), Settles(j),
         placed' \in [DeskCalls -> DeskPlaces], toMain' \in Seq(MainMsg), talking' \subseteq Runs, hushed' \subseteq Runs
  PROVE  DeskInv'
<1>1. Kept' /\ toPage' \in Seq(PageMsg)
  BY MainMoves DEF DeskInv
<1>2. Awaits'
  BY LetterAwaits DEF DeskInv, Settles, windowVars
<1>3. DeskShape' /\ Counted'
  BY <1>1 DEF DeskInv, DeskShape, Counted, windowVars
<1>4. QED
  BY <1>1, <1>2, <1>3 DEF DeskInv

LEMMA NobodyReads ==
  ASSUME Awaits, UNCHANGED <<toMain, talking, hushed>>
  PROVE  Settles(NoRun)
BY DEF Awaits, Settles, NoRun, Runs

LEMMA NothingSent == DeskShape /\ toPage' = toPage => Sends(<<>>)
<1>1. DeskShape => toPage \o <<>> = toPage
  BY ConcatEmptySeq DEF DeskShape
<1>2. QED
  BY <1>1 DEF Sends

LEMMA HubsKeep ==
  ASSUME DeskConstants, DeskInv, NEW c \in DeskCalls, HubRingsDesk(c) \/ HubCancelsDesk(c) \/ HubLost(c)
  PROVE  DeskInv'
<1>1. /\ placed \in [DeskCalls -> DeskPlaces] /\ deskCall \in DeskCalls \cup {NoDeskCall} /\ toMain \in Seq(MainMsg)
      /\ talking \subseteq Runs /\ hushed \subseteq Runs /\ DeskShape /\ Kept /\ Awaits
      /\ NoRun \in Runs \cup {NoRun} /\ NoDeskCall \in DeskCalls \cup {NoDeskCall}
  BY DEF DeskInv, DeskShape
<1>2. UNCHANGED <<toMain, talking, hushed, pageUp, windowVars, run, voice, presses, excused>> /\ Settles(NoRun)
  BY <1>1, NobodyReads DEF HubRingsDesk, HubCancelsDesk, HubLost, restVars
<1>3. \A i \in Runs : run[i].at # "none" => run[i].call # NoDeskCall
  BY <1>1, NoSuchRun DEF DeskShape
<1>4. CASE HubRingsDesk(c)
  <2> DEFINE s == <<State(c), Call(c)>>
  <2>1. Letter(s, c, NoRun) /\ Turn(s, c)
    BY Letters
  <2>2. Sends(s) /\ deskCall' = c
    BY <1>4 DEF HubRingsDesk
  <2>3. placed' \in [DeskCalls -> DeskPlaces]
    BY <1>1, <1>4 DEF HubRingsDesk, DeskPlaces
  <2>4. TakesPlace(c)
    BY <1>1, <1>4 DEF HubRingsDesk, TakesPlace, Kept, Begun, DeskShape
  <2>5. \A i \in Runs : run[i].call # c
    BY <1>1, <1>4 DEF HubRingsDesk, Kept, Begun
  <2> HIDE DEF s
  <2>6. Holds(s, c)
    BY <2>1, <2>5 DEF Holds
  <2>7. QED
    BY <1>1, <1>2, <2>1, <2>2, <2>3, <2>4, <2>6, MainKeeps
<1>5. CASE HubCancelsDesk(c) \/ HubLost(c)
  <2>1. /\ placed[c] \in {"ringing", "answered"} /\ placed' = [placed EXCEPT ![c] = "over"] /\ unheard' = unheard
    BY <1>5 DEF HubCancelsDesk, HubLost, restVars
  <2>2. placed' \in [DeskCalls -> DeskPlaces]
    BY <1>1, <2>1 DEF DeskPlaces
  <2>3. TakesPlace(deskCall) /\ TakesPlace(NoDeskCall)
    BY <1>1, <1>2, <2>1, NoSuchRun DEF TakesPlace, Kept, Begun, Unloaded
  <2>4. CASE deskCall' = NoDeskCall /\ Sends(ClearCallSent)
    <3>1. Letter(ClearCallSent, NoDeskCall, NoRun) /\ Turn(ClearCallSent, NoDeskCall)
      BY ClearingLetters
    <3>2. Holds(ClearCallSent, NoDeskCall)
      BY <1>3, <3>1 DEF Holds
    <3>3. QED
      BY <1>1, <1>2, <2>2, <2>3, <2>4, <3>1, <3>2, MainKeeps
  <2>5. ASSUME UNCHANGED <<deskCall, deskAnswered>>, NEW s, Letter(s, deskCall, NoRun), Plain(s, deskCall), Sends(s)
        PROVE  DeskInv'
    <3>1. Holds(s, deskCall)
      BY <1>2, <2>5 DEF Holds
    <3>2. QED
      BY <1>1, <1>2, <2>2, <2>3, <2>5, <3>1, MainKeeps
  <2>6. CASE UNCHANGED <<deskCall, deskAnswered, toPage>>
    BY <1>1, <2>5, <2>6, Letters, NothingSent
  <2>7. CASE UNCHANGED <<deskCall, deskAnswered>> /\ Sends(<<State(deskCall)>>)
    BY <1>1, <2>5, <2>7, Letters
  <2>8. QED
    BY <1>5, <2>4, <2>6, <2>7 DEF HubCancelsDesk, HubLost, ClearsCall
<1>6. QED
  BY <1>4, <1>5

LEMMA SystemSpeechKeeps ==
  ASSUME DeskConstants, DeskInv, NEW i \in Runs, SystemSpeechEnds(i)
  PROVE  DeskInv'
<1>1. /\ placed \in [DeskCalls -> DeskPlaces] /\ deskCall \in DeskCalls \cup {NoDeskCall} /\ toMain \in Seq(MainMsg)
      /\ talking \subseteq Runs /\ hushed \subseteq Runs /\ Kept /\ Awaits /\ i \in Runs \cup {NoRun}
  BY DEF DeskInv, DeskShape
<1>2. /\ UNCHANGED <<placed, deskCall, deskAnswered, toMain, pageUp, windowVars, run, voice, presses, excused, unheard>>
      /\ i \in talking \cup hushed /\ talking' = talking \ {i} /\ hushed' = hushed \ {i} /\ Sends(<<Reply(i)>>)
  BY DEF SystemSpeechEnds, restVars
<1> DEFINE s == <<Reply(i)>>
<1>3. Letter(s, deskCall, i) /\ Plain(s, deskCall) /\ Sends(s)
  BY <1>1, <1>2, Letters
<1> HIDE DEF s
<1>4. Holds(s, deskCall)
  BY <1>2, <1>3 DEF Holds
<1>5. TakesPlace(deskCall)
  BY <1>1, <1>2 DEF TakesPlace, Kept, Begun, Unloaded
<1>6. Settles(i)
  BY <1>1, <1>2 DEF Awaits, OnePlace, Settles
<1>7. talking' \subseteq Runs /\ hushed' \subseteq Runs
  BY <1>1, <1>2
<1>8. QED
  BY <1>1, <1>2, <1>3, <1>4, <1>5, <1>6, <1>7, MainKeeps

LEMMA MainHandlesKeeps ==
  ASSUME DeskConstants, DeskInv, MainHandles
  PROVE  DeskInv'
<1> DEFINE m == Head(toMain)
           j == m.run
<1>1. /\ placed \in [DeskCalls -> DeskPlaces] /\ deskCall \in DeskCalls \cup {NoDeskCall} /\ toMain \in Seq(MainMsg)
      /\ talking \subseteq Runs /\ hushed \subseteq Runs /\ DeskShape /\ Kept /\ Awaits /\ pageUp \in BOOLEAN
  BY DEF DeskInv, DeskShape
<1>2. /\ toMain # <<>> /\ toMain' = Tail(toMain) /\ unheard' = unheard
      /\ UNCHANGED <<pageUp, windowVars, run, voice, presses, excused>>
  BY DEF MainHandles, restVars
<1>3. m \in MainMsg /\ toMain' \in Seq(MainMsg)
  BY <1>1, <1>2, Taken
<1>4. pageUp
  BY <1>1, <1>2 DEF Kept, Unloaded
<1>5. /\ \A i : (Bears(toMain', i) => Bears(toMain, i)) /\ (Bids(toMain', i) => Bids(toMain, i))
      /\ Bears(toMain, j) /\ (m.is = "speak" => Bids(toMain, j))
      /\ Single(toMain') /\ (j # NoRun => ~Bears(toMain', j))
  BY <1>1, <1>2, TakenRuns DEF Awaits
<1>6. Pressed(toMain) => Pressed(toMain') \/ m.is \in {"answer", "decline"}
  BY <1>1, <1>2, TakenPress
<1>7. \A i \in Runs : run[i].at # "none" => run[i].call # NoDeskCall
  BY <1>1, NoSuchRun DEF DeskShape
<1> HIDE DEF m
<1>8. j \in Runs \cup {NoRun} /\ (m.is \in {"answer", "speak"} => j \in Runs) /\ m.call \in DeskCalls
  BY <1>3 DEF MainMsg
<1>9. j \in Runs => /\ ~Bears(toPage, j) /\ j \notin talking \cup hushed
                    /\ ~(run[j].at = "none" \/ (run[j].at = "speaking" /\ voice = "window"))
                    /\ (m.is = "speak" => run[j].at = "speaking" /\ voice = "system")
  BY <1>1, <1>5 DEF Awaits, OnePlace
<1> HIDE DEF j
<1>10. ASSUME talking' \cup hushed' \subseteq talking \cup hushed PROVE Settles(j)
  BY <1>5, <1>9, <1>10, NoSuchRun DEF Settles
<1>11. ASSUME \A c \in DeskCalls : placed'[c] = "none" => placed[c] = "none"
       PROVE  TakesPlace(deskCall) /\ TakesPlace(NoDeskCall)
  BY <1>1, <1>2, <1>4, <1>11, NoSuchRun DEF TakesPlace, Kept, Begun
<1>12. ASSUME talking' \subseteq Runs, hushed' \subseteq Runs, talking' \cup hushed' \subseteq talking \cup hushed,
              placed' \in [DeskCalls -> DeskPlaces], \A c \in DeskCalls : placed'[c] = "none" => placed[c] = "none",
              NEW d \in {deskCall, NoDeskCall}, deskCall' = d, NEW s, Letter(s, d, j), Sends(s),
              \/ Turn(s, d) /\ d = NoDeskCall
              \/ /\ d = deskCall /\ Plain(s, d) /\ (deskAnswered = d => deskAnswered' = d)
                 /\ d # NoDeskCall /\ Pressed(toMain) => Pressed(toMain') \/ deskAnswered' = d
       PROVE  DeskInv'
  <2>1. Holds(s, d)
    BY <1>7, <1>12 DEF Holds
  <2>2. TakesPlace(d) /\ Settles(j) /\ d \in DeskCalls \cup {NoDeskCall}
    BY <1>1, <1>10, <1>11, <1>12
  <2>3. QED
    BY <1>2, <1>3, <1>8, <1>12, <2>1, <2>2, MainKeeps
<1>13. CASE m.is = "answer" /\ MainAnswers(m)
  <2>1. /\ placed' \in [DeskCalls -> DeskPlaces] /\ \A c \in DeskCalls : placed'[c] = "none" => placed[c] = "none"
    BY <1>1, <1>13 DEF MainAnswers, DeskPlaces
  <2>2. deskCall' = deskCall /\ deskAnswered' = deskCall /\ Sends(<<Reply(j)>>) /\ UNCHANGED <<talking, hushed>>
    BY <1>13 DEF MainAnswers, j
  <2>3. Letter(<<Reply(j)>>, deskCall, j) /\ Plain(<<Reply(j)>>, deskCall)
    BY <1>1, <1>8, Letters
  <2>4. QED
    BY <1>1, <1>12, <2>1, <2>2, <2>3
<1>14. CASE m.is = "decline" /\ MainDeclines
  <2>1. UNCHANGED <<talking, hushed>>
    BY <1>14 DEF MainDeclines
  <2>2. CASE deskCall = NoDeskCall
    <3>1. UNCHANGED <<placed, deskCall, deskAnswered, toPage>>
      BY <1>14, <2>2 DEF MainDeclines
    <3>2. Letter(<<>>, deskCall, j) /\ Plain(<<>>, deskCall) /\ Sends(<<>>)
      BY <1>1, <1>8, <3>1, Letters, NothingSent
    <3>3. QED
      BY <1>1, <1>12, <2>1, <2>2, <3>1, <3>2
  <2>3. CASE deskCall # NoDeskCall
    <3>1. /\ placed' = [placed EXCEPT ![deskCall] = "over"] /\ deskCall' = NoDeskCall /\ Sends(ClearCallSent)
      BY <1>14, <2>3 DEF MainDeclines, ClearsCall
    <3>2. /\ placed' \in [DeskCalls -> DeskPlaces] /\ \A c \in DeskCalls : placed'[c] = "none" => placed[c] = "none"
      BY <1>1, <3>1 DEF DeskPlaces
    <3>3. Letter(ClearCallSent, NoDeskCall, j) /\ Turn(ClearCallSent, NoDeskCall)
      BY <1>8, ClearingLetters
    <3>4. QED
      BY <1>1, <1>12, <2>1, <3>1, <3>2, <3>3
  <2>4. QED
    BY <2>2, <2>3
<1>15. CASE m.is = "end" /\ MainEnds(m)
  <2>1. /\ placed' = IF placed[m.call] = "answered" THEN [placed EXCEPT ![m.call] = "over"] ELSE placed
        /\ talking' = {} /\ hushed' = hushed \cup talking
    BY <1>15 DEF MainEnds
  <2>2. /\ placed' \in [DeskCalls -> DeskPlaces] /\ \A c \in DeskCalls : placed'[c] = "none" => placed[c] = "none"
        /\ talking' \subseteq Runs /\ hushed' \subseteq Runs /\ talking' \cup hushed' \subseteq talking \cup hushed
    BY <1>1, <2>1 DEF DeskPlaces
  <2>3. CASE deskCall = m.call
    <3> DEFINE s == Append(ClearCallSent, Reply(j))
    <3>1. deskCall' = NoDeskCall /\ Sends(s)
      BY <1>15, <2>3 DEF MainEnds, ClearsCall, j
    <3>2. Letter(s, NoDeskCall, j) /\ Turn(s, NoDeskCall)
      BY <1>8, ClearingLetters
    <3> HIDE DEF s
    <3>3. QED
      BY <1>1, <1>12, <2>2, <3>1, <3>2
  <2>4. CASE deskCall # m.call
    <3>1. UNCHANGED <<deskCall, deskAnswered>> /\ Sends(<<Reply(j)>>)
      BY <1>15, <2>4 DEF MainEnds, j
    <3>2. Letter(<<Reply(j)>>, deskCall, j) /\ Plain(<<Reply(j)>>, deskCall)
      BY <1>1, <1>8, Letters
    <3>3. QED
      BY <1>1, <1>6, <1>12, <1>15, <2>2, <3>1, <3>2
  <2>5. QED
    BY <2>3, <2>4
<1>16. CASE m.is = "speak" /\ MainSpeaks(m)
  <2>1. talking' = talking \cup {j} /\ UNCHANGED <<placed, deskCall, deskAnswered, hushed, toPage>>
    BY <1>16 DEF MainSpeaks, j
  <2>2. j \in Runs
    BY <1>8, <1>16
  <2>3. Kept'
    <3>1. Letter(<<>>, deskCall, j) /\ Plain(<<>>, deskCall) /\ Sends(<<>>)
      BY <1>1, <1>8, <2>1, Letters, NothingSent
    <3>2. Holds(<<>>, deskCall) /\ TakesPlace(deskCall)
      BY <1>6, <1>11, <1>16, <2>1, <3>1 DEF Holds
    <3>3. QED
      BY <1>1, <1>2, <2>1, <3>1, <3>2, MainMoves
  <2>4. Awaits'
    <3>1. OthersWait(j)
      BY <1>2, <1>5, <2>1 DEF OthersWait, windowVars
    <3>2. OnePlace(j, toMain', toPage', talking' \cup hushed', run', said', voice')
      <4>1. ~Bears(toMain', j) /\ ~Bears(toPage, j) /\ run[j].at = "speaking" /\ voice = "system"
        BY <1>5, <1>9, <1>16, <2>2, NoSuchRun
      <4>2. ~Bids(toMain', j) /\ said # j
        BY <1>1, <2>2, <4>1 DEF Bids, Bears, Awaits, OnePlace
      <4>3. UNCHANGED <<run, said, voice, toPage>>
        BY <1>2, <2>1 DEF windowVars
      <4>4. QED
        BY <4>1, <4>2, <4>3 DEF OnePlace
    <3>3. QED
      BY <1>1, <1>2, <1>5, <2>1, <3>1, <3>2, StillAwaits DEF Awaits
  <2>5. DeskShape' /\ Counted'
    BY <1>1, <1>2, <1>3, <2>1, <2>2 DEF DeskInv, DeskShape, Counted, windowVars
  <2>6. QED
    BY <2>3, <2>4, <2>5 DEF DeskInv
<1>17. QED
  BY <1>13, <1>14, <1>15, <1>16 DEF MainHandles, m

-----------------------------------------------------------------------------
(* The window *)

LEMMA WindowLoadsKeeps ==
  ASSUME DeskConstants, DeskInv, WindowLoads
  PROVE  DeskInv'
<1> DEFINE s == <<State(deskCall)>>
<1>1. ~pageUp /\ pageUp' /\ toPage' = s /\ UNCHANGED <<mainVars, toMain, windowVars, run, restVars>>
  BY DEF WindowLoads
<1>2. DeskShape /\ Counted /\ Kept /\ Awaits /\ deskCall \in DeskCalls \cup {NoDeskCall}
  BY DEF DeskInv, DeskShape
<1>3. /\ DOMAIN toMain = {} /\ shown = NoDeskCall /\ ring = "off" /\ deskCall \in unheard \cup {NoDeskCall}
      /\ \A i \in Runs : run[i].at = "none"
  BY <1>1, <1>2 DEF Kept, Unloaded
<1>4. s \in Seq(PageMsg) /\ DOMAIN s = {1} /\ s[1] = State(deskCall)
  <2>1. State(deskCall) \in PageMsg
    BY <1>2 DEF State, PageMsg
  <2>2. QED
    BY <2>1
<1> HIDE DEF s
<1>5. s[1].is = "state" /\ s[1].call = deskCall /\ s[1].run = NoRun
  BY <1>4 DEF State
<1>6. DeskShape' /\ Counted'
  BY <1>1, <1>2, <1>4 DEF DeskShape, Counted, mainVars, windowVars, restVars
<1>7. Begun'
  BY <1>1, <1>2, <1>4, <1>5 DEF Kept, Begun, mainVars, windowVars, restVars
<1>8. Latest'
  <2>1. LastWord(s, deskCall) /\ ShownFirst(s, shown) /\ Shows(s)
    BY <1>4, <1>5 DEF LastWord, ShownFirst, Shows
  <2>2. QED
    BY <1>1, <1>3, <2>1, NoSuchRun DEF Latest, mainVars, windowVars, restVars
<1>9. Unloaded' /\ Sounds' /\ Heard'
  BY <1>1, <1>3, NoSuchRun DEF Unloaded, Sounds, Heard, mainVars, windowVars, restVars
<1>10. Awaits'
  <2>1. Single(s) /\ \A i \in Runs : ~Bears(s, i)
    BY <1>4, <1>5, NoSuchRun DEF Single, Bears
  <2>2. OthersWait(NoRun)
    BY <1>1, <2>1 DEF OthersWait, mainVars, windowVars
  <2>3. QED
    BY <1>1, <1>2, <2>1, <2>2, NoSuchRun, StillAwaits DEF Awaits, restVars
<1>11. QED
  BY <1>6, <1>7, <1>8, <1>9, <1>10 DEF DeskInv, Kept

\* What the window reads of a call
LEMMA PageReadsKeeps ==
  ASSUME DeskConstants, DeskInv, toPage # <<>>, toPage' = Tail(toPage),
         UNCHANGED <<mainVars, pageUp, voice, presses, unheard>>, NEW m, m = Head(toPage),
         (m.is = "state" /\ PageState(m)) \/ (m.is = "call" /\ PageCall(m))
  PROVE  DeskInv'
<1>1. DeskShape /\ Counted /\ Kept /\ Awaits /\ toPage \in Seq(PageMsg) /\ pageUp \in BOOLEAN
  BY DEF DeskInv, DeskShape
<1>2. /\ m \in PageMsg /\ toPage' \in Seq(PageMsg) /\ (\E n \in DOMAIN toPage : toPage[n] = m)
      /\ \A n \in DOMAIN toPage' : \E k \in DOMAIN toPage : toPage'[n] = toPage[k]
  <2>1. /\ m \in PageMsg /\ toPage' \in Seq(PageMsg) /\ 1 \in DOMAIN toPage /\ toPage[1] = m
        /\ \A n \in DOMAIN toPage' : n + 1 \in DOMAIN toPage /\ toPage'[n] = toPage[n + 1]
    BY <1>1, Taken
  <2>2. QED
    BY <2>1
<1>3. /\ LastWord(toPage', deskCall) /\ (NoCalls(toPage') => m.call = deskCall)
      /\ (m.is # "call" /\ NoCalls(toPage') => NoCalls(toPage))
  BY <1>1, TakenWords DEF Kept, Latest
<1>4. /\ m.is = "state" => ShownFirst(toPage', m.call)
      /\ m.is = "call" => ShownFirst(toPage', shown) /\ m.call = shown
  BY <1>1, TakenFirst DEF Kept, Latest
<1>5. pageUp
  BY <1>1 DEF Kept, Unloaded
<1>6. m.call \in DeskCalls \cup {NoDeskCall} /\ m.is \in {"state", "call"}
  BY <1>2 DEF PageMsg
<1>7. UNCHANGED <<placed, deskCall, deskAnswered, talking, hushed, toMain, run, excused>>
  BY DEF mainVars, PageState, PageCall
<1>8. shown' = (IF m.is = "state" THEN m.call ELSE shown) /\ said' \in {said, NoRun} /\ answering' \in {answering, FALSE}
  BY DEF PageState, PageCall, ResetsCall
<1>9. DeskShape' /\ Counted'
  BY <1>1, <1>2, <1>6, <1>7, <1>8 DEF DeskShape, Counted
<1>10. Begun'
  BY <1>1, <1>2, <1>7, <1>8 DEF Kept, Begun
<1>11. Unloaded' /\ Heard'
  BY <1>1, <1>5, <1>7 DEF Unloaded, Kept, Heard
<1>12. ShownFirst(toPage', shown') /\ (NoCalls(toPage') => shown' = deskCall)
  BY <1>3, <1>4, <1>6, <1>8
<1>13. Latest'
  BY <1>3, <1>7, <1>12 DEF Latest
<1>14. Sounds'
  <2>1. CASE m.is = "state"
    <3>1. ring' = ring /\ answering' = answering
      BY <2>1 DEF PageState
    <3>2. QED
      BY <1>1, <1>3, <1>5, <1>7, <2>1, <3>1 DEF Kept, Sounds
  <2>2. CASE m.is = "call"
    <3>1. IF m.call = NoDeskCall THEN ring' = "off" ELSE ring' = "on" /\ ~answering'
      BY <2>2 DEF PageCall, ResetsCall
    <3>2. QED
      BY <1>3, <1>7, <3>1, NoSuchRun DEF Sounds
  <2>3. QED
    BY <1>6, <2>1, <2>2
<1>15. Awaits'
  <2>1. Single(toPage') /\ \A i : Bears(toPage', i) => Bears(toPage, i)
    BY <1>1, TakenRuns DEF Awaits
  <2>2. OthersWait(NoRun)
    BY <1>7, <1>8, <2>1, NoSuchRun DEF OthersWait
  <2>3. QED
    BY <1>1, <1>7, <2>1, <2>2, NoSuchRun, StillAwaits DEF Awaits
<1>16. QED
  BY <1>9, <1>10, <1>11, <1>13, <1>14, <1>15 DEF DeskInv, Kept

\* Where one run goes on, or none, and whatever else the window does of itself
LEMMA RunKeeps ==
  ASSUME DeskConstants, DeskInv, pageUp, NEW j \in Runs \cup {NoRun},
         toPage' = toPage \/ (toPage # <<>> /\ toPage' = Tail(toPage) /\ Head(toPage).is = "reply"),
         UNCHANGED <<mainVars, pageUp, shown, voice, unheard>>,
         toMain' \in Seq(MainMsg), Pressed(toMain) => Pressed(toMain'), Single(toMain'), Single(toPage'),
         OthersWait(j), j \in Runs => OnePlace(j, toMain', toPage', talking \cup hushed, run', said', voice),
         excused => excused', Silences, RunsGo, Counted',
         run' \in [Runs -> DeskRun], \A i \in Runs : run'[i].at # "none" => run'[i].call \in DeskCalls,
         said' \in Runs \cup {NoRun}, answering' \in BOOLEAN, excused' \in BOOLEAN
  PROVE  DeskInv'
<1>1. DeskShape /\ Kept /\ Awaits /\ toPage \in Seq(PageMsg)
  BY DEF DeskInv, DeskShape
<1>2. toPage' \in Seq(PageMsg)
  BY <1>1, Taken
<1>3. UNCHANGED <<placed, deskCall, deskAnswered, talking, hushed, pageUp, shown, voice, unheard>>
  BY DEF mainVars
<1>4. Kept'
  BY <1>1, <1>3, WindowMoves
<1>5. Awaits'
  BY <1>1, <1>3, StillAwaits
<1>6. DeskShape'
  BY <1>1, <1>2, <1>3 DEF DeskShape
<1>7. QED
  BY <1>4, <1>5, <1>6 DEF DeskInv

LEMMA RunAt ==
  ASSUME DeskConstants, DeskShape, Counted, NEW j \in Runs, run[j].at # "none",
         NEW a \in {"speaking", "ending"}, run' = [run EXCEPT ![j].at = a], presses' = presses
  PROVE  /\ run' \in [Runs -> DeskRun] /\ (\A i \in Runs : run'[i].at # "none" => run'[i].call \in DeskCalls)
         /\ run'[j].at = a /\ (\A i \in Runs : i # j => run'[i] = run[i]) /\ run[j].call \in DeskCalls
         /\ RunsGo /\ Counted'
<1>1. /\ run[j] \in DeskRun /\ run' \in [Runs -> DeskRun] /\ run'[j].at = a /\ run'[j].call = run[j].call
      /\ \A i \in Runs : i # j => run'[i] = run[i]
  BY DEF DeskShape, DeskRun
<1>2. run[j].call \in DeskCalls
  BY DEF DeskShape
<1>3. \A i \in Runs : run'[i].call = run[i].call /\ (run'[i].at # "none" => run[i].at # "none")
  BY <1>1
<1>4. Counted'
  BY <1>3 DEF Counted
<1>5. QED
  BY <1>1, <1>2, <1>3, <1>4 DEF RunsGo, DeskShape

LEMMA Invoked ==
  ASSUME DeskConstants, DeskShape, Awaits, NEW j \in Runs \cup {NoRun}, NEW c \in DeskCalls,
         NEW what \in {"answer", "decline", "speak", "end"}, what \in {"answer", "speak"} => j \in Runs,
         j # NoRun => ~Bears(toMain, j), toMain' = Invoke(what, c, j)
  PROVE  /\ toMain' \in Seq(MainMsg) /\ Single(toMain')
         /\ Pressed(toMain) \/ what \in {"answer", "decline"} => Pressed(toMain')
         /\ \A i : i # j => (Bears(toMain', i) => Bears(toMain, i)) /\ (Bids(toMain', i) => Bids(toMain, i))
         /\ Bids(toMain', j) /\ j # NoRun => what = "speak"
<1> DEFINE f == [is |-> what, call |-> c, run |-> j]
<1>1. f \in MainMsg /\ toMain' = Append(toMain, f) /\ f.is = what /\ f.run = j /\ toMain \in Seq(MainMsg)
  BY DEF MainMsg, Invoke, DeskShape
<1> HIDE DEF f
<1>2. /\ toMain' \in Seq(MainMsg)
      /\ \A i : Bears(toMain', i) => Bears(toMain, i) \/ f.run = i
      /\ \A i : Bids(toMain', i) => Bids(toMain, i) \/ (f.is = "speak" /\ f.run = i)
      /\ Pressed(toMain) \/ f.is \in {"answer", "decline"} => Pressed(toMain')
      /\ Single(toMain) /\ (f.run = NoRun \/ ~Bears(toMain, f.run)) => Single(toMain')
  BY <1>1, PostedOn
<1>3. j # NoRun => ~Bids(toMain, j)
  BY DEF Bids, Bears
<1>4. QED
  BY <1>1, <1>2, <1>3 DEF Awaits

\* A run that is told to hang up, or whose turn of the system's voice comes
LEMMA RunInvokes ==
  ASSUME DeskConstants, DeskInv, pageUp, NEW j \in Runs, run[j].at # "none",
         \/ toPage' = toPage /\ ~Bears(toPage, j)
         \/ toPage # <<>> /\ toPage' = Tail(toPage) /\ Head(toPage).is = "reply" /\ Head(toPage).run = j,
         ~Bears(toMain, j), j \notin talking \cup hushed,
         UNCHANGED <<mainVars, pageUp, shown, voice, unheard, presses, excused, answering, ring>>,
         said' \in {said, NoRun}, said' # j,
         NEW what \in {"speak", "end"}, what = "speak" => voice = "system", toMain' = Invoke(what, run[j].call, j),
         run' = [run EXCEPT ![j].at = IF what = "speak" THEN "speaking" ELSE "ending"]
  PROVE  DeskInv'
<1> DEFINE a == IF what = "speak" THEN "speaking" ELSE "ending"
<1>1. DeskShape /\ Counted /\ Kept /\ Awaits /\ toPage \in Seq(PageMsg) /\ j \in Runs \cup {NoRun} /\ j # NoRun
  BY NoSuchRun DEF DeskInv, DeskShape
<1>2. a \in {"speaking", "ending"} /\ run' = [run EXCEPT ![j].at = a]
  OBVIOUS
<1>3. (a = "speaking" => what = "speak" /\ voice = "system") /\ a # "none" /\ (what = "speak" => a = "speaking")
  OBVIOUS
<1> HIDE DEF a
<1>4. /\ run' \in [Runs -> DeskRun] /\ (\A i \in Runs : run'[i].at # "none" => run'[i].call \in DeskCalls)
      /\ run'[j].at = a /\ (\A i \in Runs : i # j => run'[i] = run[i]) /\ run[j].call \in DeskCalls
      /\ RunsGo /\ Counted'
  BY <1>1, <1>2, RunAt
<1>5. /\ toMain' \in Seq(MainMsg) /\ Single(toMain') /\ (Pressed(toMain) => Pressed(toMain'))
      /\ \A i : i # j => (Bears(toMain', i) => Bears(toMain, i)) /\ (Bids(toMain', i) => Bids(toMain, i))
      /\ Bids(toMain', j) => what = "speak"
  BY <1>1, <1>4, Invoked
<1>6. Single(toPage') /\ ~Bears(toPage', j) /\ \A i : Bears(toPage', i) => Bears(toPage, i)
  <2>1. CASE toPage' = toPage /\ ~Bears(toPage, j)
    BY <1>1, <2>1 DEF Awaits
  <2>2. CASE toPage # <<>> /\ toPage' = Tail(toPage) /\ Head(toPage).run = j
    BY <1>1, <2>2, TakenRuns DEF Awaits
  <2>3. QED
    BY <2>1, <2>2
<1>7. OthersWait(j)
  BY <1>4, <1>5, <1>6, NoSuchRun DEF OthersWait, mainVars
<1>8. OnePlace(j, toMain', toPage', talking \cup hushed, run', said', voice)
  <2>1. voice = "system" => voice # "window"
    OBVIOUS
  <2>2. QED
    BY <1>3, <1>4, <1>5, <1>6, <2>1 DEF OnePlace
<1>9. Silences
  BY DEF Silences
<1>10. said' \in Runs \cup {NoRun} /\ answering' \in BOOLEAN /\ excused' \in BOOLEAN
  BY <1>1 DEF DeskShape
<1>11. QED
  BY <1>1, <1>4, <1>5, <1>6, <1>7, <1>8, <1>9, <1>10, RunKeeps

\* A reply is read by the run that awaits it.
LEMMA PageRepliesKeeps ==
  ASSUME DeskConstants, DeskInv, toPage # <<>>, toPage' = Tail(toPage), Head(toPage).is = "reply",
         UNCHANGED <<mainVars, pageUp, voice, presses, unheard>>, NEW j, j = Head(toPage).run,
         \/ j = NoRun /\ UNCHANGED <<toMain, windowVars, run, excused>>
         \/ j # NoRun /\ (AfterAnswered(j) \/ AfterSystemSpeech(j) \/ AfterEnded(j))
  PROVE  DeskInv'
<1>1. DeskShape /\ Counted /\ Kept /\ Awaits /\ toPage \in Seq(PageMsg) /\ toMain \in Seq(MainMsg) /\ run \in [Runs -> DeskRun]
  BY DEF DeskInv, DeskShape
<1>2. Head(toPage) \in PageMsg /\ toPage' \in Seq(PageMsg)
  BY <1>1, Taken
<1>3. j \in Runs \cup {NoRun}
  BY <1>2 DEF PageMsg
<1>4. /\ \A i : Bears(toPage', i) => Bears(toPage, i)
      /\ Bears(toPage, j) /\ Single(toPage') /\ (j # NoRun => ~Bears(toPage', j)) /\ Single(toMain)
  BY <1>1, TakenRuns DEF Awaits
<1>5. pageUp
  <2>1. DOMAIN toPage # {}
    BY <1>1, Taken
  <2>2. QED
    BY <1>1 DEF Kept, Unloaded, DeskShape
<1>6. j # NoRun => /\ j \in Runs /\ ~Bears(toMain, j) /\ j \notin talking \cup hushed
                   /\ run[j].at # "none" /\ said # j /\ ~Bids(toMain, j)
  <2>1. ASSUME j \in Runs PROVE OnePlace(j, toMain, toPage, talking \cup hushed, run, said, voice)
    BY <1>1, <2>1 DEF Awaits
  <2>2. Bids(toMain, j) => Bears(toMain, j)
    BY DEF Bids, Bears
  <2>3. QED
    BY <1>3, <1>4, <2>1, <2>2 DEF OnePlace
<1>7. CASE j = NoRun /\ UNCHANGED <<toMain, windowVars, run, excused>>
  <2>1. OthersWait(j)
    BY <1>4, <1>7 DEF OthersWait, mainVars, windowVars
  <2>2. Silences /\ RunsGo
    BY <1>7 DEF Silences, RunsGo, windowVars
  <2>3. /\ Counted' /\ (\A i \in Runs : run'[i].at # "none" => run'[i].call \in DeskCalls)
        /\ said' \in Runs \cup {NoRun} /\ answering' \in BOOLEAN /\ excused' \in BOOLEAN
    BY <1>1, <1>7 DEF Counted, DeskShape, windowVars
  <2>4. UNCHANGED <<toMain, shown, run, excused>> /\ j \notin Runs
    BY <1>7, NoSuchRun DEF windowVars
  <2>5. QED
    BY <1>1, <1>3, <1>4, <1>5, <2>1, <2>2, <2>3, <2>4, RunKeeps
<1>8. CASE j # NoRun /\ AfterAnswered(j)
  <2>1. run[j].at = "answering" /\ UNCHANGED <<shown, answering, ring, excused>>
    BY <1>8 DEF AfterAnswered
  <2>2. CASE voice = "off"
    <3>1. /\ run' = [run EXCEPT ![j].at = "ending"] /\ toMain' = Invoke("end", run[j].call, j) /\ said' = said
      BY <1>8, <2>2 DEF AfterAnswered, Ends
    <3>2. QED
      BY <1>5, <1>6, <1>8, <2>1, <3>1, RunInvokes
  <2>3. CASE voice = "system"
    <3>1. /\ run' = [run EXCEPT ![j].at = "speaking"] /\ toMain' = Invoke("speak", run[j].call, j) /\ said' = said
      BY <1>8, <2>3 DEF AfterAnswered
    <3>2. QED
      BY <1>5, <1>6, <1>8, <2>1, <2>3, <3>1, RunInvokes
  <2>4. CASE voice = "window"
    <3>1. run' = [run EXCEPT ![j].at = "speaking"] /\ toMain' = toMain /\ said' = j
      BY <1>8, <2>4 DEF AfterAnswered
    <3>2. /\ run' \in [Runs -> DeskRun] /\ (\A i \in Runs : run'[i].at # "none" => run'[i].call \in DeskCalls)
          /\ run'[j].at = "speaking" /\ (\A i \in Runs : i # j => run'[i] = run[i])
          /\ RunsGo /\ Counted'
      BY <1>1, <1>6, <1>8, <3>1, RunAt
    <3>3. OthersWait(j)
      BY <1>4, <3>1, <3>2 DEF OthersWait, mainVars
    <3>4. OnePlace(j, toMain', toPage', talking \cup hushed, run', said', voice)
      BY <1>4, <1>6, <1>8, <2>4, <3>1, <3>2 DEF OnePlace
    <3>5. Silences
      BY <2>1 DEF Silences
    <3>6. said' \in Runs \cup {NoRun} /\ answering' \in BOOLEAN /\ excused' \in BOOLEAN
      BY <1>1, <1>3, <2>1, <3>1 DEF DeskShape
    <3>7. QED
      BY <1>1, <1>3, <1>4, <1>5, <2>1, <3>1, <3>2, <3>3, <3>4, <3>5, <3>6, RunKeeps
  <2>5. QED
    BY <1>1, <2>2, <2>3, <2>4 DEF DeskShape
<1>9. CASE j # NoRun /\ AfterSystemSpeech(j)
  <2>1. /\ run' = [run EXCEPT ![j].at = "ending"] /\ toMain' = Invoke("end", run[j].call, j)
        /\ UNCHANGED <<shown, answering, ring, excused, said>>
    BY <1>9 DEF AfterSystemSpeech, Ends, windowVars
  <2>2. QED
    BY <1>5, <1>6, <1>9, <2>1, RunInvokes
<1>10. CASE j # NoRun /\ AfterEnded(j)
  <2>1. /\ run[j].at = "ending" /\ run' = [run EXCEPT ![j] = Free] /\ UNCHANGED <<toMain, shown>>
        /\ excused' = (excused \/ (voice = "off" /\ shown \notin {NoDeskCall, run[j].call}))
        /\ IF voice = "off" \/ Own(j) THEN ResetsCall ELSE UNCHANGED <<ring, said, answering, readingOut>>
    BY <1>10 DEF AfterEnded
  <2>2. /\ run' \in [Runs -> DeskRun] /\ run'[j] = Free /\ \A i \in Runs : i # j => run'[i] = run[i]
    BY <1>1, <1>6, <1>10, <2>1 DEF Free, DeskRun
  <2>3. (\A i \in Runs : run'[i].at # "none" => run'[i].call \in DeskCalls) /\ Counted' /\ RunsGo
    <3>1. \A i \in Runs : run'[i] = run[i] \/ (run'[i].call = NoDeskCall /\ run'[i].at = "none")
      BY <2>2 DEF Free
    <3>2. \A i \in Runs : run'[i].at # "none" => run'[i].call \in DeskCalls
      BY <1>1, <3>1 DEF DeskShape
    <3>3. Counted'
      BY <1>1, <3>1 DEF Counted
    <3>4. RunsGo
      BY <3>1 DEF RunsGo
    <3>5. QED
      BY <3>2, <3>3, <3>4
  <2>4. said' \in {said, NoRun} /\ answering' \in {answering, FALSE} /\ ring' \in {ring, "off"}
    BY <2>1 DEF ResetsCall
  <2>5. OthersWait(j)
    BY <1>4, <2>1, <2>2, <2>4, NoSuchRun DEF OthersWait, mainVars
  <2>6. OnePlace(j, toMain', toPage', talking \cup hushed, run', said', voice)
    BY <1>4, <1>6, <1>10, <2>1, <2>2, <2>4 DEF OnePlace
  <2>7. Silences
    <3>1. ASSUME deskCall \in DeskCalls, shown = deskCall, ring # "off", ~answering, ~excused'
          PROVE  (ring' # "off" /\ ~answering') \/ deskAnswered = deskCall \/ Pressed(toMain')
      <4>1. CASE voice = "off" \/ Own(j)
        <5>1. shown # NoDeskCall
          BY <3>1, NoSuchRun
        <5>2. run[j].call = deskCall
          BY <2>1, <3>1, <4>1, <5>1 DEF Own
        <5>3. QED
          BY <1>1, <1>6, <1>10, <2>1, <5>2 DEF Kept, Heard
      <4>2. CASE ~(voice = "off" \/ Own(j))
        BY <2>1, <3>1, <4>2
      <4>3. QED
        BY <4>1, <4>2
    <3>2. QED
      BY <2>4, <3>1 DEF Silences
  <2>8. said' \in Runs \cup {NoRun} /\ answering' \in BOOLEAN /\ excused' \in BOOLEAN
    BY <1>1, <2>1, <2>4 DEF DeskShape
  <2>9. QED
    BY <1>1, <1>3, <1>4, <1>5, <2>1, <2>2, <2>3, <2>5, <2>6, <2>7, <2>8, RunKeeps
<1>11. QED
  BY <1>7, <1>8, <1>9, <1>10

LEMMA UtteranceKeeps ==
  ASSUME DeskConstants, DeskInv, NEW i \in Runs, UtteranceEnds(i)
  PROVE  DeskInv'
<1>1. /\ run[i].at = "speaking" /\ voice = "window" /\ toMain' = Invoke("end", run[i].call, i)
      /\ run' = [run EXCEPT ![i].at = "ending"] /\ said' = IF said = i THEN NoRun ELSE said
      /\ UNCHANGED <<mainVars, toPage, pageUp, shown, answering, ring, voice, presses, unheard, excused>>
  BY DEF UtteranceEnds, Ends, restVars
<1>2. DeskShape /\ Kept /\ Awaits /\ i # NoRun
  BY NoSuchRun DEF DeskInv
<1>3. ~Bears(toMain, i) /\ ~Bears(toPage, i) /\ i \notin talking \cup hushed
  <2>1. OnePlace(i, toMain, toPage, talking \cup hushed, run, said, voice)
    BY <1>2 DEF Awaits
  <2>2. QED
    BY <1>1, <2>1 DEF OnePlace
<1>4. pageUp
  BY <1>1, <1>2 DEF Kept, Unloaded
<1>5. said' \in {said, NoRun} /\ said' # i
  BY <1>1, <1>2
<1>6. QED
  BY <1>1, <1>3, <1>4, <1>5, RunInvokes

\* Whatever is pressed is pressed on a call that the window shows.
LEMMA PressesKeep ==
  ASSUME DeskConstants, DeskInv,
         (\E i \in Runs : PressAnswerDesk(i)) \/ PressDeclineDesk \/ PressHangUpDesk \/ RingTimesOut
  PROVE  DeskInv'
<1>1. /\ DeskShape /\ Counted /\ Kept /\ Awaits /\ run \in [Runs -> DeskRun] /\ shown \in DeskCalls \cup {NoDeskCall}
      /\ said \in Runs \cup {NoRun} /\ answering \in BOOLEAN /\ excused \in BOOLEAN /\ presses \in Nat
      /\ toMain \in Seq(MainMsg) /\ NoRun \in Runs \cup {NoRun} /\ NoRun \notin Runs
      /\ \A i \in Runs : run[i].at # "none" => run[i].call \in DeskCalls
  BY NoSuchRun DEF DeskInv, DeskShape, Counted
<1>2. Single(toMain) /\ Single(toPage)
  BY <1>1 DEF Awaits
<1>3. pageUp
  BY <1>1 DEF Kept, Unloaded, PressAnswerDesk, PressDeclineDesk, PressHangUpDesk, RingTimesOut
<1>4. CASE \E i \in Runs : PressAnswerDesk(i)
  <2>1. PICK i \in Runs : PressAnswerDesk(i)
    BY <1>4
  <2>2. /\ shown # NoDeskCall /\ i = presses + 1 /\ presses' = i /\ toMain' = Invoke("answer", shown, i)
        /\ run' = [run EXCEPT ![i] = [call |-> shown, at |-> "answering"]] /\ answering' = TRUE /\ ring' = "off"
        /\ UNCHANGED <<mainVars, toPage, pageUp, shown, said, voice, unheard, excused>>
    BY <2>1 DEF PressAnswerDesk
  <2>3. i \in Runs \cup {NoRun} /\ i # NoRun /\ shown \in DeskCalls /\ i > presses /\ i \in Nat
    BY <1>1, <2>2, NoSuchRun
  <2>4. run[i].at = "none"
    BY <1>1, <2>3 DEF Counted
  <2>5. /\ ~Bears(toMain, i) /\ ~Bears(toPage, i) /\ i \notin talking \cup hushed /\ said # i
    <3>1. OnePlace(i, toMain, toPage, talking \cup hushed, run, said, voice)
      BY <1>1 DEF Awaits
    <3>2. QED
      BY <2>4, <3>1 DEF OnePlace
  <2>6. /\ toMain' \in Seq(MainMsg) /\ Single(toMain') /\ Pressed(toMain')
        /\ \A k : k # i => (Bears(toMain', k) => Bears(toMain, k)) /\ (Bids(toMain', k) => Bids(toMain, k))
        /\ ~Bids(toMain', i)
    BY <1>1, <2>2, <2>3, <2>5, Invoked
  <2>7. /\ run' \in [Runs -> DeskRun] /\ run'[i].call = shown /\ run'[i].at = "answering"
        /\ \A k \in Runs : k # i => run'[k] = run[k]
    BY <1>1, <2>2, <2>3 DEF DeskRun
  <2>8. \A k \in Runs : run'[k].at # "none" => run'[k].call \in DeskCalls
    BY <1>1, <2>3, <2>7
  <2>9. Counted'
    <3>1. ASSUME NEW k \in Runs, k > presses' PROVE run'[k].at = "none"
      <4>1. k \in Nat /\ k # i /\ k > presses
        BY <1>1, <2>2, <2>3, <3>1, NoSuchRun
      <4>2. QED
        BY <1>1, <2>7, <4>1 DEF Counted
    <3>2. QED
      BY <2>2, <2>3, <3>1 DEF Counted
  <2>10. OthersWait(i)
    BY <2>2, <2>6, <2>7 DEF OthersWait, mainVars
  <2>11. OnePlace(i, toMain', toPage', talking \cup hushed, run', said', voice)
    BY <2>2, <2>5, <2>6, <2>7 DEF OnePlace
  <2>12. Silences
    BY <2>2, <2>6 DEF Silences
  <2>13. RunsGo
    BY <2>6, <2>7 DEF RunsGo
  <2>14. QED
    BY <1>1, <1>2, <1>3, <2>2, <2>3, <2>6, <2>7, <2>8, <2>9, <2>10, <2>11, <2>12, <2>13, RunKeeps
<1>5. ASSUME UNCHANGED <<mainVars, toPage, pageUp, shown, run, voice, unheard, excused>>, toMain' \in Seq(MainMsg),
             Single(toMain'), Pressed(toMain) => Pressed(toMain'), presses' \in {presses, presses + 1},
             \A i : i # NoRun => (Bears(toMain', i) => Bears(toMain, i)) /\ (Bids(toMain', i) => Bids(toMain, i)),
             said' \in {said, NoRun}, answering' \in {answering, FALSE}, Silences
      PROVE  DeskInv'
  <2>1. OthersWait(NoRun)
    BY <1>1, <1>5 DEF OthersWait, mainVars
  <2>2. RunsGo
    BY <1>5 DEF RunsGo
  <2>3. Counted'
    <3>1. presses' \in Nat /\ presses' >= presses
      BY <1>1, <1>5
    <3>2. ASSUME NEW i \in Runs, i > presses' PROVE i > presses
      <4>1. i \in Nat /\ presses \in Nat
        BY <1>1, NoSuchRun
      <4>2. QED
        BY <3>1, <3>2, <4>1
    <3>3. QED
      BY <1>1, <1>5, <3>1, <3>2 DEF Counted
  <2>4. QED
    BY <1>1, <1>2, <1>3, <1>5, <2>1, <2>2, <2>3, RunKeeps
<1>6. CASE PressDeclineDesk
  <2>1. /\ UNCHANGED <<mainVars, toPage, pageUp, shown, run, voice, unheard, excused>> /\ presses' = presses + 1
        /\ shown # NoDeskCall /\ toMain' = Invoke("decline", shown, NoRun)
        /\ ring' = "off" /\ said' = NoRun /\ answering' = FALSE
    BY <1>6 DEF PressDeclineDesk, ResetsCall
  <2>2. /\ toMain' \in Seq(MainMsg) /\ Single(toMain') /\ Pressed(toMain')
        /\ \A i : i # NoRun => (Bears(toMain', i) => Bears(toMain, i)) /\ (Bids(toMain', i) => Bids(toMain, i))
    BY <1>1, <2>1, Invoked
  <2>3. Silences
    BY <2>1, <2>2 DEF Silences
  <2>4. QED
    BY <1>5, <2>1, <2>2, <2>3
<1>7. CASE PressHangUpDesk
  <2>1. /\ UNCHANGED <<mainVars, toPage, pageUp, shown, answering, ring, run, voice, unheard, excused>>
        /\ presses' = presses + 1 /\ shown # NoDeskCall /\ toMain' = Invoke("end", shown, NoRun) /\ said' = NoRun
    BY <1>7 DEF PressHangUpDesk
  <2>2. /\ toMain' \in Seq(MainMsg) /\ Single(toMain') /\ (Pressed(toMain) => Pressed(toMain'))
        /\ \A i : i # NoRun => (Bears(toMain', i) => Bears(toMain, i)) /\ (Bids(toMain', i) => Bids(toMain, i))
    BY <1>1, <2>1, Invoked
  <2>3. Silences
    BY <2>1 DEF Silences
  <2>4. QED
    BY <1>5, <2>1, <2>2, <2>3
<1>8. CASE RingTimesOut
  <2>1. /\ UNCHANGED <<mainVars, toPage, toMain, pageUp, shown, answering, said, run, voice, presses, unheard, excused>>
        /\ ring = "on" /\ ring' = "spent"
    BY <1>8 DEF RingTimesOut, restVars
  <2>2. Silences
    BY <2>1 DEF Silences
  <2>3. QED
    BY <1>1, <1>2, <1>5, <2>1, <2>2
<1>9. QED
  BY <1>4, <1>6, <1>7, <1>8

-----------------------------------------------------------------------------
LEMMA DeskSteps == DeskConstants /\ DeskInv /\ [DeskCallNext]_deskCallVars => DeskInv'
<1> SUFFICES ASSUME DeskConstants, DeskInv, [DeskCallNext]_deskCallVars PROVE DeskInv'
  OBVIOUS
<1>1. CASE UNCHANGED deskCallVars
  BY <1>1 DEF deskCallVars, mainVars, windowVars, restVars, DeskInv, DeskShape, Counted, Kept, Begun, Unloaded, Latest,
              Sounds, Heard, Awaits
<1>2. CASE \E c \in DeskCalls : HubRingsDesk(c) \/ HubCancelsDesk(c) \/ HubLost(c)
  BY <1>2, HubsKeep
<1>3. CASE PageHandles
  <2>1. /\ toPage # <<>> /\ toPage' = Tail(toPage) /\ UNCHANGED <<mainVars, pageUp, voice, presses, unheard>>
    BY <1>3 DEF PageHandles
  <2>2. CASE (Head(toPage).is = "state" /\ PageState(Head(toPage))) \/ (Head(toPage).is = "call" /\ PageCall(Head(toPage)))
    BY <2>1, <2>2, PageReadsKeeps
  <2>3. CASE Head(toPage).is = "reply" /\ Head(toPage).run = NoRun /\ UNCHANGED <<toMain, windowVars, run, excused>>
    BY <2>1, <2>3, PageRepliesKeeps
  <2>4. CASE /\ Head(toPage).is = "reply" /\ Head(toPage).run # NoRun
             /\ AfterAnswered(Head(toPage).run) \/ AfterSystemSpeech(Head(toPage).run) \/ AfterEnded(Head(toPage).run)
    BY <2>1, <2>4, PageRepliesKeeps
  <2>5. QED
    BY <1>3, <2>2, <2>3, <2>4 DEF PageHandles
<1>4. CASE \E i \in Runs : SystemSpeechEnds(i) \/ UtteranceEnds(i)
  BY <1>4, SystemSpeechKeeps, UtteranceKeeps
<1>5. CASE MainHandles \/ WindowLoads
  BY <1>5, MainHandlesKeeps, WindowLoadsKeeps
<1>6. CASE (\E i \in Runs : PressAnswerDesk(i)) \/ PressDeclineDesk \/ PressHangUpDesk \/ RingTimesOut
  BY <1>6, PressesKeep
<1>7. QED
  BY <1>1, <1>2, <1>3, <1>4, <1>5, <1>6 DEF DeskCallNext

\* Whenever the desktop app's two processes have caught up with each other, the window shows the
\* call the main process holds and rings for it unless it was answered or its ring ran out, and
\* with no call nothing rings or is read out (desktop hub.ts wire(), index.ts, renderer/index.ts
\* answer(), onCall() and resetCall()): for any number of calls that replace one another, of
\* presses on a screen that is out of date, and of runs of answer() that outlive their call.
THEOREM TheRingFollowsTheCall == DeskCallSpec => []RingFollowsCall
<1>1. DeskCallInit => DeskInv
  BY DeskStarts, DeskConstants
<1>2. DeskInv /\ [DeskCallNext]_deskCallVars => DeskInv'
  BY DeskSteps, DeskConstants
<1>3. DeskInv => RingFollowsCall
  BY DeskTells, DeskConstants
<1>4. QED
  BY <1>1, <1>2, <1>3, PTL DEF DeskCallSpec
============================================================================
