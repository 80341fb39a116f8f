--------------------------- MODULE Upkeep_proofs ---------------------------
(* Proofs about what runs beside the deliveries: flood control and the        *)
(* watchdog, Web Push, the remote publisher, and the directory.               *)
EXTENDS Watchdog, WebPush, Remote, DataDir, FiniteSetTheorems, TLAPS

----------------------------------------------------------------------------
(* Flood control and the dead-man's switch, for any keys, heartbeats and     *)
(* limits: no alert is discarded, no silence overlooked, and while a         *)
(* heartbeat is missing an alarm tells of it; the recovery takes down what   *)
(* its key finds, and leaves no more than flood control held back.           *)

Window == [open : BOOLEAN, count : Nat, held : Nat, age : 0..WindowLen]
Tally == [published : 0..MaxOccurrences, sent : Nat, summed : Nat, open : Nat, unkeyed : Nat]
Balanced(t, w) == t.published = t.sent + t.summed + w.held /\ t.unkeyed <= t.summed
ClosedAreEmpty == \A k \in Keys : ~window[k].open => window[k].held = 0

FloodShape == window \in [Keys -> Window] /\ tally \in [Keys -> Tally]
FloodInv ==
  /\ FloodShape /\ ClosedAreEmpty
  /\ \A k \in Keys : Balanced(tally[k], window[k])
  /\ Cardinality(OpenWindows) <= MaxWindows

LEMMA FloodStarts == FloodInit => FloodInv
<1> SUFFICES ASSUME FloodInit PROVE FloodInv
  OBVIOUS
<1>1. NoWindow \in Window /\ NoTally \in Tally
  BY FloodConstants DEF FloodConstants, NoWindow, NoTally, Window, Tally
<1>2. FloodShape /\ ClosedAreEmpty
  BY <1>1 DEF FloodInit, FloodShape, ClosedAreEmpty, NoWindow
<1>3. \A k \in Keys : Balanced(tally[k], window[k])
  BY DEF FloodInit, Balanced, NoWindow, NoTally
<1>4. OpenWindows = {}
  BY DEF FloodInit, OpenWindows, NoWindow
<1>5. Cardinality(OpenWindows) <= MaxWindows
  BY <1>4, FS_EmptySet, FloodConstants DEF FloodConstants
<1>6. QED
  BY <1>2, <1>3, <1>5 DEF FloodInv

\* An occurrence is sent, and on screens, or counted as held back.
Occurs(back, old, new, was, is) ==
  IF back THEN is = was + 1 /\ new = old ELSE is = was /\ new = old + 1
LEMMA Occurrence ==
  ASSUME FloodInv, NEW k \in Keys, MayPublish(k)
  PROVE  /\ Counted(k) \in Window /\ Published(k) \in Tally
         /\ ~Counted(k).open => Counted(k).held = 0
         /\ Balanced(Published(k), Counted(k))
         /\ Occurs(HeldBack(k), tally[k].open, Published(k).open, window[k].held, Counted(k).held)
<1> DEFINE w == window[k] t == tally[k]
<1>1. w \in Window /\ t \in Tally /\ Balanced(t, w) /\ (~w.open => w.held = 0)
  BY DEF FloodInv, FloodShape, ClosedAreEmpty
<1>2. /\ w.open \in BOOLEAN /\ w.count \in Nat /\ w.held \in Nat /\ w.age \in 0..WindowLen
      /\ t.published \in Nat /\ t.published < MaxOccurrences /\ t.sent \in Nat /\ t.summed \in Nat
      /\ t.open \in Nat /\ t.unkeyed \in Nat
  BY <1>1, FloodConstants DEF FloodConstants, Window, Tally, MayPublish
<1>3. MaxOccurrences \in Nat /\ WindowLen \in Nat
  BY FloodConstants DEF FloodConstants
<1> DEFINE pub == t.published + 1 cnt == w.count + 1 hold == w.held + 1
           sent == t.sent + 1 shown == t.open + 1
<1>a. /\ pub \in 0..MaxOccurrences /\ cnt \in Nat /\ hold \in Nat /\ sent \in Nat /\ shown \in Nat
      /\ pub = t.published + 1 /\ hold = w.held + 1 /\ sent = t.sent + 1 /\ shown = t.open + 1
  BY <1>2, <1>3
<1> HIDE DEF w, t, pub, cnt, hold, sent, shown
<1>4. CASE HeldBack(k)
  <2>1. Counted(k) = [w EXCEPT !.count = cnt, !.held = hold] /\ w.open
    BY <1>4 DEF Counted, HeldBack, w, cnt, hold
  <2>2. Published(k) = [t EXCEPT !.published = pub]
    BY <1>4 DEF Published, t, pub
  <2>3. /\ Counted(k) \in Window /\ Counted(k).open = w.open /\ Counted(k).held = hold
    BY <2>1, <1>1, <1>a DEF Window
  <2>4. /\ Published(k) \in Tally /\ Published(k).published = pub
        /\ Published(k).sent = t.sent /\ Published(k).summed = t.summed
        /\ Published(k).open = t.open /\ Published(k).unkeyed = t.unkeyed
    BY <2>2, <1>1, <1>a DEF Tally
  <2>5. /\ Balanced(Published(k), Counted(k))
        /\ Occurs(HeldBack(k), t.open, Published(k).open, w.held, Counted(k).held)
    BY <2>3, <2>4, <1>1, <1>2, <1>a, <1>4 DEF Balanced, Occurs
  <2>6. QED
    BY <2>1, <2>3, <2>4, <2>5 DEF w, t
<1>5. CASE ~HeldBack(k)
  <2>1. Published(k) = [t EXCEPT !.published = pub, !.sent = sent, !.open = shown]
    BY <1>5 DEF Published, t, pub, sent, shown
  <2>2. /\ Published(k) \in Tally /\ Published(k).published = pub
        /\ Published(k).sent = sent /\ Published(k).summed = t.summed
        /\ Published(k).open = shown /\ Published(k).unkeyed = t.unkeyed
    BY <2>1, <1>1, <1>a DEF Tally
  <2>3. /\ Counted(k) \in Window /\ Counted(k).held = w.held
        /\ (~Counted(k).open => Counted(k).held = 0)
    <3>1. CASE k \in Exempt
      BY <3>1, <1>1 DEF Counted, w
    <3>2. CASE k \notin Exempt /\ ~w.open
      BY <3>2, <1>1, <1>3 DEF Counted, NoWindow, Window, w
    <3>3. CASE k \notin Exempt /\ w.open
      <4> DEFINE same == w.held
      <4>1. same \in Nat /\ same = w.held
        BY <1>2
      <4> HIDE DEF same
      <4>2. Counted(k) = [w EXCEPT !.count = cnt, !.held = same]
        BY <3>3, <1>5 DEF Counted, w, cnt, same
      <4>3. QED
        BY <4>1, <4>2, <1>1, <1>a, <3>3 DEF Window
    <3>4. QED
      BY <3>1, <3>2, <3>3
  <2>4. /\ Balanced(Published(k), Counted(k))
        /\ Occurs(HeldBack(k), t.open, Published(k).open, w.held, Counted(k).held)
    BY <2>2, <2>3, <1>1, <1>2, <1>a, <1>5 DEF Balanced, Occurs
  <2>5. QED
    BY <2>2, <2>3, <2>4 DEF w, t
<1>6. QED
  BY <1>4, <1>5

\* A window that closes tells of what it held.
LEMMA Closing ==
  ASSUME FloodInv, NEW k \in Keys
  PROVE  /\ NoWindow \in Window /\ Summarised(k) \in Tally
         /\ Balanced(Summarised(k), NoWindow)
         /\ Summarised(k).open = tally[k].open
         /\ window[k].held > 0 => Summarised(k).unkeyed > tally[k].unkeyed
         /\ window[k].held = 0 => Summarised(k).unkeyed = tally[k].unkeyed
<1> DEFINE w == window[k] t == tally[k] s == Summarised(k)
<1>1. w \in Window /\ t \in Tally /\ Balanced(t, w)
  BY DEF FloodInv, FloodShape
<1>2. /\ w.held \in Nat /\ t.published \in Nat /\ t.sent \in Nat /\ t.summed \in Nat
      /\ t.open \in Nat /\ t.unkeyed \in Nat
  BY <1>1, FloodConstants DEF FloodConstants, Window, Tally
<1>3. NoWindow \in Window /\ NoWindow.held = 0
  BY FloodConstants DEF FloodConstants, NoWindow, Window
<1> DEFINE told == t.summed + w.held signs == t.unkeyed + 1
<1>a. told \in Nat /\ told = t.summed + w.held /\ signs \in Nat /\ signs = t.unkeyed + 1
  BY <1>2
<1> HIDE DEF w, t, s, told, signs
<1>4. CASE w.held = 0
  <2>1. s = t
    BY <1>4 DEF Summarised, w, t, s
  <2>2. s \in Tally /\ Balanced(s, NoWindow) /\ s.open = t.open /\ s.unkeyed = t.unkeyed
    BY <2>1, <1>1, <1>2, <1>3, <1>4 DEF Balanced
  <2>3. QED
    BY <2>2, <1>3, <1>4 DEF w, t, s
<1>5. CASE w.held # 0
  <2>1. s = [t EXCEPT !.summed = told, !.unkeyed = signs]
    BY <1>5 DEF Summarised, w, t, s, told, signs
  <2>2. /\ s \in Tally /\ s.published = t.published /\ s.sent = t.sent /\ s.summed = told
        /\ s.open = t.open /\ s.unkeyed = signs
    BY <2>1, <1>1, <1>a DEF Tally
  <2>3. Balanced(s, NoWindow) /\ s.unkeyed > t.unkeyed
    BY <2>2, <1>1, <1>2, <1>3, <1>5, <1>a DEF Balanced
  <2>4. QED
    BY <2>2, <2>3, <1>3, <1>5 DEF w, t, s
<1>6. QED
  BY <1>4, <1>5

LEMMA Resolving ==
  ASSUME FloodInv, NEW k \in Keys
  PROVE  Cleared(k) \in Tally /\ Cleared(k).open = 0 /\ Balanced(Cleared(k), window[k])
<1>1. tally[k] \in Tally /\ Balanced(tally[k], window[k])
  BY DEF FloodInv, FloodShape
<1>2. Cleared(k) = [tally[k] EXCEPT !.open = 0]
  BY DEF Cleared
<1>3. QED
  BY <1>1, <1>2 DEF Tally, Balanced

\* Windows that were open stay within the ceiling, and a new one is opened only where there is room.
LEMMA Ceiling ==
  ASSUME FloodInv, NEW k \in Keys,
         \A j \in Keys \ {k} : window'[j].open => window[j].open,
         window'[k].open => window[k].open \/ Room
  PROVE  Cardinality(OpenWindows') <= MaxWindows
<1> DEFINE O == OpenWindows P == OpenWindows'
<1>1. IsFiniteSet(O) /\ Cardinality(O) \in Nat /\ Cardinality(O) <= MaxWindows /\ MaxWindows \in Nat
  <2>1. O \subseteq Keys
    BY DEF OpenWindows
  <2>2. IsFiniteSet(O)
    BY <2>1, FloodConstants, FS_Subset DEF FloodConstants
  <2>3. QED
    BY <2>2, FS_CardinalityType, FloodConstants DEF FloodConstants, FloodInv
<1>2. P = {j \in Keys : window'[j].open} /\ O = {j \in Keys : window[j].open}
  BY DEF OpenWindows
<1>3. CASE P \subseteq O
  <2>1. IsFiniteSet(P) /\ Cardinality(P) <= Cardinality(O)
    BY <1>1, <1>3, FS_Subset
  <2>2. Cardinality(P) \in Nat
    BY <2>1, FS_CardinalityType
  <2> HIDE DEF O, P
  <2>3. Cardinality(P) <= MaxWindows
    BY <2>1, <2>2, <1>1
  <2>4. QED
    BY <2>3 DEF P
<1>4. CASE ~(P \subseteq O)
  <2>1. k \notin O /\ k \in P /\ Room
    BY <1>2, <1>4
  <2>2. P \subseteq O \cup {k}
    BY <1>2
  <2>3. IsFiniteSet(O \cup {k}) /\ Cardinality(O \cup {k}) = Cardinality(O) + 1
    BY <1>1, <2>1, FS_AddElement
  <2>4. IsFiniteSet(P) /\ Cardinality(P) <= Cardinality(O \cup {k})
    BY <2>2, <2>3, FS_Subset
  <2>5. Cardinality(P) \in Nat /\ Cardinality(O) < MaxWindows
    BY <2>1, <2>4, FS_CardinalityType DEF Room
  <2> HIDE DEF O, P
  <2>6. Cardinality(P) <= MaxWindows
    BY <2>3, <2>4, <2>5, <1>1
  <2>7. QED
    BY <2>6 DEF P
<1>5. QED
  BY <1>3, <1>4

LEMMA FloodNotify ==
  ASSUME FloodInv, NEW k \in Keys, Notify(k)
  PROVE  /\ FloodInv'
         /\ Occurs(HeldBack(k), tally[k].open, tally'[k].open, window[k].held, window'[k].held)
<1>1. /\ MayPublish(k) /\ window' = [window EXCEPT ![k] = Counted(k)]
      /\ tally' = [tally EXCEPT ![k] = Published(k)]
  BY DEF Notify
<1> DEFINE c == Counted(k) q == Published(k)
<1>2. /\ c \in Window /\ q \in Tally /\ (~c.open => c.held = 0) /\ Balanced(q, c)
      /\ Occurs(HeldBack(k), tally[k].open, q.open, window[k].held, c.held)
  BY <1>1, Occurrence
<1>3. FloodShape /\ ClosedAreEmpty /\ \A j \in Keys : Balanced(tally[j], window[j])
  BY DEF FloodInv
<1>4. c.open => window[k].open \/ Room
  BY DEF Counted, NoWindow
<1> HIDE DEF c, q
<1>5. window' = [window EXCEPT ![k] = c] /\ tally' = [tally EXCEPT ![k] = q]
  BY <1>1 DEF c, q
<1>6. window'[k] = c /\ tally'[k] = q
  BY <1>3, <1>5 DEF FloodShape
<1>7. \A j \in Keys \ {k} : window'[j] = window[j] /\ tally'[j] = tally[j]
  BY <1>3, <1>5 DEF FloodShape
<1>8. FloodShape'
  BY <1>2, <1>3, <1>5 DEF FloodShape
<1>9. ClosedAreEmpty'
  BY <1>2, <1>3, <1>6, <1>7 DEF ClosedAreEmpty
<1>10. \A j \in Keys : Balanced(tally'[j], window'[j])
  BY <1>2, <1>3, <1>6, <1>7
<1>11. Cardinality(OpenWindows') <= MaxWindows
  BY <1>4, <1>6, <1>7, Ceiling
<1>12. QED
  BY <1>2, <1>6, <1>8, <1>9, <1>10, <1>11 DEF FloodInv, Balanced, OpenWindows

\* A recovery publishes under one key and resolves the other.
LEMMA FloodRecover ==
  ASSUME FloodInv, NEW k \in Keys, NEW m \in Keys \ {k}, MayPublish(k),
         window' = [window EXCEPT ![k] = Counted(k)],
         tally' = [tally EXCEPT ![m] = Cleared(m), ![k] = Published(k)]
  PROVE  FloodInv' /\ tally'[m].open = 0
<1> DEFINE c == Counted(k) q == Published(k) r == Cleared(m)
<1>1. /\ c \in Window /\ q \in Tally /\ (~c.open => c.held = 0) /\ Balanced(q, c)
  BY Occurrence
<1>2. r \in Tally /\ r.open = 0 /\ Balanced(r, window[m])
  BY Resolving
<1>3. FloodShape /\ ClosedAreEmpty /\ \A j \in Keys : Balanced(tally[j], window[j])
  BY DEF FloodInv
<1>4. c.open => window[k].open \/ Room
  BY DEF Counted, NoWindow
<1> HIDE DEF c, q, r
<1>5. window' = [window EXCEPT ![k] = c] /\ tally' = [tally EXCEPT ![m] = r, ![k] = q]
  BY DEF c, q, r
<1>6. window'[k] = c /\ tally'[k] = q /\ window'[m] = window[m] /\ tally'[m] = r
  BY <1>3, <1>5 DEF FloodShape
<1>7. /\ \A j \in Keys \ {k} : window'[j] = window[j]
      /\ \A j \in Keys \ {k, m} : tally'[j] = tally[j]
  BY <1>3, <1>5 DEF FloodShape
<1>8. FloodShape'
  BY <1>1, <1>2, <1>3, <1>5 DEF FloodShape
<1>9. ClosedAreEmpty'
  BY <1>1, <1>3, <1>6, <1>7 DEF ClosedAreEmpty
<1>10. \A j \in Keys : Balanced(tally'[j], window'[j])
  BY <1>1, <1>2, <1>3, <1>6, <1>7
<1>11. Cardinality(OpenWindows') <= MaxWindows
  BY <1>4, <1>6, <1>7, Ceiling
<1>12. QED
  BY <1>2, <1>6, <1>8, <1>9, <1>10, <1>11 DEF FloodInv, Balanced, OpenWindows

LEMMA FloodResolve ==
  ASSUME FloodInv, NEW k \in Keys, Resolve(k)
  PROVE  FloodInv'
<1>1. tally' = [tally EXCEPT ![k] = Cleared(k)] /\ window' = window
  BY DEF Resolve
<1>2. Cleared(k) \in Tally /\ Balanced(Cleared(k), window[k])
  BY Resolving
<1>3. FloodShape'
  BY <1>1, <1>2 DEF FloodInv, FloodShape
<1>4. \A j \in Keys : Balanced(tally'[j], window'[j])
  BY <1>1, <1>2 DEF FloodInv, FloodShape
<1>5. QED
  BY <1>1, <1>3, <1>4 DEF FloodInv, ClosedAreEmpty, Balanced, OpenWindows

\* What closing one window, or all of them, leaves of every key.
Closed(k) == window'[k] = NoWindow /\ tally'[k] = Summarised(k)
Rests(k) == window'[k] = window[k] /\ tally'[k] = tally[k]
Tells(k) ==
  \/ Rests(k)
  \/ /\ ~window'[k].open /\ tally'[k].open = tally[k].open
     /\ window[k].held > 0 => tally'[k].unkeyed > tally[k].unkeyed
     /\ window[k].held = 0 => tally'[k].unkeyed = tally[k].unkeyed
LEMMA FloodClosing ==
  ASSUME FloodInv, window' \in [Keys -> Window], tally' \in [Keys -> Tally],
         \A k \in Keys : Closed(k) \/ Rests(k)
  PROVE  FloodInv' /\ \A k \in Keys : Tells(k)
<1>1. \A k \in Keys : /\ ~window'[k].open => window'[k].held = 0
                      /\ window'[k].open => window[k].open
  BY DEF Closed, Rests, NoWindow, FloodInv, ClosedAreEmpty
<1>2. \A k \in Keys : Balanced(tally'[k], window'[k]) /\ Tells(k)
  <2> TAKE k \in Keys
  <2>1. CASE Closed(k)
    BY <2>1, Closing DEF Closed, Tells, NoWindow
  <2>2. CASE Rests(k)
    BY <2>2 DEF Rests, Tells, FloodInv
  <2>3. QED
    BY <2>1, <2>2
<1>3. Cardinality(OpenWindows') <= MaxWindows
  <2>1. CASE Keys = {}
    <3>1. OpenWindows' = OpenWindows
      BY <2>1 DEF OpenWindows
    <3>2. QED
      BY <3>1 DEF FloodInv
  <2>2. CASE Keys # {}
    <3>1. PICK k \in Keys : TRUE
      BY <2>2
    <3>2. QED
      BY <1>1, Ceiling
  <2>3. QED
    BY <2>1, <2>2
<1>4. QED
  BY <1>1, <1>2, <1>3 DEF FloodInv, FloodShape, ClosedAreEmpty, Balanced, OpenWindows

LEMMA FloodCloses ==
  ASSUME FloodInv, \/ FlushAll
                   \/ \E k \in Keys : CloseWindow(k)
  PROVE  FloodInv' /\ \A k \in Keys : Tells(k)
<1>1. /\ window' \in [Keys -> Window] /\ tally' \in [Keys -> Tally]
      /\ \A k \in Keys : Closed(k) \/ Rests(k)
  <2>1. CASE FlushAll
    BY <2>1, Closing DEF FlushAll, Closed
  <2>2. CASE \E k \in Keys : CloseWindow(k)
    <3>1. PICK k \in Keys : CloseWindow(k)
      BY <2>2
    <3>2. window' = [window EXCEPT ![k] = NoWindow] /\ tally' = [tally EXCEPT ![k] = Summarised(k)]
      BY <3>1 DEF CloseWindow
    <3>3. NoWindow \in Window /\ Summarised(k) \in Tally
      BY Closing
    <3>4. QED
      BY <3>2, <3>3 DEF FloodInv, FloodShape, Closed, Rests
  <2>3. QED
    BY <2>1, <2>2
<1>2. QED
  BY <1>1, FloodClosing

LEMMA FloodAges ==
  ASSUME FloodInv, ~WindowsDue, window' = Aged, tally' = tally
  PROVE  FloodInv' /\ \A k \in Keys : tally'[k] = tally[k] /\ window'[k].held = window[k].held
<1>1. \A k \in Keys : /\ window'[k] \in Window /\ window'[k].open = window[k].open
                      /\ window'[k].held = window[k].held
  <2> TAKE k \in Keys
  <2> DEFINE w == window[k] older == w.age + 1
  <2>1. w \in Window /\ (w.open => w.age < WindowLen) /\ w.age \in 0..WindowLen /\ WindowLen \in Nat
    BY FloodConstants DEF FloodConstants, FloodInv, FloodShape, WindowsDue, OpenWindows, Window
  <2>2. window'[k] = IF w.open THEN [w EXCEPT !.age = older] ELSE w
    BY DEF Aged
  <2>3. w.open => older \in 0..WindowLen
    BY <2>1
  <2> HIDE DEF w, older
  <2>4. /\ window'[k] \in Window /\ window'[k].open = w.open /\ window'[k].held = w.held
    BY <2>1, <2>2, <2>3 DEF Window
  <2>5. QED
    BY <2>4 DEF w
<1>2. window' \in [Keys -> Window]
  <2>1. window' = [k \in Keys |-> window'[k]]
    BY DEF Aged
  <2>2. QED
    BY <1>1, <2>1
<1>3. OpenWindows' = OpenWindows
  BY <1>1 DEF OpenWindows
<1>4. QED
  BY <1>1, <1>2, <1>3 DEF FloodInv, FloodShape, ClosedAreEmpty, Balanced

-----------------------------------------------------------------------------
(* The switch *)

Beat == [there : BOOLEAN, missing : BOOLEAN, age : 0..Deadline + SweepEvery]
SwitchShape ==
  /\ hub \in BOOLEAN /\ todo \subseteq Registered /\ beat \in [Names -> Beat]
  /\ sweeper \in NoTimer..SweepEvery /\ watched \in 0..SweepEvery + 1 /\ orphaned \subseteq Names

\* A heartbeat that was left alone by the last sweep was in time then, and since has aged as
\* much as the interval; one sweep after the hub started there has been a last sweep.
InTime(b) == beat[b].age < Deadline + sweeper \/ watched <= sweeper
Sweeping ==
  /\ watched > 0 => hub
  /\ hub /\ Registered # {} => sweeper # NoTimer
  /\ hub => \A b \in Registered \ todo : beat[b].missing \/ InTime(b)

\* The alarm of a heartbeat that was never forgotten while missing: what its key finds on
\* screens, and what flood control did with the rest of the silence under way, none of which a
\* window has lost; nobody is missing who is not registered.
Quiet == [held : Nat, said : Nat]
Voiced(t, q) == t.open + q.held + q.said > 0
AlarmOf(b) == IF beat[b].missing THEN Voiced(tally[Missed[b]], quiet[b]) ELSE tally[Missed[b]].open = 0
Fits(b) == quiet[b].held <= window[Missed[b]].held
Alarmed ==
  /\ quiet \in [Names -> Quiet]
  /\ \A b \in Names : Fits(b) /\ (b \in orphaned \/ AlarmOf(b)) /\ (beat[b].missing => beat[b].there)
WatchdogInv == FloodInv /\ SwitchShape /\ Sweeping /\ Alarmed

LEMMA Periods ==
  /\ Deadline \in Nat /\ Deadline > 0 /\ SweepEvery \in Nat /\ SweepEvery > 0 /\ NoTimer = -1
  /\ \A b \in Names : /\ Missed[b] \in Keys /\ Recovered[b] \in Keys
                      /\ \A c \in Names : Missed[b] # Recovered[c] /\ (Missed[b] = Missed[c] => b = c)
BY WatchdogConstants DEF WatchdogConstants, NoTimer

LEMMA BeatFields ==
  ASSUME SwitchShape, NEW b \in Names
  PROVE  /\ beat[b].there \in BOOLEAN /\ beat[b].missing \in BOOLEAN
         /\ beat[b].age \in 0..Deadline + SweepEvery
BY DEF SwitchShape, Beat

LEMMA WatchdogStarts == WatchdogInit => WatchdogInv
<1> SUFFICES ASSUME WatchdogInit PROVE WatchdogInv
  OBVIOUS
<1> USE Periods
<1>1. NoBeat \in Beat /\ ~NoBeat.there /\ ~NoBeat.missing
  BY DEF NoBeat, Beat
<1>2. Registered = {}
  BY <1>1 DEF WatchdogInit, Registered
<1>3. SwitchShape
  <2>1. beat = [b \in Names |-> NoBeat] /\ hub = FALSE /\ sweeper = -1 /\ todo = {} /\ watched = 0 /\ orphaned = {}
    BY DEF WatchdogInit
  <2>2. beat \in [Names -> Beat]
    BY <1>1, <2>1
  <2>3. sweeper \in NoTimer..SweepEvery /\ watched \in 0..SweepEvery + 1
    BY <2>1
  <2>4. QED
    BY <2>1, <2>2, <2>3 DEF SwitchShape
<1>4. Sweeping
  BY <1>2 DEF WatchdogInit, Sweeping
<1>5. Alarmed
  <2>1. \A k \in Keys : tally[k].open = 0 /\ window[k].held = 0
    BY DEF WatchdogInit, FloodInit, NoTally, NoWindow
  <2>2. quiet \in [Names -> Quiet] /\ \A b \in Names : quiet[b].held = 0
    BY DEF WatchdogInit, NothingQuiet, Quiet
  <2>3. QED
    BY <1>1, <2>1, <2>2 DEF WatchdogInit, Alarmed, AlarmOf, Fits
<1>6. QED
  BY <1>3, <1>4, <1>5, FloodStarts DEF WatchdogInv, WatchdogInit

\* Whatever leaves the alerts, what windows hold of them, and the heartbeats alone keeps them right.
LEMMA AlarmsRest ==
  ASSUME Alarmed, orphaned' = orphaned, quiet' = quiet,
         \A b \in Names :
           /\ beat'[b].there = beat[b].there /\ beat'[b].missing = beat[b].missing
           /\ tally'[Missed[b]].open = tally[Missed[b]].open
           /\ window'[Missed[b]].held = window[Missed[b]].held
  PROVE  Alarmed'
<1>1. \A b \in Names : AlarmOf(b)' = AlarmOf(b) /\ Fits(b)' = Fits(b)
  BY DEF AlarmOf, Fits, Voiced
<1>2. QED
  BY <1>1 DEF Alarmed

\* A window that closes turns what it held into something said.
LEMMA AlarmsAreTold ==
  ASSUME WatchdogInv, orphaned' = orphaned, quiet' = Told, beat' = beat, FloodInv',
         \A k \in Keys : Tells(k)
  PROVE  Alarmed'
<1> USE Periods
<1>1. \A b \in Names : quiet'[b] \in Quiet /\ Fits(b)' /\ (AlarmOf(b) => AlarmOf(b)')
  <2> TAKE b \in Names
  <2> DEFINE k == Missed[b] q == quiet[b] sum == q.said + q.held
  <2>1. /\ k \in Keys /\ Tells(k) /\ q \in Quiet /\ q.held <= window[k].held
        /\ window[k] \in Window /\ window'[k] \in Window /\ tally[k] \in Tally /\ tally'[k] \in Tally
    BY DEF WatchdogInv, Alarmed, Fits, FloodInv, FloodShape
  <2>2. q.held \in Nat /\ q.said \in Nat /\ sum \in Nat /\ sum = q.said + q.held /\ window[k].held \in Nat
        /\ window'[k].held \in Nat /\ tally[k].unkeyed \in Nat /\ tally[k].open \in Nat
    BY <2>1 DEF Quiet, Window, Tally
  <2>3. quiet'[b] = IF window'[k].open THEN q
                    ELSE [held |-> 0, said |-> IF tally'[k].unkeyed > tally[k].unkeyed THEN sum ELSE q.said]
    BY DEF Told
  <2>o. tally'[k].open = tally[k].open /\ beat'[b] = beat[b]
    BY <2>1 DEF Tells, Rests
  <2>z. ~window[k].open => window[k].held = 0
    BY <2>1 DEF WatchdogInv, FloodInv, ClosedAreEmpty
  <2> HIDE DEF q, k, sum
  <2>4. CASE window'[k].open
    <3>1. Rests(k) /\ quiet'[b] = q
      BY <2>1, <2>3, <2>4 DEF Tells
    <3>2. quiet'[b] \in Quiet /\ quiet'[b].held <= window'[k].held
          /\ (Voiced(tally[k], q) => Voiced(tally'[k], quiet'[b]))
      BY <3>1, <2>1 DEF Rests
    <3>3. QED
      BY <3>2, <2>o DEF AlarmOf, Fits, k, q
  <2>5. CASE ~window'[k].open
    <3>1. \/ q.held = 0 /\ quiet'[b] = [held |-> 0, said |-> q.said]
          \/ quiet'[b] = [held |-> 0, said |-> sum]
      <4>1. CASE q.held = 0
        BY <4>1, <2>2, <2>3, <2>5
      <4>2. CASE q.held > 0
        <5>1. window[k].held > 0
          BY <4>2, <2>1, <2>2
        <5>2. window[k].open
          BY <5>1, <2>z, <2>2
        <5>3. ~Rests(k)
          BY <5>2, <2>5 DEF Rests
        <5>4. tally'[k].unkeyed > tally[k].unkeyed
          BY <5>1, <5>3, <2>1 DEF Tells
        <5>5. QED
          BY <5>4, <2>3, <2>5
      <4>3. QED
        BY <4>1, <4>2, <2>2
    <3>2. /\ quiet'[b] \in Quiet /\ quiet'[b].held = 0
          /\ quiet'[b].said = q.said + q.held
      BY <3>1, <2>2 DEF Quiet
    <3>3. quiet'[b].held <= window'[k].held /\ (Voiced(tally[k], q) => Voiced(tally'[k], quiet'[b]))
      BY <3>2, <2>2, <2>o DEF Voiced
    <3>4. QED
      BY <3>2, <3>3, <2>o DEF AlarmOf, Fits, k, q
  <2>6. QED
    BY <2>4, <2>5
<1>2. quiet' \in [Names -> Quiet]
  <2>1. quiet' = [b \in Names |-> quiet'[b]]
    BY DEF Told
  <2>2. QED
    BY <1>1, <2>1
<1>3. QED
  BY <1>1, <1>2 DEF WatchdogInv, Alarmed

\* A change of one heartbeat's record.
LEMMA OneBeat ==
  ASSUME SwitchShape, NEW b \in Names, NEW r \in Beat, beat' = [beat EXCEPT ![b] = r]
  PROVE  /\ beat' \in [Names -> Beat] /\ beat'[b] = r /\ \A c \in Names \ {b} : beat'[c] = beat[c]
         /\ Registered' = IF r.there THEN Registered \cup {b} ELSE Registered \ {b}
<1>1. beat' \in [Names -> Beat] /\ beat'[b] = r /\ \A c \in Names \ {b} : beat'[c] = beat[c]
  BY DEF SwitchShape
<1>2. Registered' = {c \in Names : beat'[c].there}
  BY DEF Registered
<1>3. QED
  BY <1>1, <1>2 DEF Registered

LEMMA FloodRests == FloodInv /\ window' = window /\ tally' = tally => FloodInv'
BY DEF FloodInv, FloodShape, ClosedAreEmpty, Balanced, OpenWindows

LEMMA ExpectKeeps ==
  ASSUME WatchdogInv, NEW b \in Names, Expect(b)
  PROVE  WatchdogInv'
<1> USE Periods
<1> DEFINE r == [there |-> TRUE, missing |-> FALSE, age |-> 0]
<1>1. r \in Beat /\ r.there = TRUE /\ r.missing = FALSE /\ r.age = 0
  BY DEF Beat
<1> HIDE DEF r
<1>2. /\ todo = {} /\ todo' = {} /\ beat[b].there = FALSE /\ beat' = [beat EXCEPT ![b] = r]
      /\ sweeper' = IF sweeper = NoTimer THEN 0 ELSE sweeper
      /\ hub' = hub /\ watched' = watched /\ orphaned' = orphaned /\ window' = window /\ tally' = tally
      /\ quiet' = quiet
  BY BeatFields DEF Expect, EnsureRunning, historyVars, floodVars, WatchdogInv, r
<1>3. /\ beat' \in [Names -> Beat] /\ beat'[b] = r /\ \A c \in Names \ {b} : beat'[c] = beat[c]
      /\ Registered' = Registered \cup {b}
  BY <1>1, <1>2, OneBeat DEF WatchdogInv
<1>4. SwitchShape'
  BY <1>2, <1>3 DEF WatchdogInv, SwitchShape
<1>5. Sweeping'
  <2>1. sweeper \in NoTimer..SweepEvery /\ watched \in 0..SweepEvery + 1
    BY DEF WatchdogInv, SwitchShape
  <2>2. sweeper' # NoTimer /\ sweeper' >= 0
    BY <1>2, <2>1
  <2>3. \A c \in Registered' : hub /\ ~beat'[c].missing => beat'[c].age < Deadline + sweeper' \/ watched <= sweeper'
    <3> TAKE c \in Registered'
    <3>1. CASE c = b
      BY <3>1, <1>1, <1>3, <2>2, <1>2, <2>1
    <3>2. CASE c # b
      <4>1. c \in Registered /\ c \in Names /\ beat'[c] = beat[c]
        BY <1>3, <3>2 DEF Registered
      <4>2. hub => sweeper # NoTimer
        BY <4>1 DEF WatchdogInv, Sweeping
      <4>3. hub => beat[c].missing \/ InTime(c)
        BY <4>1, <1>2 DEF WatchdogInv, Sweeping
      <4>4. QED
        BY <4>1, <4>2, <4>3, <1>2 DEF InTime
    <3>3. QED
      BY <3>1, <3>2
  <2>4. watched > 0 => hub
    BY DEF WatchdogInv, Sweeping
  <2>5. QED
    BY <2>2, <2>3, <2>4, <1>2 DEF Sweeping, InTime
<1>6. Alarmed'
  <2>1. beat[b].missing = FALSE
    BY <1>2, BeatFields DEF WatchdogInv, Alarmed
  <2>2. \A c \in Names : beat'[c].missing = beat[c].missing /\ (beat[c].there => beat'[c].there)
    BY <1>1, <1>2, <1>3, <2>1
  <2>3. \A c \in Names : AlarmOf(c)' = AlarmOf(c) /\ Fits(c)' = Fits(c)
    BY <2>2, <1>2 DEF AlarmOf, Fits
  <2>4. QED
    BY <2>2, <2>3, <1>2 DEF WatchdogInv, Alarmed
<1>7. FloodInv'
  BY <1>2, FloodRests DEF WatchdogInv
<1>8. QED
  BY <1>4, <1>5, <1>6, <1>7 DEF WatchdogInv

LEMMA CheckInKeeps ==
  ASSUME WatchdogInv, NEW b \in Names, CheckIn(b)
  PROVE  WatchdogInv'
<1> USE Periods
<1> DEFINE r == [beat[b] EXCEPT !.age = 0, !.missing = FALSE]
<1>1. r \in Beat /\ r.there = beat[b].there /\ r.missing = FALSE /\ r.age = 0
  <2> DEFINE old == beat[b]
  <2>1. old \in Beat
    BY DEF WatchdogInv, SwitchShape
  <2> DEFINE zero == 0
  <2>z. zero \in 0..Deadline + SweepEvery
    OBVIOUS
  <2> HIDE DEF old, zero
  <2>2. LET s == [old EXCEPT !.age = zero, !.missing = FALSE] IN
        s \in Beat /\ s.there = old.there /\ s.missing = FALSE /\ s.age = zero
    BY <2>1, <2>z DEF Beat
  <2>3. QED
    BY <2>2 DEF old, zero
<1> HIDE DEF r
<1>2. /\ todo = {} /\ todo' = {} /\ beat[b].there = TRUE
      /\ hub' = hub /\ watched' = watched /\ sweeper' = sweeper
  BY BeatFields DEF CheckIn, WatchdogInv
<1>a. beat' = [beat EXCEPT ![b] = r]
  BY DEF CheckIn, WatchdogInv, SwitchShape, r
<1>b. \/ /\ beat[b].missing = FALSE /\ orphaned' = orphaned /\ window' = window /\ tally' = tally
         /\ quiet' = quiet
      \/ /\ MayPublish(Recovered[b])
         /\ window' = [window EXCEPT ![Recovered[b]] = Counted(Recovered[b])]
         /\ tally' = [tally EXCEPT ![Missed[b]] = Cleared(Missed[b]), ![Recovered[b]] = Published(Recovered[b])]
         /\ orphaned' = orphaned \ {b} /\ quiet' = [quiet EXCEPT ![b] = NothingQuiet]
  BY BeatFields DEF CheckIn, floodVars, WatchdogInv
<1>3. /\ beat' \in [Names -> Beat] /\ beat'[b] = r /\ \A c \in Names \ {b} : beat'[c] = beat[c]
      /\ Registered' = Registered
  BY <1>1, <1>2, <1>a, OneBeat DEF WatchdogInv, Registered
<1>4. SwitchShape'
  BY <1>2, <1>3, <1>b DEF WatchdogInv, SwitchShape
<1>5. Sweeping'
  <2>1. sweeper \in NoTimer..SweepEvery /\ b \in Registered
    BY <1>2 DEF WatchdogInv, SwitchShape, Registered
  <2>2. \A c \in Registered' : hub /\ ~beat'[c].missing => beat'[c].age < Deadline + sweeper' \/ watched <= sweeper'
    <3> TAKE c \in Registered'
    <3>1. CASE c = b
      <4>1. hub => sweeper # NoTimer
        BY <2>1 DEF WatchdogInv, Sweeping
      <4>2. QED
        BY <3>1, <4>1, <1>1, <1>2, <1>3, <2>1
    <3>2. CASE c # b
      <4>1. c \in Registered /\ c \in Names /\ beat'[c] = beat[c]
        BY <1>3, <3>2 DEF Registered
      <4>2. hub => beat[c].missing \/ InTime(c)
        BY <4>1, <1>2 DEF WatchdogInv, Sweeping
      <4>3. QED
        BY <4>1, <4>2, <1>2 DEF InTime
    <3>3. QED
      BY <3>1, <3>2
  <2>3. QED
    BY <1>2, <1>3, <2>2 DEF Sweeping, InTime, WatchdogInv
<1>6. Alarmed' /\ FloodInv'
  <2>1. \A c \in Names \ {b} : beat'[c] = beat[c]
    BY <1>3
  <2>2. CASE /\ beat[b].missing = FALSE /\ orphaned' = orphaned /\ window' = window /\ tally' = tally
             /\ quiet' = quiet
    <3>1. \A c \in Names : beat'[c].missing = beat[c].missing /\ beat'[c].there = beat[c].there
      BY <2>1, <2>2, <1>1, <1>3
    <3>2. \A c \in Names : AlarmOf(c)' = AlarmOf(c) /\ Fits(c)' = Fits(c)
      BY <3>1, <2>2 DEF AlarmOf, Fits
    <3>3. Alarmed'
      BY <3>1, <3>2, <2>2 DEF WatchdogInv, Alarmed
    <3>4. QED
      BY <3>3, <2>2, FloodRests DEF WatchdogInv
  <2>3. CASE /\ MayPublish(Recovered[b])
             /\ window' = [window EXCEPT ![Recovered[b]] = Counted(Recovered[b])]
             /\ tally' = [tally EXCEPT ![Missed[b]] = Cleared(Missed[b]),
                                       ![Recovered[b]] = Published(Recovered[b])]
             /\ orphaned' = orphaned \ {b} /\ quiet' = [quiet EXCEPT ![b] = NothingQuiet]
    <3>1. FloodInv' /\ tally'[Missed[b]].open = 0
      BY <2>3, FloodRecover DEF WatchdogInv
    <3>2. \A c \in Names \ {b} : window'[Missed[c]] = window[Missed[c]] /\ tally'[Missed[c]] = tally[Missed[c]]
      BY <2>3 DEF WatchdogInv, FloodInv, FloodShape
    <3>q. /\ quiet' \in [Names -> Quiet] /\ quiet'[b].held = 0
          /\ \A c \in Names \ {b} : quiet'[c] = quiet[c]
      <4>1. NothingQuiet \in Quiet /\ NothingQuiet.held = 0
        BY DEF NothingQuiet, Quiet
      <4>2. QED
        BY <4>1, <2>3 DEF WatchdogInv, Alarmed
    <3>3. \A c \in Names \ {b} : /\ c \in orphaned' \/ AlarmOf(c)'
                                 /\ Fits(c)' /\ (beat'[c].missing => beat'[c].there)
      <4> TAKE c \in Names \ {b}
      <4>1. (c \in orphaned \/ AlarmOf(c)) /\ Fits(c)
        BY DEF WatchdogInv, Alarmed
      <4>2. AlarmOf(c)' = AlarmOf(c) /\ Fits(c)' = Fits(c)
        BY <2>1, <3>2, <3>q DEF AlarmOf, Fits
      <4>3. QED
        BY <2>1, <2>3, <4>1, <4>2 DEF WatchdogInv, Alarmed
    <3>4. AlarmOf(b)' /\ ~beat'[b].missing /\ Fits(b)'
      <4>1. window'[Missed[b]].held \in Nat
        BY <3>1 DEF FloodInv, FloodShape, Window
      <4>2. QED
        BY <3>1, <3>q, <4>1, <1>1, <1>3 DEF AlarmOf, Fits
    <3>5. QED
      BY <3>1, <3>3, <3>4, <3>q DEF Alarmed
  <2>4. QED
    BY <1>b, <2>2, <2>3
<1>7. QED
  BY <1>4, <1>5, <1>6 DEF WatchdogInv

LEMMA ForgetKeeps ==
  ASSUME WatchdogInv, NEW b \in Names, Forget(b)
  PROVE  WatchdogInv'
<1> USE Periods
<1> DEFINE r == NoBeat
<1>1. r \in Beat /\ r.there = FALSE /\ r.missing = FALSE /\ r.age = 0
  BY DEF Beat, NoBeat
<1> HIDE DEF r
<1>2. /\ todo = {} /\ todo' = {} /\ beat' = [beat EXCEPT ![b] = r]
      /\ sweeper' = IF Registered = {b} THEN NoTimer ELSE sweeper
      /\ orphaned' = IF beat[b].missing THEN orphaned \cup {b} ELSE orphaned
      /\ hub' = hub /\ watched' = watched /\ window' = window /\ tally' = tally
      /\ quiet' = [quiet EXCEPT ![b] = NothingQuiet]
  BY DEF Forget, floodVars, r
<1>3. /\ beat' \in [Names -> Beat] /\ beat'[b] = r /\ \A c \in Names \ {b} : beat'[c] = beat[c]
      /\ Registered' = Registered \ {b}
  BY <1>1, <1>2, OneBeat DEF WatchdogInv
<1>4. SwitchShape'
  <2>1. sweeper' \in NoTimer..SweepEvery
    BY <1>2 DEF WatchdogInv, SwitchShape
  <2>2. QED
    BY <1>2, <1>3, <2>1 DEF WatchdogInv, SwitchShape
<1>5. Sweeping'
  <2>1. \A c \in Registered' : /\ c \in Registered /\ beat'[c] = beat[c] /\ sweeper' = sweeper
    BY <1>2, <1>3 DEF Registered
  <2>2. \A c \in Registered' : hub => (beat[c].missing \/ InTime(c)) /\ sweeper # NoTimer
    BY <1>2, <2>1 DEF WatchdogInv, Sweeping
  <2>3. QED
    BY <1>2, <2>1, <2>2 DEF WatchdogInv, Sweeping, InTime
<1>6. Alarmed'
  <2>q. /\ quiet' \in [Names -> Quiet] /\ quiet'[b].held = 0
        /\ \A c \in Names \ {b} : quiet'[c] = quiet[c]
    <3>1. NothingQuiet \in Quiet /\ NothingQuiet.held = 0
      BY DEF NothingQuiet, Quiet
    <3>2. QED
      BY <3>1, <1>2 DEF WatchdogInv, Alarmed
  <2>1. \A c \in Names \ {b} : AlarmOf(c)' = AlarmOf(c) /\ Fits(c)' = Fits(c)
    BY <1>2, <1>3, <2>q DEF AlarmOf, Fits
  <2>2. (b \in orphaned' \/ AlarmOf(b)') /\ Fits(b)'
    <3>1. window'[Missed[b]].held \in Nat
      BY <1>2 DEF WatchdogInv, FloodInv, FloodShape, Window
    <3>2. QED
      BY <1>1, <1>2, <1>3, <2>q, <3>1 DEF WatchdogInv, Alarmed, AlarmOf, Fits
  <2>3. QED
    BY <1>1, <1>2, <1>3, <2>1, <2>2, <2>q DEF WatchdogInv, Alarmed
<1>7. QED
  BY <1>2, <1>4, <1>5, <1>6, FloodRests DEF WatchdogInv

LEMMA SweepKeeps == WatchdogInv /\ Sweep => WatchdogInv'
<1> SUFFICES ASSUME WatchdogInv, Sweep PROVE WatchdogInv'
  OBVIOUS
<1> USE Periods
<1>1. /\ todo = {} /\ sweeper' = 0 /\ todo' = Due /\ hub' = hub /\ beat' = beat
      /\ watched' = watched /\ orphaned' = orphaned /\ window' = window /\ tally' = tally
      /\ quiet' = quiet
  BY DEF Sweep, historyVars, floodVars
<1>2. Registered' = Registered /\ Due \subseteq Registered
  BY <1>1 DEF Registered, Due
<1>3. SwitchShape'
  BY <1>1, <1>2 DEF WatchdogInv, SwitchShape
<1>4. Sweeping'
  <2>1. \A b \in Registered \ Due : beat[b].missing \/ beat[b].age < Deadline
    BY BeatFields DEF Due, Registered, WatchdogInv
  <2>2. \A b \in Registered' \ todo' : beat'[b].missing \/ InTime(b)'
    BY <1>1, <1>2, <2>1 DEF InTime
  <2>3. QED
    BY <1>1, <2>2 DEF WatchdogInv, Sweeping
<1>5. Alarmed'
  BY <1>1 DEF WatchdogInv, Alarmed, AlarmOf, Fits
<1>6. QED
  BY <1>1, <1>3, <1>4, <1>5, FloodRests DEF WatchdogInv

LEMMA ReportKeeps ==
  ASSUME WatchdogInv, NEW b \in Names, Report(b)
  PROVE  WatchdogInv'
<1> USE Periods
<1> DEFINE again == IF beat[b].missing THEN 0 ELSE beat[b].age
           r == [beat[b] EXCEPT !.missing = TRUE, !.age = again]
<1>1. r \in Beat /\ r.there = beat[b].there /\ r.missing = TRUE
  <2>1. beat[b] \in Beat
    BY DEF WatchdogInv, SwitchShape
  <2>2. again \in 0..Deadline + SweepEvery
    BY BeatFields DEF WatchdogInv
  <2> HIDE DEF again
  <2>3. QED
    BY <2>1, <2>2 DEF Beat
<1>2. /\ b \in todo /\ todo' = todo \ {b} /\ Notify(Missed[b]) /\ hub' = hub /\ sweeper' = sweeper
      /\ watched' = watched /\ orphaned' = orphaned
      /\ quiet' = IF HeldBack(Missed[b]) THEN [quiet EXCEPT ![b].held = @ + 1] ELSE quiet
  BY DEF Report
<1>a. beat' = [beat EXCEPT ![b] = r]
  BY DEF Report
<1> HIDE DEF r, again
<1>3. /\ beat' \in [Names -> Beat] /\ beat'[b] = r /\ \A c \in Names \ {b} : beat'[c] = beat[c]
  BY <1>1, <1>a, OneBeat DEF WatchdogInv
<1>4. Registered' = Registered /\ b \in Registered
  <2>1. b \in Registered
    BY <1>2 DEF WatchdogInv, SwitchShape
  <2>2. QED
    BY <1>1, <1>3, <2>1 DEF Registered
<1>5. SwitchShape'
  BY <1>2, <1>3, <1>4 DEF WatchdogInv, SwitchShape
<1>6. Sweeping'
  <2>1. \A c \in Registered' \ todo' : c = b \/ (c \in Registered \ todo /\ c \in Names \ {b})
    BY <1>2, <1>4 DEF Registered
  <2>2. \A c \in Registered' \ todo' : hub' => beat'[c].missing \/ InTime(c)'
    BY <1>1, <1>2, <1>3, <2>1 DEF InTime, WatchdogInv, Sweeping
  <2>3. QED
    BY <1>2, <1>4, <2>2 DEF WatchdogInv, Sweeping
<1>7. /\ FloodInv'
      /\ Occurs(HeldBack(Missed[b]), tally[Missed[b]].open, tally'[Missed[b]].open,
                window[Missed[b]].held, window'[Missed[b]].held)
  BY <1>2, FloodNotify DEF WatchdogInv
<1>q. /\ quiet' \in [Names -> Quiet] /\ \A c \in Names \ {b} : quiet'[c] = quiet[c]
      /\ Fits(b)' /\ Voiced(tally'[Missed[b]], quiet'[b])
  <2> DEFINE k == Missed[b] q == quiet[b] more == q.held + 1
  <2>1. /\ q \in Quiet /\ q.held <= window[k].held /\ quiet \in [Names -> Quiet]
        /\ window[k] \in Window /\ tally[k] \in Tally
    BY DEF WatchdogInv, Alarmed, Fits, FloodInv, FloodShape
  <2>2. /\ q.held \in Nat /\ q.said \in Nat /\ window[k].held \in Nat /\ tally[k].open \in Nat
        /\ more \in Nat /\ more = q.held + 1
    BY <2>1 DEF Quiet, Window, Tally
  <2>3. quiet' = IF HeldBack(k) THEN [quiet EXCEPT ![b] = [q EXCEPT !.held = more]] ELSE quiet
    BY <1>2, <2>1
  <2> HIDE DEF more
  <2>4. CASE HeldBack(k)
    <3>1. /\ quiet'[b] \in Quiet /\ quiet'[b].held = more /\ quiet'[b].said = q.said
          /\ quiet' \in [Names -> Quiet] /\ \A c \in Names \ {b} : quiet'[c] = quiet[c]
      <4> DEFINE new == [q EXCEPT !.held = more]
      <4>1. new \in Quiet /\ new.held = more /\ new.said = q.said
        BY <2>1, <2>2 DEF Quiet
      <4>2. quiet' = [quiet EXCEPT ![b] = new]
        BY <2>3, <2>4
      <4> HIDE DEF new
      <4>3. QED
        BY <4>1, <4>2, <2>1
    <3>2. tally'[k].open = tally[k].open /\ window'[k].held = window[k].held + 1
      BY <1>7, <2>4 DEF Occurs
    <3>3. QED
      BY <3>1, <3>2, <2>1, <2>2 DEF Fits, Voiced
  <2>5. CASE ~HeldBack(k)
    <3>1. tally'[k].open = tally[k].open + 1 /\ window'[k].held = window[k].held /\ quiet' = quiet
      BY <1>7, <2>3, <2>5 DEF Occurs
    <3>2. QED
      BY <3>1, <2>1, <2>2 DEF Fits, Voiced
  <2>6. QED
    BY <2>4, <2>5
<1>8. Alarmed'
  <2>1. \A c \in Names \ {b} : window'[Missed[c]] = window[Missed[c]] /\ tally'[Missed[c]] = tally[Missed[c]]
    BY <1>2 DEF Notify, WatchdogInv, FloodInv, FloodShape
  <2>2. \A c \in Names \ {b} : AlarmOf(c)' = AlarmOf(c) /\ Fits(c)' = Fits(c)
    BY <1>3, <1>q, <2>1 DEF AlarmOf, Fits
  <2>3. AlarmOf(b)' /\ beat'[b].there
    <3>1. beat'[b].missing = TRUE
      BY <1>1, <1>3
    <3>2. beat'[b].there
      BY <1>1, <1>3, <1>4 DEF Registered
    <3>3. QED
      BY <1>q, <3>1, <3>2 DEF AlarmOf
  <2>4. QED
    BY <1>2, <1>3, <1>q, <2>2, <2>3 DEF WatchdogInv, Alarmed
<1>9. QED
  BY <1>5, <1>6, <1>7, <1>8 DEF WatchdogInv

LEMMA StartHubKeeps == WatchdogInv /\ StartHub => WatchdogInv'
<1> SUFFICES ASSUME WatchdogInv, StartHub PROVE WatchdogInv'
  OBVIOUS
<1> USE Periods
<1>1. /\ hub = FALSE /\ hub' = TRUE /\ beat' = beat /\ todo' = todo /\ watched' = watched
      /\ orphaned' = orphaned /\ quiet' = quiet /\ window' = window /\ tally' = tally
      /\ sweeper' = IF Registered = {} \/ sweeper # NoTimer THEN sweeper ELSE 0
  BY DEF StartHub, historyVars, floodVars, EnsureRunning, WatchdogInv, SwitchShape
<1>2. sweeper \in NoTimer..SweepEvery /\ watched = 0
  BY <1>1 DEF WatchdogInv, SwitchShape, Sweeping
<1>3. Registered' = Registered
  BY <1>1 DEF Registered
<1>4. SwitchShape'
  BY <1>1, <1>2, <1>3 DEF WatchdogInv, SwitchShape
<1>5. Sweeping'
  BY <1>1, <1>2, <1>3 DEF Sweeping, InTime
<1>6. Alarmed'
  BY <1>1 DEF WatchdogInv, Alarmed, AlarmOf, Fits
<1>7. QED
  BY <1>1, <1>4, <1>5, <1>6, FloodRests DEF WatchdogInv

\* A stop and a new process close every window, and say so.
LEMMA StopKeeps == WatchdogInv /\ (StopHub \/ NewProcess) => WatchdogInv'
<1> SUFFICES ASSUME WatchdogInv, StopHub \/ NewProcess PROVE WatchdogInv'
  OBVIOUS
<1> USE Periods
<1>1. /\ FlushAll /\ beat' = beat /\ todo = {} /\ todo' = {} /\ orphaned' = orphaned /\ quiet' = Told
      /\ hub' = FALSE /\ watched' = 0 /\ sweeper' \in {NoTimer, 0}
  <2>1. hub \in BOOLEAN /\ watched \in Nat /\ (watched > 0 => hub)
    BY DEF WatchdogInv, SwitchShape, Sweeping
  <2>2. QED
    BY <2>1 DEF StopHub, NewProcess
<1>2. Registered' = Registered
  BY <1>1 DEF Registered
<1>3. SwitchShape'
  <2>1. sweeper' \in NoTimer..SweepEvery /\ watched' \in 0..SweepEvery + 1
    BY <1>1
  <2>2. QED
    BY <1>1, <1>2, <2>1 DEF WatchdogInv, SwitchShape
<1>4. Sweeping'
  BY <1>1 DEF Sweeping
<1>5. FloodInv' /\ Alarmed'
  BY <1>1, FloodCloses, AlarmsAreTold DEF WatchdogInv
<1>6. QED
  BY <1>3, <1>4, <1>5 DEF WatchdogInv

LEMMA TickKeeps == WatchdogInv /\ Tick => WatchdogInv'
<1> SUFFICES ASSUME WatchdogInv, Tick PROVE WatchdogInv'
  OBVIOUS
<1> USE Periods
<1>1. /\ todo = {} /\ todo' = {} /\ sweeper < SweepEvery /\ ~WindowsDue
      /\ beat' = [b \in Names |-> Passed(b)]
      /\ sweeper' = IF sweeper = NoTimer THEN NoTimer ELSE sweeper + 1
      /\ watched' = IF hub /\ watched <= SweepEvery THEN watched + 1 ELSE watched
      /\ window' = Aged /\ hub' = hub /\ orphaned' = orphaned /\ tally' = tally /\ quiet' = quiet
  BY DEF Tick
<1>2. sweeper \in NoTimer..SweepEvery /\ watched \in 0..SweepEvery + 1
  BY DEF WatchdogInv, SwitchShape
<1>3. \A b \in Names : /\ beat'[b] \in Beat /\ beat'[b].there = beat[b].there
                       /\ beat'[b].missing = beat[b].missing /\ beat'[b].age <= beat[b].age + 1
                       /\ beat'[b].age \in Nat /\ beat[b].age \in Nat
  <2> TAKE b \in Names
  <2> DEFINE old == beat[b] older == old.age + 1
  <2>1. old \in Beat /\ old.age \in 0..Deadline + SweepEvery
    BY BeatFields DEF WatchdogInv, SwitchShape
  <2>2. beat'[b] = IF old.there /\ old.age < Deadline + SweepEvery THEN [old EXCEPT !.age = older] ELSE old
    BY <1>1 DEF Passed
  <2>3. old.age < Deadline + SweepEvery => older \in 0..Deadline + SweepEvery
    BY <2>1
  <2>4. older = old.age + 1
    OBVIOUS
  <2> HIDE DEF old, older
  <2>5. CASE old.there /\ old.age < Deadline + SweepEvery
    <3>1. /\ beat'[b] \in Beat /\ beat'[b].there = old.there /\ beat'[b].missing = old.missing
          /\ beat'[b].age = older
      BY <2>1, <2>2, <2>3, <2>5 DEF Beat
    <3>2. QED
      BY <3>1, <2>1, <2>4 DEF old
  <2>6. CASE ~(old.there /\ old.age < Deadline + SweepEvery)
    <3>1. beat'[b] = old
      BY <2>2, <2>6
    <3>2. QED
      BY <3>1, <2>1 DEF old
  <2>7. QED
    BY <2>5, <2>6
<1>4. beat' \in [Names -> Beat]
  BY <1>1, <1>3
<1>5. Registered' = Registered
  BY <1>3 DEF Registered
<1>6. SwitchShape'
  <2>1. sweeper' \in NoTimer..SweepEvery /\ watched' \in 0..SweepEvery + 1
    BY <1>1, <1>2
  <2>2. QED
    BY <1>1, <1>4, <1>5, <2>1 DEF WatchdogInv, SwitchShape
<1>7. Sweeping'
  <2>1. hub /\ Registered # {} => sweeper # NoTimer /\ sweeper' = sweeper + 1
    BY <1>1 DEF WatchdogInv, Sweeping
  <2>2. \A b \in Registered : hub => beat'[b].missing \/ beat'[b].age < Deadline + sweeper' \/ watched' <= sweeper'
    <3> SUFFICES ASSUME NEW b \in Registered, hub
                 PROVE  beat'[b].missing \/ beat'[b].age < Deadline + sweeper' \/ watched' <= sweeper'
      OBVIOUS
    <3>1. b \in Names /\ sweeper \in Nat /\ sweeper' = sweeper + 1
      BY <2>1, <1>2 DEF Registered
    <3>2. beat[b].missing \/ InTime(b)
      BY <1>1 DEF WatchdogInv, Sweeping
    <3>3. CASE beat[b].missing
      BY <3>1, <3>3, <1>3
    <3>4. CASE beat[b].age < Deadline + sweeper
      <4>1. beat'[b].age <= beat[b].age + 1 /\ beat'[b].age \in Nat /\ beat[b].age \in Nat
        BY <3>1, <1>3
      <4>2. QED
        BY <4>1, <3>1, <3>4
    <3>5. CASE watched <= sweeper
      BY <3>1, <3>5, <1>1, <1>2
    <3>6. QED
      BY <3>2, <3>3, <3>4, <3>5 DEF InTime
  <2>3. watched' > 0 => hub
    BY <1>1, <1>2 DEF WatchdogInv, Sweeping
  <2>4. hub' /\ Registered' # {} => sweeper' # NoTimer
    BY <2>1, <1>1, <1>2, <1>5
  <2>5. QED
    BY <2>2, <2>3, <2>4, <1>1, <1>5 DEF Sweeping, InTime
<1>8. FloodInv' /\ \A k \in Keys : tally'[k] = tally[k] /\ window'[k].held = window[k].held
  BY <1>1, FloodAges DEF WatchdogInv
<1>9. Alarmed'
  BY <1>1, <1>3, <1>8, AlarmsRest DEF WatchdogInv
<1>10. QED
  BY <1>6, <1>7, <1>8, <1>9 DEF WatchdogInv

LEMMA OthersKeep ==
  ASSUME WatchdogInv, NEW k \in Keys, FromApplication(k) \/ WindowEnds(k)
  PROVE  WatchdogInv'
<1> USE Periods
<1>1. /\ todo' = todo /\ hub' = hub /\ beat' = beat /\ sweeper' = sweeper /\ watched' = watched
      /\ orphaned' = orphaned /\ (FromApplication(k) => quiet' = quiet) /\ (WindowEnds(k) => quiet' = Told)
  BY DEF FromApplication, WindowEnds, beatVars, historyVars
<1>2. SwitchShape' /\ Sweeping'
  BY <1>1 DEF WatchdogInv, SwitchShape, Sweeping, Registered, InTime
<1>3. FloodInv' /\ Alarmed'
  <2>1. CASE FromApplication(k)
    <3>1. Notify(k) \/ Resolve(k)
      BY <2>1 DEF FromApplication
    <3>2. \A b \in Names : Missed[b] # k
      BY <2>1 DEF FromApplication
    <3>3. FloodInv'
      BY <3>1, FloodNotify, FloodResolve DEF WatchdogInv
    <3>4. \A b \in Names : window'[Missed[b]] = window[Missed[b]] /\ tally'[Missed[b]] = tally[Missed[b]]
      BY <3>1, <3>2 DEF Notify, Resolve, WatchdogInv, FloodInv, FloodShape
    <3>5. Alarmed'
      BY <2>1, <3>4, <1>1, AlarmsRest DEF WatchdogInv
    <3>6. QED
      BY <3>3, <3>5
  <2>2. CASE WindowEnds(k)
    <3>1. CloseWindow(k)
      BY <2>2 DEF WindowEnds
    <3>2. QED
      BY <2>2, <3>1, <1>1, FloodCloses, AlarmsAreTold DEF WatchdogInv
  <2>3. QED
    BY <2>1, <2>2
<1>4. QED
  BY <1>2, <1>3 DEF WatchdogInv

LEMMA WatchdogSteps == WatchdogInv /\ [WatchdogNext]_watchdogVars => WatchdogInv'
<1>1. ASSUME WatchdogInv, UNCHANGED watchdogVars PROVE WatchdogInv'
  BY <1>1, FloodRests DEF watchdogVars, beatVars, historyVars, floodVars, WatchdogInv, SwitchShape,
       Sweeping, Alarmed, Registered, InTime, AlarmOf, Fits
<1>2. QED
  BY <1>1, StartHubKeeps, StopKeeps, TickKeeps, SweepKeeps, ExpectKeeps, CheckInKeeps, ForgetKeeps,
     ReportKeeps, OthersKeep DEF WatchdogNext

LEMMA WatchdogIsSafe == WatchdogSpec => []WatchdogInv
<1>1. WatchdogInit => WatchdogInv
  BY WatchdogStarts
<1>2. WatchdogInv /\ [WatchdogNext]_watchdogVars => WatchdogInv'
  BY WatchdogSteps
<1>3. QED
  BY <1>1, <1>2, PTL DEF WatchdogSpec

\* Whatever is published goes out or is told of, once, and windows stay within their ceiling
\* (flood.ts: shouldCoalesce, close, flushAll).
THEOREM EveryAlertIsCounted == WatchdogSpec => []EveryAlertCounts
<1>1. WatchdogInv => EveryAlertCounts
  BY DEF WatchdogInv, FloodInv, EveryAlertCounts, Balanced
<1>2. QED
  BY <1>1, WatchdogIsSafe, PTL

\* One sweep after the hub was started, nobody is silent and unreported for longer than the
\* deadline and one interval (watchdog.ts: sweep, ensureRunning; server.ts: start, stop).
THEOREM NoSilenceIsOverlooked == WatchdogSpec => []SilenceIsNoticed
<1>1. WatchdogInv => SilenceIsNoticed
  <2> SUFFICES ASSUME WatchdogInv, watched > SweepEvery, todo = {}, sweeper < SweepEvery,
                      NEW b \in Registered, beat[b].age >= Deadline + SweepEvery
               PROVE  beat[b].missing
    BY DEF SilenceIsNoticed
  <2>1. /\ b \in Names /\ sweeper \in NoTimer..SweepEvery /\ watched \in 0..SweepEvery + 1
    BY DEF WatchdogInv, SwitchShape, Registered
  <2>2. hub
    BY <2>1, Periods DEF WatchdogInv, Sweeping
  <2>3. beat[b].missing \/ InTime(b)
    BY <2>2 DEF WatchdogInv, Sweeping
  <2>4. beat[b].age \in Nat
    BY <2>1, BeatFields, Periods DEF WatchdogInv
  <2>5. QED
    BY <2>1, <2>3, <2>4, Periods DEF InTime
<1>2. QED
  BY <1>1, WatchdogIsSafe, PTL

\* While a heartbeat is missing, an alarm of this very silence is up, counted by a window or told
\* of; once it is back, nothing its key would clear is up, and what still stands or is still to
\* come is no more than flood control held back (watchdog.ts: sweep, checkIn; flood.ts: close;
\* server.ts: onHeartbeatMissed, onHeartbeatRecovered, releaseSummary).
THEOREM AlarmsAreTrue == WatchdogSpec => []AlarmMatches
<1>1. WatchdogInv => AlarmMatches
  <2> SUFFICES ASSUME WatchdogInv, NEW b \in Registered \ orphaned
               PROVE  LET t == tally[Missed[b]]  w == window[Missed[b]]  q == quiet[b] IN
                      IF beat[b].missing
                      THEN t.open + q.held + q.said > 0 /\ q.held <= w.held
                      ELSE t.open = 0 /\ t.unkeyed + w.held <= t.published - t.sent
    BY DEF AlarmMatches
  <2>1. b \in Names /\ AlarmOf(b) /\ Fits(b)
    BY DEF WatchdogInv, Alarmed, Registered
  <2>2. /\ tally[Missed[b]] \in Tally /\ window[Missed[b]] \in Window
        /\ Balanced(tally[Missed[b]], window[Missed[b]])
    BY <2>1, Periods DEF WatchdogInv, FloodInv, FloodShape
  <2>3. tally[Missed[b]].unkeyed + window[Missed[b]].held <= tally[Missed[b]].published - tally[Missed[b]].sent
    BY <2>2, FloodConstants DEF FloodConstants, Tally, Window, Balanced
  <2>4. QED
    BY <2>1, <2>3 DEF AlarmOf, Fits, Voiced
<1>2. QED
  BY <1>1, WatchdogIsSafe, PTL

----------------------------------------------------------------------------
(* Web Push, for any endpoints, keys and visits: a page that has done        *)
(* subscribing can be woken.                                                 *)

Ends == Endpoints \cup {None}
Subs == [at : Ends, key : Nat]
Runs == [at : {"look", "subscribe", "unsubscribe"}, want : Nat, had : Subs]
PushShape ==
  /\ mem \in [key : Nat, endpoint : Ends] /\ saved \in [key : Nat, endpoint : Ends]
  /\ header \in [key : Nat, age : Nat] /\ minted \in Nat /\ link \in BOOLEAN
  /\ wire \in Seq(Ends) /\ offered \in Nat /\ sub \in Subs /\ runs \subseteq Runs

\* A key that was lost was never saved and is not used again, so the hub's key is its latest
\* and nobody knows a later one.
LatestKey ==
  /\ mem.key \in {NoKey, minted}
  /\ saved.key # NoKey => saved.key = minted /\ mem.key = minted
  /\ offered <= minted /\ sub.key <= offered
  /\ link => mem.key = offered /\ offered # NoKey
\* A run under way removes only subscriptions bound to an earlier key.
RunsLookBack ==
  \A r \in runs : r.at # "look" => /\ r.want <= offered
                                   /\ r.at = "unsubscribe" => r.had.key < r.want

\* The last word the hub has, or will have, about the subscription
Excuse == "late answer" \in excused \/ "withdrawn" \in excused
Filed ==
  IF wire # <<>> THEN wire[Len(wire)] \in {sub.at, None}
  ELSE mem.endpoint = sub.at \/ Excuse \/ sub.at \in Refused \cup Unusable
Bound == sub.key = offered /\ Filed
Busy == \E r \in runs : r.at = "look" \/ r.want = offered
\* ... is the present subscription's, unless a run has still to see to it.
Subscribing == link /\ "gave up" \notin excused /\ sub # NoSub => Bound \/ Busy
PushInv == PushShape /\ LatestKey /\ RunsLookBack /\ Subscribing

LEMMA PushStarts == WebPushInit => PushInv
<1> SUFFICES ASSUME WebPushInit PROVE PushInv
  OBVIOUS
<1>1. PushShape
  <2>1. /\ mem = [key |-> 0, endpoint |-> None] /\ saved = mem /\ header = [key |-> 0, age |-> 0]
        /\ sub = [at |-> None, key |-> 0] /\ minted = 0 /\ link = FALSE /\ wire = <<>> /\ offered = 0
        /\ runs = {}
    BY DEF WebPushInit, NoKey, NoSub, NoHeader
  <2>2. None \in Ends
    BY DEF Ends
  <2>3. wire \in Seq(Ends)
    BY <2>1
  <2>4. mem \in [key : Nat, endpoint : Ends] /\ header \in [key : Nat, age : Nat] /\ sub \in Subs
    BY <2>1, <2>2 DEF Subs
  <2>5. QED
    BY <2>1, <2>3, <2>4 DEF PushShape
<1>2. LatestKey /\ RunsLookBack /\ Subscribing
  BY DEF WebPushInit, LatestKey, RunsLookBack, Subscribing, NoKey, NoSub
<1>3. QED
  BY <1>1, <1>2 DEF PushInv

\* What is registered is the last word; what the hub takes off the wire was the first.
LEMMA LastWord ==
  ASSUME NEW w \in Seq(Ends), NEW e \in Ends
  PROVE  /\ Append(w, e) \in Seq(Ends) /\ Append(w, e) # <<>>
         /\ Append(w, e)[Len(Append(w, e))] = e
         /\ w # <<>> => /\ Head(w) \in Ends /\ Tail(w) \in Seq(Ends)
                        /\ Tail(w) # <<>> => Tail(w)[Len(Tail(w))] = w[Len(w)]
                        /\ Tail(w) = <<>> => Head(w) = w[Len(w)]
<1>1. Append(w, e) \in Seq(Ends) /\ Append(w, e) # <<>> /\ Append(w, e)[Len(Append(w, e))] = e
  OBVIOUS
<1>2. ASSUME w # <<>>
      PROVE  /\ Head(w) \in Ends /\ Tail(w) \in Seq(Ends)
             /\ Tail(w) # <<>> => Tail(w)[Len(Tail(w))] = w[Len(w)]
             /\ Tail(w) = <<>> => Head(w) = w[Len(w)]
  <2>1. Head(w) \in Ends /\ Tail(w) \in Seq(Ends) /\ Len(Tail(w)) = Len(w) - 1 /\ Len(w) \in Nat \ {0}
    BY <1>2
  <2>2. Tail(w) # <<>> => Tail(w)[Len(Tail(w))] = w[Len(w)]
    BY <1>2, <2>1
  <2>3. Tail(w) = <<>> => Head(w) = w[Len(w)]
    BY <1>2, <2>1
  <2>4. QED
    BY <2>1, <2>2, <2>3
<1>3. QED
  BY <1>1, <1>2

LEMMA Fields ==
  PushInv => /\ mem.key \in Nat /\ mem.endpoint \in Ends /\ sub.at \in Ends /\ sub.key \in Nat
             /\ minted \in Nat /\ offered \in Nat /\ saved.key \in Nat /\ saved.endpoint \in Ends
             /\ mem.key # NoKey => Vapid = mem.key
BY DEF PushInv, PushShape, Subs, Vapid

LEMMA Later == \A a, b \in Nat : a <= b => a <= b + 1
OBVIOUS

\* Steps of the hub that may forget an endpoint or mint a key, but not while a page is connected.
LEMMA HubKeeps ==
  ASSUME PushInv, saved' = saved \/ saved' = mem, header' \in [key : Nat, age : Nat],
         UNCHANGED <<link, wire, offered, sub, runs>>,
         \/ mem'.key = mem.key /\ minted' = minted
         \/ mem.key = NoKey /\ mem'.key = minted + 1 /\ minted' = minted + 1 /\ saved' = saved,
         mem' \in [key : Nat, endpoint : Ends],
         \/ mem'.endpoint = mem.endpoint /\ excused' = excused
         \/ mem.endpoint \in Unusable /\ excused' = excused
         \/ mem.endpoint # sub.at /\ excused' = excused
         \/ excused' = excused \cup {"late answer"}
  PROVE  PushInv'
<1> USE Fields DEF NoKey
<1>1. PushShape'
  BY DEF PushInv, PushShape
<1>2. LatestKey'
  <2>1. LatestKey
    BY DEF PushInv
  <2>2. CASE mem'.key = mem.key /\ minted' = minted
    <3>1. saved'.key \in {saved.key, mem.key}
      OBVIOUS
    <3>2. QED
      BY <2>1, <2>2, <3>1 DEF LatestKey
  <2>3. CASE mem.key = NoKey /\ mem'.key = minted + 1 /\ minted' = minted + 1 /\ saved' = saved
    <3>1. link = FALSE /\ saved.key = NoKey
      BY <2>1, <2>3 DEF LatestKey, PushInv, PushShape
    <3>2. link' = FALSE /\ saved'.key = NoKey /\ mem'.key = minted' /\ offered' = offered /\ sub' = sub
      BY <2>3, <3>1
    <3>3. offered <= minted /\ sub.key <= offered /\ minted' = minted + 1
      BY <2>1, <2>3 DEF LatestKey
    <3>a. offered \in Nat /\ minted \in Nat
      OBVIOUS
    <3>b. offered <= minted'
      <4>2. minted' \in Nat
        BY <3>3, <3>a
      <4>3. QED
        BY <3>3, <3>a, <4>2, Later
    <3>4. QED
      BY <3>2, <3>3, <3>b DEF LatestKey
  <2>4. QED
    BY <2>2, <2>3
<1>3. RunsLookBack'
  BY DEF PushInv, RunsLookBack
<1>4. Subscribing'
  <2>1. Busy' = Busy
    BY DEF Busy
  <2>2. Filed => Filed'
    BY DEF Filed, Excuse
  <2>3. Bound => Bound'
    BY <2>2 DEF Bound
  <2>4. QED
    BY <2>1, <2>3 DEF PushInv, Subscribing
<1>5. QED
  BY <1>1, <1>2, <1>3, <1>4 DEF PushInv

LEMMA PushKeeps == PushInv /\ Push => PushInv'
<1> SUFFICES ASSUME PushInv, Push PROVE PushInv'
  OBVIOUS
<1> USE Fields DEF NoKey
<1>1. /\ saved' = saved /\ link' = link /\ wire' = wire /\ offered' = offered /\ sub' = sub
      /\ runs' = runs /\ excused' = excused
  BY DEF Push, pageVars
<1>2. CASE mem.endpoint \in Unusable
  <2>1. mem' = [mem EXCEPT !.endpoint = None] /\ header' = header /\ minted' = minted
    BY <1>2 DEF Push, SendOne
  <2>2. mem' \in [key : Nat, endpoint : Ends] /\ mem'.key = mem.key
    BY <2>1 DEF PushInv, PushShape, Ends
  <2>3. header' \in [key : Nat, age : Nat]
    BY <2>1 DEF PushInv, PushShape
  <2>4. QED
    BY <1>1, <1>2, <2>1, <2>2, <2>3, HubKeeps
<1>3. CASE mem.endpoint \notin Unusable
  <2>1. /\ mem' = [mem EXCEPT !.key = Vapid] /\ header' = Authorization
        /\ minted' = IF mem.key = NoKey THEN minted + 1 ELSE minted
    BY <1>3 DEF Push, SendOne, MintsVapid
  <2>2. Vapid \in Nat /\ Vapid = IF mem.key = NoKey THEN minted + 1 ELSE mem.key
    BY DEF Vapid
  <2>3. mem' \in [key : Nat, endpoint : Ends] /\ mem'.key = Vapid /\ mem'.endpoint = mem.endpoint
    BY <2>1, <2>2 DEF PushInv, PushShape
  <2>4. header' \in [key : Nat, age : Nat]
    BY <2>1, <2>2 DEF Authorization, PushInv, PushShape
  <2>5. QED
    BY <1>1, <2>1, <2>2, <2>3, <2>4, HubKeeps
<1>4. QED
  BY <1>2, <1>3

LEMMA AnswersKeep ==
  ASSUME PushInv, NEW e \in Endpoints, Gone(e) \/ NotGone(e)
  PROVE  PushInv'
<1> USE Fields
<1>1. /\ saved' = saved /\ header' = header /\ minted' = minted /\ link' = link /\ wire' = wire
      /\ offered' = offered /\ sub' = sub /\ runs' = runs
  BY DEF Gone, NotGone, pageVars
<1>2. header' \in [key : Nat, age : Nat]
  BY <1>1 DEF PushInv, PushShape
<1>3. CASE NotGone(e)
  <2>1. mem' = mem /\ excused' = excused
    BY <1>3 DEF NotGone
  <2>2. QED
    BY <1>1, <1>2, <2>1, HubKeeps DEF PushInv, PushShape
<1>4. CASE Gone(e)
  <2>1. /\ sub.at # e /\ mem' = [mem EXCEPT !.endpoint = None]
        /\ excused' = IF mem.endpoint \in {None, e} THEN excused ELSE excused \cup {"late answer"}
    BY <1>4 DEF Gone
  <2>2. mem' \in [key : Nat, endpoint : Ends] /\ mem'.key = mem.key /\ mem'.endpoint = None
    BY <2>1 DEF PushInv, PushShape, Ends
  <2>3. QED
    BY <1>1, <1>2, <2>1, <2>2, HubKeeps
<1>5. QED
  BY <1>3, <1>4

LEMMA StoreKeeps == PushInv /\ (SaveStore \/ LetTokenAge) => PushInv'
<1> SUFFICES ASSUME PushInv, SaveStore \/ LetTokenAge PROVE PushInv'
  OBVIOUS
<1>1. /\ mem' = mem /\ (saved' = saved \/ saved' = mem) /\ minted' = minted /\ link' = link /\ wire' = wire
      /\ offered' = offered /\ sub' = sub /\ runs' = runs /\ excused' = excused
      /\ header' = header \/ header' = [header EXCEPT !.age = @ + 1]
  BY DEF SaveStore, LetTokenAge, pageVars
<1>2. header' \in [key : Nat, age : Nat]
  <2> DEFINE older == header.age + 1
  <2>1. older \in Nat /\ header \in [key : Nat, age : Nat]
    BY DEF PushInv, PushShape
  <2>2. header' = header \/ header' = [header EXCEPT !.age = older]
    BY <1>1
  <2> HIDE DEF older
  <2>3. QED
    BY <2>1, <2>2
<1>3. QED
  BY <1>1, <1>2, HubKeeps DEF PushInv, PushShape

LEMMA RegisterKeeps == PushInv /\ HandlePushRegister => PushInv'
<1> SUFFICES ASSUME PushInv, HandlePushRegister PROVE PushInv'
  OBVIOUS
<1> USE Fields
<1> DEFINE e == Head(wire)
<1>1. /\ wire # <<>> /\ wire' = Tail(wire)
      /\ mem' = IF Acceptable(e) THEN [mem EXCEPT !.endpoint = e] ELSE mem
      /\ excused' = IF e = None THEN excused \cup {"withdrawn"} ELSE excused \ {"late answer", "withdrawn"}
      /\ saved' = saved /\ header' = header /\ minted' = minted /\ link' = link /\ offered' = offered
      /\ sub' = sub /\ runs' = runs
  BY DEF HandlePushRegister
<1>2. /\ e \in Ends /\ Tail(wire) \in Seq(Ends)
      /\ Tail(wire) # <<>> => Tail(wire)[Len(Tail(wire))] = wire[Len(wire)]
      /\ Tail(wire) = <<>> => e = wire[Len(wire)]
  <2>1. None \in Ends /\ wire \in Seq(Ends)
    BY DEF Ends, PushInv, PushShape
  <2>2. QED
    BY <1>1, <2>1, LastWord
<1> HIDE DEF e
<1>3. /\ mem' \in [key : Nat, endpoint : Ends] /\ mem'.key = mem.key
      /\ Acceptable(e) => mem'.endpoint = e
  BY <1>1, <1>2 DEF PushInv, PushShape
<1>4. PushShape'
  BY <1>1, <1>2, <1>3 DEF PushInv, PushShape
<1>5. LatestKey' /\ RunsLookBack'
  BY <1>1, <1>3 DEF PushInv, LatestKey, RunsLookBack
<1>6. Filed => Filed'
  BY <1>1, <1>2, <1>3 DEF Filed, Excuse, Acceptable
<1>7. Subscribing'
  BY <1>1, <1>6 DEF PushInv, Subscribing, Bound, Busy
<1>8. QED
  BY <1>4, <1>5, <1>7 DEF PushInv

\* Without a connection nothing is promised about the subscription.
LEMMA ApartKeeps == PushInv /\ (RestartHub \/ LosePage) => PushInv'
<1> SUFFICES ASSUME PushInv, RestartHub \/ LosePage PROVE PushInv'
  OBVIOUS
<1> USE Fields DEF NoKey
<1>1. /\ mem' \in {mem, saved} /\ (header' = header \/ header' = [key |-> 0, age |-> 0]) /\ link' = FALSE
      /\ wire' = <<>> /\ saved' = saved /\ minted' = minted /\ offered' = offered /\ sub' = sub
      /\ runs' \subseteq runs
  BY DEF RestartHub, LosePage, NoHeader, hubVars
<1>2. wire' \in Seq(Ends) /\ header' \in [key : Nat, age : Nat]
  BY <1>1 DEF PushInv, PushShape
<1>3. PushShape'
  BY <1>1, <1>2 DEF PushInv, PushShape
<1>4. LatestKey'
  BY <1>1 DEF PushInv, LatestKey
<1>5. RunsLookBack' /\ Subscribing'
  BY <1>1 DEF PushInv, RunsLookBack, Subscribing
<1>6. QED
  BY <1>3, <1>4, <1>5 DEF PushInv

LEMMA ReadyKeeps == PushInv /\ ReadyPage => PushInv'
<1> SUFFICES ASSUME PushInv, ReadyPage PROVE PushInv'
  OBVIOUS
<1> USE Fields DEF NoKey
<1> DEFINE r == [at |-> "look", want |-> NoKey, had |-> NoSub]
<1>1. /\ link' = TRUE /\ minted' = (IF mem.key = NoKey THEN minted + 1 ELSE minted)
      /\ mem' = [mem EXCEPT !.key = Vapid] /\ offered' = Vapid /\ runs' = runs \cup {r}
      /\ saved' = saved /\ header' = header /\ wire' = wire /\ sub' = sub
  BY DEF ReadyPage, MintsVapid
<1>2. r \in Runs /\ r.at = "look"
  BY DEF Runs, Subs, NoSub, Ends
<1> HIDE DEF r
<1>3. Vapid \in Nat /\ Vapid = IF mem.key = NoKey THEN minted + 1 ELSE mem.key
  BY DEF Vapid
<1>4. mem' \in [key : Nat, endpoint : Ends] /\ mem'.key = Vapid
  BY <1>1, <1>3 DEF PushInv, PushShape
<1>5. PushShape'
  BY <1>1, <1>2, <1>3, <1>4 DEF PushInv, PushShape
<1>6. offered <= Vapid /\ Vapid = minted' /\ Vapid # NoKey
  BY <1>1, <1>3 DEF PushInv, LatestKey
<1>7. LatestKey'
  BY <1>1, <1>3, <1>4, <1>6 DEF PushInv, LatestKey
<1>8. RunsLookBack'
  <2>1. \A q \in runs : q.want \in Nat /\ q \in Runs
    BY DEF PushInv, PushShape, Runs
  <2>2. \A q \in runs' : q.at # "look" => q \in runs
    BY <1>1, <1>2
  <2>3. \A q \in runs : q.at # "look" => q.want <= offered /\ (q.at = "unsubscribe" => q.had.key < q.want)
    BY DEF PushInv, RunsLookBack
  <2>4. \A q \in runs' : q.at # "look" => q.want <= offered'
    BY <1>1, <1>3, <1>6, <2>1, <2>2, <2>3
  <2>5. QED
    BY <2>2, <2>3, <2>4 DEF RunsLookBack
<1>9. Subscribing'
  BY <1>1, <1>2 DEF Subscribing, Busy
<1>10. QED
  BY <1>5, <1>7, <1>8, <1>9 DEF PushInv

\* The steps of the page, which leave the hub alone.
LEMMA PageShape ==
  ASSUME PushInv, UNCHANGED <<hubVars, link, offered>>, wire' \in Seq(Ends), sub' \in Subs, sub'.key <= offered,
         runs' \subseteq Runs,
         \A r \in runs' : r.at # "look" => r.want <= offered /\ (r.at = "unsubscribe" => r.had.key < r.want)
  PROVE  PushShape' /\ LatestKey' /\ RunsLookBack'
BY DEF PushInv, PushShape, LatestKey, RunsLookBack, hubVars

LEMMA RegisteredNow ==
  ASSUME PushInv, NEW e \in Ends, Registers(e)
  PROVE  /\ wire' \in Seq(Ends)
         /\ link => wire' # <<>> /\ wire'[Len(wire')] = e
<1>1. wire \in Seq(Ends)
  BY DEF PushInv, PushShape
<1>2. Append(wire, e) \in Seq(Ends) /\ Append(wire, e) # <<>> /\ Append(wire, e)[Len(Append(wire, e))] = e
  BY <1>1, LastWord
<1>3. QED
  BY <1>1, <1>2 DEF Registers

LEMMA RunFacts ==
  ASSUME PushInv, NEW r \in runs
  PROVE  /\ r \in Runs /\ r.want \in Nat /\ r.had \in Subs /\ r.had.key \in Nat
         /\ r.at # "look" => r.want <= offered /\ (r.at = "unsubscribe" => r.had.key < r.want)
BY DEF PushInv, PushShape, RunsLookBack, Runs, Subs

LEMMA LookKeeps ==
  ASSUME PushInv, NEW r \in runs, Look(r)
  PROVE  PushInv'
<1> USE Fields DEF NoKey
<1>1. r.at = "look" /\ UNCHANGED <<hubVars, link, offered, sub, excused>> /\ sub \in Subs /\ sub.key <= offered
  BY DEF Look, PushInv, PushShape, LatestKey
<1>2. CASE SubscribedWith(sub)
  <2>1. runs' = runs \ {r} /\ Registers(sub.at) /\ sub.key = offered
    BY <1>2 DEF Look, SubscribedWith
  <2>2. wire' \in Seq(Ends) /\ (link => wire' # <<>> /\ wire'[Len(wire')] = sub.at)
    BY <2>1, RegisteredNow
  <2>3. \A q \in runs' : q \in Runs /\ (q.at # "look" => q.want <= offered /\ (q.at = "unsubscribe" => q.had.key < q.want))
    BY <2>1, RunFacts
  <2>4. PushShape' /\ LatestKey' /\ RunsLookBack'
    BY <1>1, <2>2, <2>3, PageShape
  <2>5. link => Bound'
    BY <1>1, <2>1, <2>2 DEF Bound, Filed
  <2>6. QED
    BY <1>1, <2>4, <2>5 DEF PushInv, Subscribing
<1>3. CASE ~SubscribedWith(sub)
  <2> DEFINE q == [at |-> IF sub = NoSub THEN "subscribe" ELSE "unsubscribe", want |-> offered, had |-> sub]
  <2>1. runs' = (runs \ {r}) \cup {q} /\ wire' = wire
    BY <1>3 DEF Look
  <2>2. q \in Runs /\ q.want = offered /\ (q.at = "unsubscribe" => q.had.key < q.want)
    BY <1>1, <1>3 DEF Runs, SubscribedWith
  <2> HIDE DEF q
  <2>3. \A p \in runs' : p \in Runs /\ (p.at # "look" => p.want <= offered /\ (p.at = "unsubscribe" => p.had.key < p.want))
    BY <2>1, <2>2, RunFacts
  <2>4. PushShape' /\ LatestKey' /\ RunsLookBack'
    BY <1>1, <2>1, <2>3, PageShape DEF PushInv, PushShape
  <2>5. Busy'
    BY <1>1, <2>1, <2>2 DEF Busy
  <2>6. QED
    BY <2>4, <2>5 DEF PushInv, Subscribing
<1>4. QED
  BY <1>2, <1>3

LEMMA UnsubscribeKeeps ==
  ASSUME PushInv, NEW r \in runs, Unsubscribe(r)
  PROVE  PushInv'
<1> USE Fields DEF NoKey
<1> DEFINE q == [r EXCEPT !.at = "subscribe"]
<1>1. /\ r.at = "unsubscribe" /\ runs' = (runs \ {r}) \cup {q} /\ sub' = (IF sub = r.had THEN NoSub ELSE sub)
      /\ UNCHANGED <<hubVars, link, offered, wire, excused>>
  BY DEF Unsubscribe
<1>2. q \in Runs /\ q.at = "subscribe" /\ q.want = r.want
  BY RunFacts DEF Runs
<1> HIDE DEF q
<1>3. \A p \in runs' : p \in Runs /\ (p.at # "look" => p.want <= offered /\ (p.at = "unsubscribe" => p.had.key < p.want))
  BY <1>1, <1>2, RunFacts
<1>4. sub' \in Subs /\ sub'.key <= offered
  BY <1>1 DEF PushInv, PushShape, LatestKey, NoSub, Subs, Ends
<1>5. PushShape' /\ LatestKey' /\ RunsLookBack'
  BY <1>1, <1>3, <1>4, PageShape DEF PushInv, PushShape
<1>6. Subscribing'
  <2>1. Busy => Busy'
    <3>1. \A p \in runs : (p.at = "look" \/ p.want = offered) => p \in runs' \/ (p = r /\ q.want = offered)
      BY <1>1, <1>2
    <3>2. QED
      BY <3>1, <1>1 DEF Busy
  <2>2. sub' # NoSub => sub' = sub
    BY <1>1
  <2>3. sub' = sub /\ Bound => Bound'
    BY <1>1 DEF Bound, Filed, Excuse, hubVars
  <2>4. QED
    BY <1>1, <2>1, <2>2, <2>3 DEF PushInv, Subscribing
<1>7. QED
  BY <1>5, <1>6 DEF PushInv

LEMMA SubscribeKeeps ==
  ASSUME PushInv, NEW r \in runs, Subscribe(r)
  PROVE  PushInv'
<1> USE Fields DEF NoKey
<1>1. /\ r.at = "subscribe" /\ runs' = runs \ {r} /\ UNCHANGED <<hubVars, link, offered>>
      /\ excused' = IF r.want = offered THEN excused ELSE excused \cup {"gave up"}
  BY DEF Subscribe
<1>2. sub' \in Subs /\ sub'.key = r.want /\ sub'.at \in Ends /\ Registers(sub'.at)
  <2>1. CASE \E e \in Endpoints : sub' = [at |-> e, key |-> r.want] /\ Registers(e)
    <3>1. PICK e \in Endpoints : sub' = [at |-> e, key |-> r.want] /\ Registers(e)
      BY <2>1
    <3>2. e \in Ends /\ sub'.at = e /\ sub'.key = r.want
      BY <3>1 DEF Ends
    <3>3. QED
      BY <3>1, <3>2, RunFacts DEF Subs
  <2>2. CASE sub.key = r.want /\ Registers(sub.at) /\ sub' = sub
    BY <2>2 DEF PushInv, PushShape
  <2>3. QED
    BY <2>1, <2>2 DEF Subscribe
<1>3. wire' \in Seq(Ends) /\ (link => wire' # <<>> /\ wire'[Len(wire')] = sub'.at)
  BY <1>2, RegisteredNow
<1>4. \A p \in runs' : p \in Runs /\ (p.at # "look" => p.want <= offered /\ (p.at = "unsubscribe" => p.had.key < p.want))
  BY <1>1, RunFacts
<1>5. PushShape' /\ LatestKey' /\ RunsLookBack'
  <2>1. r.want <= offered
    BY <1>1, RunFacts
  <2>2. QED
    BY <1>1, <1>2, <1>3, <1>4, <2>1, PageShape
<1>6. Subscribing'
  BY <1>1, <1>2, <1>3 DEF Subscribing, Bound, Filed
<1>7. QED
  BY <1>5, <1>6 DEF PushInv

LEMMA OthersKeepPush ==
  PushInv /\ ((\E r \in runs : GivesUp(r)) \/ Expire \/ Withdraw) => PushInv'
<1> SUFFICES ASSUME PushInv, (\E r \in runs : GivesUp(r)) \/ Expire \/ Withdraw PROVE PushInv'
  OBVIOUS
<1> USE Fields DEF NoKey
<1>1. CASE \E r \in runs : GivesUp(r)
  <2>1. PICK r \in runs : GivesUp(r)
    BY <1>1
  <2>2. /\ runs' = runs \ {r} /\ "gave up" \in excused' /\ UNCHANGED <<hubVars, link, offered, wire, sub>>
    BY <2>1 DEF GivesUp
  <2>3. \A p \in runs' : p \in Runs /\ (p.at # "look" => p.want <= offered /\ (p.at = "unsubscribe" => p.had.key < p.want))
    BY <2>2, RunFacts
  <2>4. PushShape' /\ LatestKey' /\ RunsLookBack'
    BY <2>2, <2>3, PageShape DEF PushInv, PushShape, LatestKey
  <2>5. QED
    BY <2>2, <2>4 DEF PushInv, Subscribing
<1>2. CASE Expire
  <2>1. sub' = NoSub /\ runs' = runs /\ UNCHANGED <<hubVars, link, offered, wire>>
    BY <1>2 DEF Expire
  <2>2. sub' \in Subs /\ sub'.key <= offered
    BY <2>1 DEF NoSub, Subs, Ends
  <2>3. PushShape' /\ LatestKey' /\ RunsLookBack'
    BY <2>1, <2>2, RunFacts, PageShape DEF PushInv, PushShape
  <2>4. QED
    BY <2>1, <2>3 DEF PushInv, Subscribing
<1>3. CASE Withdraw
  <2>1. link /\ Registers(None) /\ runs' = runs /\ UNCHANGED <<hubVars, link, offered, sub, excused>>
    BY <1>3 DEF Withdraw
  <2>2. wire' \in Seq(Ends) /\ wire' # <<>> /\ wire'[Len(wire')] = None
    BY <2>1, RegisteredNow DEF Ends
  <2>3. PushShape' /\ LatestKey' /\ RunsLookBack'
    BY <2>1, <2>2, RunFacts, PageShape DEF PushInv, PushShape, LatestKey
  <2>4. Filed'
    BY <2>2 DEF Filed
  <2>5. QED
    BY <2>1, <2>3, <2>4 DEF PushInv, Subscribing, Bound, Busy
<1>4. QED
  BY <1>1, <1>2, <1>3

LEMMA PushSteps == PushInv /\ [WebPushNext]_webPushVars => PushInv'
<1>1. ASSUME PushInv, UNCHANGED webPushVars PROVE PushInv'
  BY <1>1 DEF webPushVars, hubVars, pageVars, PushInv, PushShape, LatestKey, RunsLookBack, Subscribing,
       Bound, Busy, Filed, Excuse
<1>2. QED
  BY <1>1, PushKeeps, AnswersKeep, StoreKeeps, RegisterKeeps, ApartKeeps, ReadyKeeps, LookKeeps,
     UnsubscribeKeeps, SubscribeKeeps, OthersKeepPush DEF WebPushNext

\* A page that is connected and has done subscribing can be woken, unless there is one of the
\* reasons named (server.ts: vapid, pushToOffline, handlePushRegister; app.ts: subscribeToPush).
THEOREM PagesCanBeWoken == WebPushSpec => []Wakeable
<1>1. PushInv => Wakeable
  <2> SUFFICES ASSUME PushInv, Subscribed, excused = {}
               PROVE  /\ mem.endpoint = sub.at /\ mem.key = sub.key
                      /\ Authorization.key = sub.key /\ Authorization.age < TokenLife
    BY DEF Wakeable
  <2> USE Fields DEF NoKey
  <2>1. sub # NoSub
    BY WebPushConstants DEF WebPushConstants, Subscribed, NoSub
  <2>2. Bound
    BY <2>1 DEF Subscribed, PushInv, Subscribing, Busy
  <2>3. mem.endpoint = sub.at
    BY <2>2 DEF Subscribed, Bound, Filed, Excuse
  <2>4. mem.key = sub.key /\ mem.key # NoKey /\ Vapid = sub.key
    BY <2>2 DEF Subscribed, Bound, PushInv, LatestKey, Vapid
  <2>5. Authorization.key = sub.key /\ Authorization.age < TokenLife
    BY <2>4, WebPushConstants DEF WebPushConstants, Authorization, PushInv, PushShape
  <2>6. QED
    BY <2>3, <2>4, <2>5
<1>2. QED
  BY <1>1, PushStarts, PushSteps, PTL DEF WebPushSpec

----------------------------------------------------------------------------
(* The cached connection of a program that publishes, for any number of      *)
(* attempts and of callers, and whether or not its client keeps trying.      *)

Try == [at : {"asking", "opening", "waiting", "over"}, heard : {"nothing", "ready", "failure"}]
RemoteShape ==
  /\ ready \in Attempts \cup {NoAttempt} /\ attempt \in [Attempts -> Try]
  /\ channel \in {"none", "opening", "up", "retrying", "refused"} /\ meant \in BOOLEAN

\* What the cached attempt has done already: once it has asked, its client is meant to be connected;
\* once it has a socket, there is a way to one, and it is not over before it has heard.
Lasts == channel \in {"opening", "up", "retrying", "refused"} \/ ~KeepsTrying
Cached ==
  ready # NoAttempt =>
    /\ attempt[ready].at # "asking" => meant
    /\ attempt[ready].at \in {"waiting", "over"} => Lasts
    /\ attempt[ready].at = "over" => attempt[ready].heard = "ready"
RemoteInv == RemoteShape /\ Cached

LEMMA RemoteStarts == RemoteInit => RemoteInv
BY DEF RemoteInit, RemoteInv, RemoteShape, Cached, Try, Rest

\* What the listeners hear moves no attempt, and says nothing to one that is over.
LEMMA Hearing ==
  ASSUME RemoteShape, NEW what \in {"ready", "failure"}, Hear(what)
  PROVE  /\ attempt' \in [Attempts -> Try]
         /\ \A n \in Attempts : attempt'[n].at = attempt[n].at
         /\ \A n \in Attempts \ InFlight : attempt'[n] = attempt[n]
<1>1. \A n \in Attempts : attempt[n] \in Try /\ [attempt[n] EXCEPT !.heard = what] \in Try
                          /\ [attempt[n] EXCEPT !.heard = what].at = attempt[n].at
  BY DEF RemoteShape, Try
<1> QED
  BY <1>1 DEF Hear

\* One attempt goes on: where it stands, or what it heard, is all that changes.
LEMMA GoingOn ==
  ASSUME RemoteShape, NEW n \in Attempts, NEW w \in {"opening", "waiting", "over"},
         attempt' = [attempt EXCEPT ![n].at = w]
  PROVE  /\ attempt' \in [Attempts -> Try]
         /\ attempt'[n].at = w /\ attempt'[n].heard = attempt[n].heard
         /\ \A k \in Attempts \ {n} : attempt'[k] = attempt[k]
<1>1. attempt[n] \in Try
  BY DEF RemoteShape
<1> DEFINE next == [attempt[n] EXCEPT !.at = w]
<1>2. next \in Try /\ next.at = w /\ next.heard = attempt[n].heard
  BY <1>1 DEF Try
<1>3. attempt' = [attempt EXCEPT ![n] = next]
  OBVIOUS
<1> HIDE DEF next
<1> QED
  BY <1>2, <1>3 DEF RemoteShape

LEMMA RemoteStepKeeps == RemoteInv /\ [RemoteNext]_remoteVars => RemoteInv'
<1> SUFFICES ASSUME RemoteInv, [RemoteNext]_remoteVars PROVE RemoteInv'
  OBVIOUS
<1> USE RemoteConstants DEF RemoteConstants, RemoteInv
<1>1. CASE UNCHANGED remoteVars
  BY <1>1 DEF remoteVars, RemoteShape, Cached, Lasts
<1>2. ASSUME NEW s \in Senders, Send(s) PROVE RemoteInv'
  <2>1. PICK n \in Attempts : RemoteConnect(n)
    BY <1>2 DEF Send
  <2>2. UNCHANGED channel
    BY <1>2 DEF Send
  <2>3. CASE ready # NoAttempt
    BY <2>1, <2>2, <2>3 DEF RemoteConnect, RemoteShape, Cached, Lasts
  <2>4. CASE ready = NoAttempt
    <3> DEFINE first == [at |-> IF coded THEN "asking" ELSE "opening", heard |-> "nothing"]
    <3>1. /\ first \in Try /\ first.at = IF coded THEN "asking" ELSE "opening"
      BY DEF Try
    <3>2. /\ attempt' = [attempt EXCEPT ![n] = first] /\ meant' = (meant \/ ~coded) /\ ready' = n
      BY <2>1, <2>4 DEF RemoteConnect, Establish
    <3> HIDE DEF first
    <3> QED
      BY <2>2, <3>1, <3>2 DEF RemoteShape, Cached, Lasts
  <2> QED
    BY <2>3, <2>4
<1>3. ASSUME NEW s \in Senders, Admin(s) \/ AdminResult(s) \/ AdminTimesOut(s) PROVE RemoteInv'
  BY <1>3 DEF Admin, AdminResult, AdminTimesOut, RemoteShape, Cached, Lasts
<1>4. ASSUME NEW n \in Attempts, PairedAnswered(n) PROVE RemoteInv'
  <2>1. /\ attempt[n].at = "asking" /\ attempt' = [attempt EXCEPT ![n].at = "opening"]
        /\ meant' = TRUE /\ UNCHANGED <<ready, channel>>
    BY <1>4 DEF PairedAnswered
  <2> QED
    BY <2>1, GoingOn DEF RemoteShape, Cached, Lasts
<1>5. ASSUME NEW n \in Attempts, Fails(n), UNCHANGED <<meant, channel>> PROVE RemoteInv'
  BY <1>5 DEF Fails, Uncached, RemoteShape, Try, Cached
<1>6. ASSUME NEW n \in Attempts, StorageFails(n) PROVE RemoteInv'
  BY <1>5, <1>6 DEF StorageFails
<1>7. ASSUME NEW n \in Attempts, Opened(n) PROVE RemoteInv'
  <2>1. /\ attempt[n].at = "opening" /\ attempt' = [attempt EXCEPT ![n].at = "waiting"]
        /\ channel' = "opening" /\ UNCHANGED <<ready, meant>>
    BY <1>7 DEF Opened
  <2> QED
    BY <2>1, GoingOn DEF RemoteShape, Cached, Lasts
<1>8. ASSUME NEW n \in Attempts, Settled(n) PROVE RemoteInv'
  <2>1. CASE attempt[n].heard = "failure"
    BY <1>5, <1>8, <2>1 DEF Settled
  <2>2. CASE attempt[n].heard # "failure"
    <3>1. /\ attempt[n].at = "waiting" /\ attempt[n].heard = "ready"
          /\ attempt' = [attempt EXCEPT ![n].at = "over"] /\ UNCHANGED <<ready, meant, channel>>
      BY <1>8, <2>2 DEF Settled, RemoteShape, Try
    <3> QED
      BY <3>1, GoingOn DEF RemoteShape, Cached, Lasts
  <2> QED
    BY <2>1, <2>2
<1>9. ASSUME NEW n \in Attempts, ConnectTimesOut(n) PROVE RemoteInv'
  <2>1. attempt[n] \in Try
    BY DEF RemoteShape
  <2> DEFINE next == [attempt[n] EXCEPT !.heard = "failure"]
  <2>2. next \in Try /\ next.at = attempt[n].at
    BY <2>1 DEF Try
  <2>3. attempt' = [attempt EXCEPT ![n] = next] /\ UNCHANGED <<ready, meant, channel>>
    BY <1>9 DEF ConnectTimesOut
  <2>4. attempt[n].at # "over"
    BY <1>9 DEF ConnectTimesOut, InFlight
  <2> HIDE DEF next
  <2> QED
    BY <2>2, <2>3, <2>4 DEF RemoteShape, Cached, Lasts
<1>10. CASE RemoteDisconnect
  BY <1>10 DEF RemoteDisconnect, RemoteShape, Cached
<1>11. ASSUME NEW what \in {"ready", "failure"}, Hear(what), UNCHANGED <<ready, meant>>,
              channel' \in {channel, "up", "refused"}
       PROVE  RemoteInv'
  <2>1. \A n \in Attempts : attempt[n].at = "over" => n \notin InFlight
    BY DEF InFlight
  <2> QED
    BY <1>11, <2>1, Hearing DEF RemoteShape, Cached, Lasts
<1>12. CASE ClientReady \/ ClientError \/ ClientRefused
  BY <1>11, <1>12 DEF ClientReady, ClientError, ClientRefused
<1>13. CASE ClientRevoked \/ SocketLost \/ Reopened
  BY <1>13 DEF ClientRevoked, SocketLost, Reopened, RemoteShape, Cached, Lasts
<1> QED
  BY <1>1, <1>2, <1>3, <1>4, <1>6, <1>7, <1>8, <1>9, <1>10, <1>12, <1>13 DEF RemoteNext

\* connect() never hands out a promise that is worth nothing: an attempt that failed is not cached,
\* and one that succeeded has a client that is up or on its way back (connect, establish and
\* disconnect of remote.ts).
THEOREM NoUselessConnect == RemoteSpec => []ConnectIsUsable
<1>1. RemoteInv => ConnectIsUsable
  <2> SUFFICES ASSUME RemoteInv, ready \notin InFlight \cup {NoAttempt}
               PROVE  attempt[ready].heard = "ready" /\ meant /\ Lasts
    BY DEF ConnectIsUsable, Lasts
  <2>1. ready \in Attempts /\ attempt[ready] \in Try
    BY DEF RemoteInv, RemoteShape
  <2>2. attempt[ready].at = "over"
    BY <2>1 DEF InFlight, Try
  <2> QED
    BY <2>2 DEF RemoteInv, Cached
<1> QED
  BY <1>1, RemoteStarts, RemoteStepKeeps, PTL DEF RemoteSpec

----------------------------------------------------------------------------
(* The directory, for any hubs and logs: hubs that overlap have said so, and *)
(* a restore that was not forced is whole or was not made.                   *)

Lives == {"off", "claiming", "built", "reclaiming", "up", "stopped"}
ClaimShape ==
  /\ life \in [Hubs -> Lives] /\ owner \in Hubs \cup {NoHub}
  /\ found \in [Hubs -> BOOLEAN] /\ shared \in [Hubs -> BOOLEAN]

\* The claim names a hub that is there; only who is claiming has found anything, and only who
\* has claimed has anything to say about it.
ClaimIsLive ==
  /\ owner # NoHub => owner \in Claimants
  /\ \A h \in Hubs : /\ found[h] => life[h] \in {"claiming", "reclaiming"}
                     /\ shared[h] => life[h] \notin {"off", "claiming"}
\* Of two hubs with claims one knows of the other, or neither could.
Knows(h) == shared[h] \/ found[h]
Aware == \A a, b \in Claimants : a # b => Knows(a) \/ Knows(b) \/ {a, b} \in blind
ClaimInv == ClaimShape /\ ClaimIsLive /\ Aware

LEMMA ClaimsStart == DataDirInit => ClaimInv
BY DEF DataDirInit, ClaimInv, ClaimShape, ClaimIsLive, Aware, Claimants, Lives

\* Who reads the claim knows of its owner, or of nobody, and then could not.
LEMMA Reading ==
  ASSUME ClaimInv, NEW h \in Hubs, h \in Claimants \/ owner # h, ReadsClaim(h),
         NEW to \in {"claiming", "reclaiming"}, life' = [life EXCEPT ![h] = to],
         life[h] \notin {"claiming", "reclaiming"}, owner' = owner, shared' = shared,
         to = "claiming" => shared[h] = FALSE
  PROVE  ClaimInv'
<1> USE DataDirConstants DEF DataDirConstants
<1>1. /\ found' = [found EXCEPT ![h] = HubHolding /\ owner # h]
      /\ blind' = IF HubHolding THEN blind ELSE blind \cup {{h, g} : g \in Claimants \ {h}}
  BY DEF ReadsClaim
<1>2. ClaimShape'
  BY <1>1 DEF ClaimInv, ClaimShape, Lives
<1>3. Claimants' = Claimants \cup {h}
  BY DEF ClaimInv, ClaimShape, Claimants
<1>4. /\ \A g \in Hubs \ {h} : found'[g] = found[g] /\ life'[g] = life[g]
      /\ life'[h] = to /\ found[h] = FALSE
  BY <1>1 DEF ClaimInv, ClaimShape, ClaimIsLive
<1>5. ClaimIsLive'
  BY <1>3, <1>4 DEF ClaimInv, ClaimIsLive, ClaimShape
<1>6. \A g \in Claimants \ {h} : Knows(h)' \/ {g, h} \in blind' \/ (h \in Claimants /\ Knows(g))
  <2> TAKE g \in Claimants \ {h}
  <2>1. CASE ~HubHolding
    BY <2>1, <1>1
  <2>2. CASE HubHolding /\ owner # h
    BY <2>2, <1>1 DEF Knows, ClaimInv, ClaimShape
  <2>3. CASE HubHolding /\ owner = h
    <3>1. h \in Claimants /\ blind' = blind /\ g \in Claimants /\ g # h /\ {g, h} = {h, g}
      BY <2>3, <1>1
    <3>2. Knows(h) \/ Knows(g) \/ {h, g} \in blind
      BY <3>1 DEF ClaimInv, Aware
    <3>3. Knows(h) => Knows(h)'
      BY <1>4 DEF Knows
    <3>4. QED
      BY <3>1, <3>2, <3>3
  <2>4. QED
    BY <2>1, <2>2, <2>3
<1>7. Aware'
  <2> SUFFICES ASSUME NEW a \in Claimants', NEW b \in Claimants', a # b
               PROVE  Knows(a)' \/ Knows(b)' \/ {a, b} \in blind'
    BY DEF Aware
  <2>1. \A g \in Claimants \ {h} : Knows(g)' = Knows(g)
    BY <1>4 DEF Knows, Claimants
  <2>2. CASE a # h /\ b # h
    <3>1. a \in Claimants \ {h} /\ b \in Claimants \ {h}
      BY <2>2, <1>3
    <3>2. Knows(a) \/ Knows(b) \/ {a, b} \in blind
      BY <3>1 DEF ClaimInv, Aware
    <3>3. blind \subseteq blind'
      BY <1>1
    <3>4. QED
      BY <3>1, <3>2, <3>3, <2>1
  <2>3. CASE a = h
    <3>1. b \in Claimants \ {h} /\ {a, b} = {b, h}
      BY <2>3, <1>3
    <3>2. QED
      BY <3>1, <2>3, <2>1, <1>6
  <2>4. CASE b = h
    <3>1. a \in Claimants \ {h}
      BY <2>4, <1>3
    <3>2. QED
      BY <3>1, <2>4, <2>1, <1>6
  <2>5. QED
    BY <2>2, <2>3, <2>4
<1>8. QED
  BY <1>2, <1>5, <1>7 DEF ClaimInv

\* Who has written its claim knows what it found.
LEMMA Claiming ==
  ASSUME ClaimInv, NEW h \in Hubs, WritesClaim(h), blind' = blind,
         NEW to \in {"built", "up"}, life' = [life EXCEPT ![h] = to],
         \/ life[h] = "claiming" /\ shared' = [shared EXCEPT ![h] = found[h]]
         \/ life[h] = "reclaiming" /\ shared' = [shared EXCEPT ![h] = SharedAfter(h)]
  PROVE  ClaimInv'
<1> USE DataDirConstants DEF DataDirConstants
<1>1. owner' = h /\ found' = [found EXCEPT ![h] = FALSE]
  BY DEF WritesClaim
<1>2. ClaimShape'
  <2>1. found[h] \in BOOLEAN /\ SharedAfter(h) \in BOOLEAN
    BY DEF SharedAfter, ClaimInv, ClaimShape
  <2>2. shared' \in [Hubs -> BOOLEAN]
    BY <2>1 DEF ClaimInv, ClaimShape
  <2>3. QED
    BY <1>1, <2>2 DEF ClaimInv, ClaimShape, Lives
<1>3. Claimants' = Claimants /\ h \in Claimants
  BY DEF ClaimInv, ClaimShape, Claimants
<1>4. \A g \in Hubs \ {h} : found'[g] = found[g] /\ life'[g] = life[g] /\ shared'[g] = shared[g]
  BY <1>1 DEF ClaimInv, ClaimShape
<1>5. found'[h] = FALSE /\ life'[h] = to /\ (Knows(h) => shared'[h])
  BY <1>1 DEF ClaimInv, ClaimShape, ClaimIsLive, Knows, SharedAfter
<1>6. ClaimIsLive'
  BY <1>1, <1>3, <1>4, <1>5 DEF ClaimInv, ClaimIsLive
<1>7. \A g \in Claimants : Knows(g) => Knows(g)'
  BY <1>4, <1>5 DEF Knows, Claimants
<1>8. Aware'
  BY <1>3, <1>7 DEF ClaimInv, Aware
<1>9. QED
  BY <1>2, <1>6, <1>8 DEF ClaimInv

\* Who leaves takes back only a claim of its own.
LEMMA Leaving ==
  ASSUME ClaimInv, NEW h \in Hubs, GivesBack(h), NEW to \in {"off", "stopped"},
         life' = [life EXCEPT ![h] = to],
         \/ /\ to = "stopped" /\ life[h] = "up" /\ found' = found /\ shared' = shared /\ blind' = blind
         \/ /\ to = "off" /\ found' = [found EXCEPT ![h] = FALSE]
            /\ shared' = [shared EXCEPT ![h] = FALSE] /\ blind' = Without(h, blind)
  PROVE  ClaimInv'
<1> USE DataDirConstants DEF DataDirConstants
<1>1. owner' = IF owner = h THEN NoHub ELSE owner
  BY DEF GivesBack
<1>2. ClaimShape'
  BY <1>1 DEF ClaimInv, ClaimShape, Lives
<1>3. Claimants' = Claimants \ {h}
  BY DEF ClaimInv, ClaimShape, Claimants
<1>4. \A g \in Hubs \ {h} : found'[g] = found[g] /\ life'[g] = life[g] /\ shared'[g] = shared[g]
  BY DEF ClaimInv, ClaimShape
<1>5. life'[h] = to /\ found'[h] = FALSE /\ (to = "off" => shared'[h] = FALSE)
  BY DEF ClaimInv, ClaimShape, ClaimIsLive
<1>6. ClaimIsLive'
  BY <1>1, <1>3, <1>4, <1>5 DEF ClaimInv, ClaimIsLive
<1>7. Aware'
  <2> SUFFICES ASSUME NEW a \in Claimants', NEW b \in Claimants', a # b
               PROVE  Knows(a)' \/ Knows(b)' \/ {a, b} \in blind'
    BY DEF Aware
  <2>1. a \in Claimants \ {h} /\ b \in Claimants \ {h}
    BY <1>3
  <2>2. Knows(a) \/ Knows(b) \/ {a, b} \in blind
    BY <2>1 DEF ClaimInv, Aware
  <2>3. Knows(a)' = Knows(a) /\ Knows(b)' = Knows(b)
    BY <2>1, <1>4 DEF Knows, Claimants
  <2>4. {a, b} \in blind => {a, b} \in blind'
    BY <2>1 DEF Without
  <2>5. QED
    BY <2>2, <2>3, <2>4
<1>8. QED
  BY <1>2, <1>6, <1>7 DEF ClaimInv

LEMMA ClaimSteps == ClaimInv /\ [DataDirNext]_dataDirVars => ClaimInv'
<1> SUFFICES ASSUME ClaimInv, [DataDirNext]_dataDirVars PROVE ClaimInv'
  OBVIOUS
<1>1. CASE UNCHANGED claimVars
  BY <1>1 DEF claimVars, ClaimInv, ClaimShape, ClaimIsLive, Aware, Claimants, Knows
<1>2. ASSUME NEW h \in Hubs, Construct(h) PROVE ClaimInv'
  <2>1. owner # h
    BY <1>2, DataDirConstants DEF DataDirConstants, Construct, ClaimInv, ClaimIsLive, Claimants
  <2>2. shared[h] = FALSE
    BY <1>2 DEF Construct, ClaimInv, ClaimIsLive, ClaimShape
  <2>3. QED
    BY <1>2, <2>1, <2>2, Reading DEF Construct
<1>3. ASSUME NEW h \in Hubs, Begin(h) PROVE ClaimInv'
  <2>1. h \in Claimants \/ owner # h
    BY <1>3, DataDirConstants DEF DataDirConstants, Begin, ClaimInv, ClaimIsLive, Claimants
  <2>2. QED
    BY <1>3, <2>1, Reading DEF Begin
<1>4. ASSUME NEW h \in Hubs, Built(h) PROVE ClaimInv'
  BY <1>4, Claiming DEF Built
<1>5. ASSUME NEW h \in Hubs, Begun(h) PROVE ClaimInv'
  BY <1>5, Claiming DEF Begun
<1>6. ASSUME NEW h \in Hubs, Stop(h) PROVE ClaimInv'
  BY <1>6, Leaving DEF Stop
<1>7. ASSUME NEW h \in Hubs, Die(h) PROVE ClaimInv'
  BY <1>7, Leaving DEF Die
<1>8. QED
  BY <1>1, <1>2, <1>3, <1>4, <1>5, <1>6, <1>7 DEF DataDirNext, dataDirVars, claimVars, Flushes, Drains,
     Export, Import, ImportChecks, ImportsStore, ImportsLog, ImportDone, ImportFails, LoseDirectory

\* Hubs that run on one directory: one of them said so, or their claims crossed
\* (store.ts: claimDirectory, reopen, releaseDirectory).
THEOREM OverlapsAreSaid == DataDirSpec => []OverlapIsSaid
<1>1. ClaimInv => OverlapIsSaid
  <2> SUFFICES ASSUME ClaimInv, NEW a \in Hubs, NEW b \in Hubs, life[a] = "up", life[b] = "up", a # b
               PROVE  shared[a] \/ shared[b] \/ {a, b} \in blind
    BY DEF OverlapIsSaid
  <2>1. a \in Claimants /\ b \in Claimants /\ ~found[a] /\ ~found[b]
    BY DEF ClaimInv, ClaimIsLive, Claimants
  <2>2. QED
    BY <2>1 DEF ClaimInv, Aware, Knows
<1>2. QED
  BY <1>1, ClaimsStart, ClaimSteps, PTL DEF DataDirSpec

-----------------------------------------------------------------------------
(* Restoring *)

Stages == {"idle", "checking", "store", "logs", "done", "refused"}
ImportShape ==
  /\ life \in [Hubs -> Lives] /\ document \in [Hubs -> Hubs \cup {NoHub}]
  /\ \A h \in Hubs : life[h] \notin {"off", "claiming"} => document[h] # NoHub
  /\ storeFile \in Hubs \cup {NoHub} /\ backup.id \in Hubs \cup {NoHub}
  /\ restore \in [at : Stages, force : BOOLEAN] /\ raced \in BOOLEAN /\ unknown \in BOOLEAN

\* No log still to be written is there, unless one appeared since an import looked; before it
\* writes, it has written nothing.
Clear ==
  /\ restore.at \in {"checking", "store"} => wrote = {}
  /\ restore.at = "store" /\ ~restore.force /\ ~raced => backup.logs \cap logFiles = {}
  /\ restore.at = "logs" /\ ~restore.force /\ ~raced => (backup.logs \ wrote) \cap logFiles = {}
  /\ restore.at = "refused" /\ ~raced => wrote = {}
\* No hub has the document while an import looks, and afterwards those that have it have the
\* identity of the backup.
Known == ~restore.force /\ ~unknown
Sole ==
  /\ restore.at \in {"checking", "store", "logs", "done"} => backup.id # NoHub
  /\ restore.at \in {"checking", "store"} /\ Known => Holding = {}
  /\ restore.at \in {"logs", "done"} /\ Known =>
       storeFile = backup.id /\ \A h \in Holding : document[h] = backup.id
ImportInv == ImportShape /\ trampled = FALSE /\ Clear /\ Sole

LEMMA ImportsStart == DataDirInit => ImportInv
<1> SUFFICES ASSUME DataDirInit PROVE ImportInv
  OBVIOUS
<1>1. restore.at = "idle" /\ restore \in [at : Stages, force : BOOLEAN]
  BY DEF DataDirInit, Stages
<1>2. ImportShape
  BY <1>1 DEF DataDirInit, ImportShape, Lives, NothingAtHand
<1>3. Clear /\ Sole
  BY <1>1 DEF Clear, Sole
<1>4. QED
  BY <1>2, <1>3 DEF DataDirInit, ImportInv

\* A hub that lives or writes: it creates files behind the import, and has the identity it loads.
LEMMA HubsKeepImport ==
  ASSUME ImportInv, NEW h \in Hubs,
         \/ Construct(h) \/ Built(h) \/ Begin(h) \/ Begun(h) \/ Stop(h) \/ Die(h) \/ Flushes(h)
         \/ \E l \in Logs : Drains(h, l)
  PROVE  ImportInv'
<1> USE DataDirConstants DEF DataDirConstants
<1>1. /\ restore' = restore /\ backup' = backup /\ wrote' = wrote /\ trampled' = trampled
      /\ raced' \in BOOLEAN /\ (raced => raced')
  BY DEF Construct, Built, Begin, Begun, Stop, Die, Flushes, Drains, importVars, ImportInv, ImportShape
<1>2. logFiles' = logFiles \/ (\E l \in Logs : logFiles' = logFiles \cup {l}
                                 /\ raced' = (raced \/ (Writing /\ l \notin logFiles)))
  BY DEF Construct, Built, Begin, Begun, Stop, Die, Flushes, Drains
<1>3. Clear'
  BY <1>1, <1>2 DEF ImportInv, Clear, Writing
<1>4. /\ life' \in [Hubs -> Lives]
      /\ \A g \in Hubs \ {h} : life'[g] = life[g]
  BY DEF Construct, Built, Begin, Begun, Stop, Die, Flushes, Drains, claimVars, ImportInv, ImportShape, Lives
<1>5. CASE Built(h)
  <2>1. /\ life[h] = "claiming" /\ life'[h] = "built" /\ storeFile' = storeFile
        /\ document' = [document EXCEPT ![h] = IF storeFile = NoHub THEN h ELSE storeFile]
        /\ unknown' = (unknown \/ restore.at \in {"checking", "store"})
    BY <1>5 DEF Built, ImportInv, ImportShape
  <2>2. ImportShape'
    BY <1>1, <1>4, <2>1 DEF ImportInv, ImportShape
  <2>3. \A g \in Hubs : document'[g] = document[g] \/ document'[g] = storeFile \/ storeFile = NoHub
    BY <2>1 DEF ImportInv, ImportShape
  <2>4. Sole'
    BY <1>1, <2>1, <2>3 DEF ImportInv, Sole, Known, Holding
  <2>5. QED
    BY <1>1, <1>3, <2>2, <2>4 DEF ImportInv
<1>6. CASE ~Built(h)
  <2>1. /\ unknown' = unknown
        /\ document' = document \/ (life'[h] = "off" /\ document' = [document EXCEPT ![h] = NoHub])
    BY <1>6 DEF Construct, Begin, Begun, Stop, Die, Flushes, Drains, importVars, ImportInv, ImportShape
  <2>2. storeFile' = storeFile \/ (storeFile' = document[h] /\ document[h] # NoHub)
    BY <1>6 DEF Construct, Begin, Begun, Stop, Die, Flushes, Drains, ImportInv, ImportShape
  <2>3. ImportShape'
    <3>1. \A g \in Hubs : life'[g] \notin {"off", "claiming"} => document'[g] # NoHub
      <4>1. \A g \in Hubs \ {h} : document'[g] = document[g]
        BY <2>1 DEF ImportInv, ImportShape
      <4>2. life'[h] \notin {"off", "claiming"} => document'[h] = document[h] /\ life[h] \notin {"off", "claiming"}
        BY <1>6, <2>1 DEF Construct, Begin, Begun, Stop, Die, Flushes, Drains, claimVars, ImportInv, ImportShape
      <4>3. QED
        BY <1>4, <4>1, <4>2 DEF ImportInv, ImportShape
    <3>2. QED
      BY <1>1, <1>4, <2>1, <2>2, <3>1 DEF ImportInv, ImportShape
  <2>4. Holding' \subseteq Holding /\ \A g \in Holding' : document'[g] = document[g]
    BY <2>1 DEF Holding, ImportInv, ImportShape
  <2>5. Sole'
    BY <1>1, <2>1, <2>2, <2>4 DEF ImportInv, Sole, Known, Holding
  <2>6. QED
    BY <1>1, <1>3, <2>3, <2>5 DEF ImportInv
<1>7. QED
  BY <1>5, <1>6

\* The steps of the commands, none of which touches a hub.
LEMMA CommandsKeepImport ==
  ASSUME ImportInv,
         \/ \E b \in BOOLEAN : Export(b) \/ Import(b)
         \/ ImportChecks \/ ImportsStore \/ (\E l \in Logs : ImportsLog(l)) \/ ImportDone \/ ImportFails
         \/ LoseDirectory
  PROVE  ImportInv'
<1> USE DataDirConstants DEF DataDirConstants
<1>1. life' = life /\ document' = document /\ Holding' = Holding
  BY DEF Export, Import, ImportChecks, ImportsStore, ImportsLog, ImportDone, ImportFails, LoseDirectory,
         claimVars, Holding
<1>2. restore.at \in Stages /\ restore.force \in BOOLEAN /\ raced \in BOOLEAN /\ unknown \in BOOLEAN
  BY DEF ImportInv, ImportShape
<1>3. \A at \in Stages : \A r : r = [restore EXCEPT !.at = at] =>
        r \in [at : Stages, force : BOOLEAN] /\ r.at = at /\ r.force = restore.force
  BY DEF ImportInv, ImportShape
<1>4. ASSUME NEW b \in BOOLEAN, Export(b) PROVE ImportInv'
  <2>1. /\ storeFile # NoHub /\ ~InProgress /\ backup'.id = storeFile /\ restore' = restore
        /\ storeFile' = storeFile /\ wrote' = wrote /\ raced' = raced /\ unknown' = unknown
        /\ trampled' = trampled
    BY <1>4 DEF Export
  <2>2. ImportShape' /\ Clear'
    BY <1>1, <2>1 DEF ImportInv, ImportShape, Clear, InProgress
  <2>3. Sole'
    BY <1>1, <2>1 DEF ImportInv, Sole, Known, InProgress
  <2>4. QED
    BY <2>1, <2>2, <2>3 DEF ImportInv
<1>5. ASSUME NEW b \in BOOLEAN, Import(b) PROVE ImportInv'
  <2> DEFINE to == IF RefusesRunning(b) THEN "refused" ELSE "checking"
  <2>1. /\ backup.id # NoHub /\ restore' = [at |-> to, force |-> b] /\ wrote' = {} /\ raced' = FALSE
        /\ unknown' = (Holding \ {owner} # {}) /\ backup' = backup /\ storeFile' = storeFile
        /\ trampled' = trampled
    BY <1>5 DEF Import
  <2>2. to \in {"refused", "checking"} /\ (to = "checking" => ~HubHolding \/ b)
    BY DEF RefusesRunning
  <2> HIDE DEF to
  <2>3. restore' \in [at : Stages, force : BOOLEAN] /\ restore'.at = to /\ restore'.force = b
    BY <2>1, <2>2 DEF Stages
  <2>4. ImportShape' /\ Clear'
    BY <1>1, <2>1, <2>2, <2>3 DEF ImportInv, ImportShape, Clear
  <2>5. to = "checking" /\ ~b /\ unknown' = FALSE => Holding = {}
    BY <2>1, <2>2 DEF HubHolding, Holding
  <2>6. Sole'
    BY <1>1, <2>1, <2>2, <2>3, <2>5 DEF ImportInv, Sole, Known
  <2>7. QED
    BY <2>1, <2>4, <2>6 DEF ImportInv
<1>6. ASSUME ImportChecks PROVE ImportInv'
  <2> DEFINE to == IF InTheWay /\ ~restore.force THEN "refused" ELSE "store"
  <2>1. /\ restore.at = "checking" /\ restore' = [restore EXCEPT !.at = to]
        /\ storeFile' = storeFile /\ logFiles' = logFiles /\ backup' = backup /\ wrote' = wrote
        /\ raced' = raced /\ unknown' = unknown /\ trampled' = trampled
    BY <1>6 DEF ImportChecks, Moves
  <2>2. to \in {"refused", "store"} /\ (to = "store" => ~InTheWay \/ restore.force)
    OBVIOUS
  <2> HIDE DEF to
  <2>3. restore' \in [at : Stages, force : BOOLEAN] /\ restore'.at = to /\ restore'.force = restore.force
    BY <2>1, <2>2, <1>3 DEF Stages
  <2>4. ImportShape' /\ Clear'
    BY <1>1, <2>1, <2>2, <2>3 DEF ImportInv, ImportShape, Clear, InTheWay
  <2>5. Sole'
    BY <1>1, <2>1, <2>2, <2>3 DEF ImportInv, Sole, Known
  <2>6. QED
    BY <2>1, <2>4, <2>5 DEF ImportInv
<1>7. ASSUME ImportsStore PROVE ImportInv'
  <2>1. /\ restore.at = "store" /\ logFiles' = logFiles /\ backup' = backup /\ raced' = raced
        /\ unknown' = unknown
    BY <1>7 DEF ImportsStore
  <2>2. CASE /\ MayWrite(storeFile # NoHub) /\ Moves("logs") /\ storeFile' = backup.id /\ wrote' = {"store"}
             /\ trampled' = (trampled \/ (~restore.force /\ storeFile # NoHub))
    <3>1. /\ restore' \in [at : Stages, force : BOOLEAN] /\ restore'.at = "logs"
          /\ restore'.force = restore.force
      BY <2>2, <1>3 DEF Stages, Moves
    <3>2. trampled' = FALSE
      BY <2>2 DEF MayWrite, ImportInv
    <3>3. ImportShape' /\ Clear'
      BY <1>1, <2>1, <2>2, <3>1 DEF ImportInv, ImportShape, Clear
    <3>4. Sole'
      BY <1>1, <2>1, <2>2, <3>1 DEF ImportInv, Sole, Known
    <3>5. QED
      BY <3>2, <3>3, <3>4 DEF ImportInv
  <2>3. CASE Moves("refused") /\ storeFile' = storeFile /\ wrote' = wrote /\ trampled' = trampled
    <3>1. /\ restore' \in [at : Stages, force : BOOLEAN] /\ restore'.at = "refused"
          /\ restore'.force = restore.force
      BY <2>3, <1>3 DEF Stages, Moves
    <3>2. ImportShape' /\ Clear' /\ Sole'
      BY <1>1, <2>1, <2>3, <3>1 DEF ImportInv, ImportShape, Clear, Sole
    <3>3. QED
      BY <2>3, <3>2 DEF ImportInv
  <2>4. QED
    BY <1>7, <2>2, <2>3 DEF ImportsStore
<1>8. ASSUME NEW l \in Logs, ImportsLog(l) PROVE ImportInv'
  <2>1. /\ restore.at = "logs" /\ l \in backup.logs \ wrote /\ storeFile' = storeFile /\ backup' = backup
        /\ raced' = raced /\ unknown' = unknown
    BY <1>8 DEF ImportsLog
  <2>2. CASE /\ MayWrite(l \in logFiles) /\ restore' = restore
             /\ logFiles' = logFiles \cup {l} /\ wrote' = wrote \cup {l}
             /\ trampled' = (trampled \/ (~restore.force /\ l \in logFiles))
    <3>1. trampled' = FALSE
      BY <2>2 DEF MayWrite, ImportInv
    <3>2. ImportShape' /\ Clear' /\ Sole'
      BY <1>1, <2>1, <2>2 DEF ImportInv, ImportShape, Clear, Sole, Known
    <3>3. QED
      BY <3>1, <3>2 DEF ImportInv
  <2>3. CASE /\ ~MayWrite(l \in logFiles) /\ Moves("refused")
             /\ logFiles' = logFiles /\ wrote' = wrote /\ trampled' = trampled
    <3>1. /\ restore' \in [at : Stages, force : BOOLEAN] /\ restore'.at = "refused"
          /\ restore'.force = restore.force
      BY <2>3, <1>3 DEF Stages, Moves
    <3>2. raced
      BY <2>1, <2>3 DEF MayWrite, ImportInv, Clear
    <3>3. ImportShape' /\ Clear' /\ Sole'
      BY <1>1, <2>1, <2>3, <3>1, <3>2 DEF ImportInv, ImportShape, Clear, Sole
    <3>4. QED
      BY <2>3, <3>3 DEF ImportInv
  <2>4. QED
    BY <1>8, <2>2, <2>3 DEF ImportsLog
<1>9. ASSUME ImportDone PROVE ImportInv'
  <2>1. /\ restore.at = "logs" /\ Moves("done") /\ raced' = FALSE /\ storeFile' = storeFile
        /\ backup' = backup /\ unknown' = unknown /\ trampled' = trampled
    BY <1>9 DEF ImportDone
  <2>2. /\ restore' \in [at : Stages, force : BOOLEAN] /\ restore'.at = "done"
        /\ restore'.force = restore.force
    BY <2>1, <1>3 DEF Stages, Moves
  <2>3. ImportShape' /\ Clear' /\ Sole'
    BY <1>1, <2>1, <2>2 DEF ImportInv, ImportShape, Clear, Sole, Known
  <2>4. QED
    BY <2>1, <2>3 DEF ImportInv
<1>10. ASSUME ImportFails \/ LoseDirectory PROVE ImportInv'
  <2>1. /\ restore' = [at |-> "idle", force |-> FALSE] /\ raced' = FALSE /\ unknown' = FALSE
        /\ storeFile' \in {storeFile, NoHub} /\ backup' = backup /\ trampled' = trampled
    BY <1>10 DEF ImportFails, LoseDirectory, NoImport
  <2>2. restore' \in [at : Stages, force : BOOLEAN] /\ restore'.at = "idle"
    BY <2>1 DEF Stages
  <2>3. ImportShape' /\ Clear' /\ Sole'
    BY <1>1, <2>1, <2>2 DEF ImportInv, ImportShape, Clear, Sole
  <2>4. QED
    BY <2>1, <2>3 DEF ImportInv
<1>11. QED
  BY <1>4, <1>5, <1>6, <1>7, <1>8, <1>9, <1>10

LEMMA ImportSteps == ImportInv /\ [DataDirNext]_dataDirVars => ImportInv'
<1>1. ASSUME ImportInv, UNCHANGED dataDirVars PROVE ImportInv'
  BY <1>1 DEF dataDirVars, claimVars, importVars, ImportInv, ImportShape, Clear, Sole, Known, Holding
<1>2. ASSUME ImportInv, DataDirNext PROVE ImportInv'
  <2>1. CASE \E h \in Hubs : \/ Construct(h) \/ Built(h) \/ Begin(h) \/ Begun(h) \/ Stop(h) \/ Die(h)
                             \/ Flushes(h) \/ \E l \in Logs : Drains(h, l)
    BY <1>2, <2>1, HubsKeepImport
  <2>2. CASE \/ \E b \in BOOLEAN : Export(b) \/ Import(b)
             \/ ImportChecks \/ ImportsStore \/ (\E l \in Logs : ImportsLog(l)) \/ ImportDone
             \/ ImportFails \/ LoseDirectory
    BY <1>2, <2>2, CommandsKeepImport
  <2>3. QED
    BY <1>2, <2>1, <2>2 DEF DataDirNext
<1>3. QED
  BY <1>1, <1>2

\* A restore that was not forced replaces nothing, writes nothing when it refuses, and lasts
\* (backup.ts: importStore; bin.ts: the import command).
THEOREM RestoresAreWhole == DataDirSpec => []RestoreIsWhole
<1>1. ImportInv => RestoreIsWhole
  BY DEF ImportInv, ImportShape, Clear, Sole, Known, RestoreIsWhole
<1>2. QED
  BY <1>1, ImportsStart, ImportSteps, PTL DEF DataDirSpec
============================================================================
