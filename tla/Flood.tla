------------------------------- MODULE Flood -------------------------------
(* Flood control (core/src/flood.ts) between notify() and the feed: past a   *)
(* burst, repeats of a key are held back and one summary stands for them     *)
(* when the window closes.  A key doubles as the resolveKey of its alerts.   *)
(* Operators named X_Fault are faults of X the properties must reveal.       *)
EXTENDS Integers, FiniteSets

CONSTANTS
  Keys,            \* what makes two alerts the same
  Exempt,          \* keys of a severity in flood.alwaysDeliver
  Burst,
  WindowLen,       \* flood.windowMs, in ticks
  MaxWindows,
  MaxOccurrences   \* bound on the alerts of a key

ASSUME FloodConstants ==
  /\ Exempt \subseteq Keys /\ IsFiniteSet(Keys)
  /\ {WindowLen, MaxWindows, MaxOccurrences} \subseteq Nat \ {0} /\ Burst \in Nat

VARIABLES
  window,   \* per key: the open window, or NoWindow
  tally     \* per key: alerts published, delivered one by one, told of in a summary; and, of
            \* those on screens, how many a resolve() of the key will find, and will not
floodVars == <<window, tally>>

NoWindow == [open |-> FALSE, count |-> 0, held |-> 0, age |-> 0]
NoTally == [published |-> 0, sent |-> 0, summed |-> 0, open |-> 0, unkeyed |-> 0]
FloodInit == window = [k \in Keys |-> NoWindow] /\ tally = [k \in Keys |-> NoTally]

-----------------------------------------------------------------------------
OpenWindows == {k \in Keys : window[k].open}
Room == Cardinality(OpenWindows) < MaxWindows

\* shouldCoalesce: whether this occurrence is held back, and the window after it
HeldBack(k) == k \notin Exempt /\ window[k].open /\ window[k].count + 1 > Burst
Counted(k) ==
  IF k \in Exempt THEN window[k]
  ELSE IF ~window[k].open
    THEN IF Room THEN [open |-> TRUE, count |-> 1, held |-> 0, age |-> 0] ELSE NoWindow
  ELSE [window[k] EXCEPT !.count = @ + 1, !.held = IF HeldBack(k) THEN @ + 1 ELSE @]

\* notify(): what is held back is not in the history yet
Published(k) ==
  IF HeldBack(k) THEN [tally[k] EXCEPT !.published = @ + 1]
  ELSE [tally[k] EXCEPT !.published = @ + 1, !.sent = @ + 1, !.open = @ + 1]
MayPublish(k) == tally[k].published < MaxOccurrences
Notify(k) ==
  /\ MayPublish(k)
  /\ window' = [window EXCEPT ![k] = Counted(k)]
  /\ tally' = [tally EXCEPT ![k] = Published(k)]

\* close() and releaseSummary(): the summary is an alert of its own, which carries the
\* sample's targeting, actions and requireAck, but not its resolveKey.
Summarised(k) ==
  IF window[k].held = 0 THEN tally[k]
  ELSE [tally[k] EXCEPT !.summed = @ + window[k].held, !.unkeyed = @ + 1]
CloseWindow(k) ==
  /\ window[k].open /\ window[k].age >= WindowLen
  /\ window' = [window EXCEPT ![k] = NoWindow]
  /\ tally' = [tally EXCEPT ![k] = Summarised(k)]

\* flushAll() and stop(), when the hub stops
FlushAll_Discards == window' = [k \in Keys |-> NoWindow] /\ UNCHANGED tally
FlushAll ==
  /\ window' = [k \in Keys |-> NoWindow]
  /\ tally' = [k \in Keys |-> Summarised(k)]

\* resolve({key}), by the application
Cleared(k) == [tally[k] EXCEPT !.open = 0]
Resolve(k) ==
  /\ tally[k].open > 0
  /\ tally' = [tally EXCEPT ![k] = Cleared(k)]
  /\ UNCHANGED window

Aged == [k \in Keys |-> IF window[k].open THEN [window[k] EXCEPT !.age = @ + 1] ELSE window[k]]
WindowsDue == \E k \in OpenWindows : window[k].age >= WindowLen

-----------------------------------------------------------------------------
FloodTypeOK ==
  /\ window \in [Keys -> [open : BOOLEAN, count : Nat, held : Nat, age : 0..WindowLen]]
  /\ tally \in [Keys -> [published : 0..MaxOccurrences, sent : Nat, summed : Nat,
                         open : Nat, unkeyed : Nat]]

\* Nothing is discarded (flood.ts:31): every alert went out, or is told of by a summary that
\* went out, or is counted by a window still to close, and in one of them only; nor do
\* windows, each with a timer, exceed their ceiling.
EveryAlertCounts ==
  /\ \A k \in Keys :
       tally[k].published = tally[k].sent + tally[k].summed + window[k].held
  /\ Cardinality(OpenWindows) <= MaxWindows
=============================================================================
