----------------------- MODULE CallOrchestratorProps -----------------------
(***************************************************************************)
(* What makes the call ladder correct.                                      *)
(***************************************************************************)
EXTENDS CallOrchestrator

Busy(c) == frame # Idle /\ frame.call = c

Frames == [at : {"runStep", "start"} \cup EmitPoints, call : Calls,
           dev : Devices \cup {NoDevice}, rest : SUBSET Devices]

\* The type of every variable of the orchestrator.
TypeOK ==
  /\ active \subseteq Calls
  /\ ladder \in [Calls -> Ladders \cup {<<>>}]
  /\ repeat \in [Calls -> 0..MaxRepeat]
  /\ cursor \in [Calls -> Nat \ {0}]
  /\ pass \in [Calls -> 0..MaxRepeat]
  /\ attempted \in [Calls -> SUBSET Devices]
  /\ declined \in [Calls -> SUBSET Devices]
  /\ ringing \in [Calls -> SUBSET Devices]
  /\ timer \in [Calls -> {"none", "delay", "ring"}]
  /\ reaper \in [Calls -> BOOLEAN]
  /\ answeredBy \in [Calls -> Devices \cup {NoDevice}]
  /\ outcome \in [Calls -> {"unplaced", "pending", "failed", "answered", "declined",
                            "missed", "cancelled"}]
  /\ frame \in {Idle} \cup Frames
  /\ sweep \in {NoSweep} \cup [dev : Devices, todo : SUBSET Calls]
  /\ online \subseteq Devices
  /\ bound \in [Calls -> SUBSET Devices]
  /\ screen \in [Calls -> SUBSET Devices]
  /\ refusals \in [Calls -> SUBSET (Devices \X Nat)]

\* The map and the promises agree: outside a handler of its own, a call is in
\* the map without an answer exactly while its caller is still waiting.  A
\* record released early leaves a caller waiting for ever; one kept late
\* reports a call that is over as still ringing (calls.ts 227-232, 410-419).
WaitingIffActive ==
  \A c \in Calls : ~Busy(c) =>
    (outcome[c] = "pending" <=> c \in active /\ answeredBy[c] = NoDevice)

\* No call is stranded: while its caller waits it is in the map, and either a
\* rung's delay is running and nobody rings, or somebody rings and a timer
\* bounds it.  Every decline, vanish and timeout has to re-establish this,
\* whatever order they come in (calls.ts 129-179, 246-288).
Moving(c) ==
  \/ timer[c] = "delay" /\ ringing[c] = {}
  \/ timer[c] = "ring" /\ ringing[c] # {}
NeverStranded ==
  WaitingIffActive /\ \A c \in Calls : ~Busy(c) /\ outcome[c] = "pending" => Moving(c)

\* One rung at a time: a phone that was told to ring and never told to stop is
\* one the current rung is ringing.  "Stop this rung ringing before the next
\* starts, or the user ends up with two phones going for one incident"
\* (calls.ts 185-186).
OneRungRings ==
  \A c \in Calls :
    /\ screen[c] \subseteq ringing[c]
    /\ ringing[c] # {} => ringing[c] \subseteq StepTargets(c)

\* When the caller has an answer of any kind, no phone goes on ringing for it.
SilentOnceSettled ==
  \A c \in Calls : ~Busy(c) /\ Settled(c) => screen[c] = {}

\* "Declined" is said only when every device that was rung refused during the
\* last pass: neither a timeout, nor a lost phone, nor a refusal of an earlier
\* pass is reported as somebody saying no (calls.ts 137-142, 266-275, 368-372).
DeclinedIsUnanimous ==
  \A c \in Calls : outcome[c] = "declined" =>
    /\ attempted[c] # {}
    /\ \A d \in attempted[c] : <<d, pass[c]>> \in refusals[c]

\* Every call that can reach anybody gets its definite outcome (calls.ts 67),
\* because every rung is bounded by a timer.
EveryCallSettles ==
  \A c \in Calls : outcome[c] = "pending" ~> outcome[c] # "pending"

\* No record outlives its call: an answered call whose `call.ended` never comes
\* is released by the reaper at the latest (calls.ts 227-234).
EveryRecordReleased ==
  \A c \in Calls : c \in active ~> c \notin active

\* The orchestrator keeps the promise made to the caller (CallPromise).
Promise == INSTANCE CallPromise WITH rung <- attempted, answerer <- answeredBy
KeepsPromise == Promise!Spec

(***************************************************************************)
(* The inductive invariant behind the safety properties.  A handler that    *)
(* stopped at an emit may find its call cancelled when it resumes, so most  *)
(* of it says what holds at each resumption point.                          *)
(***************************************************************************)
Climbing == {"runStep", "start", "ringing"}
Unanswered == Climbing \cup {"legOver", "refused", "missed"}

\* A call nothing will touch again, except to report that it ended.
Over(c) ==
  /\ outcome[c] # "pending"
  /\ outcome[c] = "cancelled" => ~ListenerCancels

\* The life of a call: map, promise and answerer agree at every point.
Life(c) ==
  /\ ~Busy(c) => (outcome[c] = "pending" <=> c \in active /\ answeredBy[c] = NoDevice)
  /\ Busy(c) /\ frame.at \in Unanswered =>
       /\ answeredBy[c] = NoDevice
       /\ outcome[c] \in {"pending", "cancelled"}
       /\ outcome[c] = "pending" <=> c \in active
  /\ Busy(c) /\ frame.at = "answered" =>
       /\ answeredBy[c] # NoDevice
       /\ outcome[c] \in {"pending", "cancelled"}
       /\ outcome[c] = "pending" => c \in active
  /\ Busy(c) /\ frame.at = "ended" => outcome[c] # "pending" /\ answeredBy[c] # NoDevice
  /\ outcome[c] \in {"unplaced", "failed"} =>
       c \notin active /\ answeredBy[c] = NoDevice /\ ~reaper[c]
  /\ outcome[c] = "cancelled" => c \notin active
  /\ timer[c] # "none" \/ ringing[c] # {} => answeredBy[c] = NoDevice
  /\ reaper[c] => outcome[c] # "pending"
  /\ Over(c) => ringing[c] = {} /\ timer[c] = "none" /\ (Busy(c) => frame.at = "ended")

\* The rung: who may be ringing, and what bounds it, at every point.
OnRung(c) ==
  /\ ringing[c] # {} => cursor[c] <= Len(ladder[c]) /\ ringing[c] \subseteq StepTargets(c)
  /\ ringing[c] \subseteq attempted[c]
  /\ timer[c] = "delay" => ringing[c] = {} /\ cursor[c] <= Len(ladder[c])
  /\ Busy(c) /\ frame.at \in Climbing \cup {"answered", "refused", "missed"} =>
       timer[c] = "none"
  /\ Busy(c) /\ frame.at \in {"runStep", "start", "answered", "refused", "missed"} =>
       ringing[c] = {}
  /\ Busy(c) /\ frame.at \in {"start", "ringing"} =>
       cursor[c] <= Len(ladder[c]) /\ frame.rest \subseteq StepTargets(c)
  /\ Busy(c) /\ frame.at = "ringing" /\ outcome[c] = "pending" => ringing[c] # {}
  /\ Busy(c) /\ frame.at = "legOver" /\ outcome[c] = "pending" => timer[c] = "ring"
  /\ ~Busy(c) /\ outcome[c] = "pending" =>
       \/ timer[c] = "delay" /\ ringing[c] = {}
       \/ timer[c] = "ring" /\ ringing[c] # {}

\* Phones follow the orchestrator, and a device being swept is not one of them.
OnScreen(c) ==
  /\ screen[c] \subseteq ringing[c]
  /\ sweep # NoSweep => sweep.dev \notin screen[c] /\ sweep.dev \notin bound[c]

\* What the orchestrator counts as refused was refused in this pass.
Refusals(c) ==
  /\ \A d \in declined[c] : <<d, pass[c]>> \in refusals[c]
  /\ (Busy(c) /\ frame.at = "refused") \/ outcome[c] = "declined" =>
       attempted[c] # {} /\ attempted[c] \subseteq declined[c]

IInv == TypeOK /\ \A c \in Calls : Life(c) /\ OnRung(c) /\ OnScreen(c) /\ Refusals(c)
=============================================================================
