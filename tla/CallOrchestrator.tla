-------------------------- MODULE CallOrchestrator --------------------------
(***************************************************************************)
(* The call ladder of packages/core/src/calls.ts: rings one rung of devices *)
(* after another until somebody answers, everybody refuses, nobody is left  *)
(* or the application gives up.                                             *)
(*                                                                          *)
(* The hub is one JavaScript thread, so a handler runs to completion before *)
(* the next timer, frame or close event.  Inside a handler, though, every   *)
(* emit() runs the application's 'call' listener synchronously, and that    *)
(* listener may call cancelCall().  A handler is therefore modelled as a    *)
(* chain of steps cut at its emits: `frame` says where the running handler  *)
(* will resume, and nothing but its own continuation (and the listener, at  *)
(* an emit) moves while it is not Idle.                                     *)
(*                                                                          *)
(* Operators named X_Fault are faults of X the properties must reveal.      *)
(***************************************************************************)
EXTENDS Naturals, Sequences, FiniteSets

CONSTANTS
  Calls,            \* call ids
  Devices,          \* paired devices
  NoCall, NoDevice, \* "undefined"
  Ladders,          \* the ladders place() is given: sequences of rungs
  MaxRepeat,        \* bound on a policy's `repeat` (10 in the code)
  ListenerCancels   \* whether the application cancels calls from its listener

Rung == [targets : SUBSET Devices, delayed : BOOLEAN]

ASSUME ConstantsAssumption ==
  /\ NoCall \notin Calls
  /\ NoDevice \notin Devices
  /\ Ladders \subseteq Seq(Rung)
  /\ MaxRepeat \in Nat
  /\ ListenerCancels \in BOOLEAN

VARIABLES
  active,      \* ids in the orchestrator's map
  ladder,      \* steps of each call, resolved when it was placed
  repeat,      \* extra passes over the ladder
  cursor,      \* rung being rung, from 1
  pass,        \* passes completed
  attempted,   \* devices rung so far, over all passes
  declined,    \* devices that said "not me" in this pass
  ringing,     \* devices the orchestrator believes are ringing
  timer,       \* the one timer slot of a call: none, delay or ring
  reaper,      \* whether the 15 minute timer of an answered call is armed
  answeredBy,  \* device that answered
  outcome,     \* what place()'s promise resolved to
  frame,       \* where the running handler resumes
  sweep,       \* the rest of dropped()'s loop over the active calls
  online,      \* devices with at least one session
  bound,       \* devices whose session captured at place() is still open
  screen,      \* history: phones told to ring over an open socket, untold since
  refusals     \* history: <<device, pass>> of every "not me" received

ladderVars  == <<ladder, repeat>>
climbVars   == <<cursor, pass, declined>>
ringVars    == <<attempted, ringing, screen>>
timerVars   == <<timer, reaper>>
resultVars  == <<active, answeredBy, outcome>>
socketVars  == <<online, bound>>
vars == <<ladderVars, climbVars, ringVars, timerVars, resultVars, socketVars,
          frame, sweep, refusals>>

(***************************************************************************)
(* The JavaScript stack.                                                    *)
(***************************************************************************)
Idle == [at |-> "idle", call |-> NoCall, dev |-> NoDevice, rest |-> {}]
At(place, c, d, rest) == [at |-> place, call |-> c, dev |-> d, rest |-> rest]

\* The resumption points that follow an emit(): the listener has the thread.
EmitPoints == {"ringing", "legOver", "answered", "ended", "refused", "missed"}

NoSweep == [dev |-> NoDevice, todo |-> {}]
Quiet == frame = Idle /\ sweep = NoSweep

StepTargets(c) == ladder[c][cursor[c]].targets
StepDelayed(c) == ladder[c][cursor[c]].delayed
AllTargets(c) == UNION {ladder[c][i].targets : i \in DOMAIN ladder[c]}
Settled(c) == outcome[c] \notin {"unplaced", "pending"}

\* Passes of the ladder still to come, and whether anybody of the rung rings.
PassesLeft(c) == pass[c] < repeat[c]

StillRinging_Waits(c) == TRUE
StillRinging(c) == ringing[c] # {}

\* settle(): resolves the promise unless it already has.
Settle(c, result) ==
  outcome' = [outcome EXCEPT ![c] = IF @ = "pending" THEN result ELSE @]

ClearTimer(c) == /\ timer'  = [timer EXCEPT ![c] = "none"]
                 /\ reaper' = [reaper EXCEPT ![c] = FALSE]

Delete(c) == active' = active \ {c}

(***************************************************************************)
(* Initially no call exists and every device is connected.                  *)
(***************************************************************************)
Init ==
  /\ active = {}
  /\ ladder = [c \in Calls |-> <<>>]
  /\ repeat = [c \in Calls |-> 0]
  /\ cursor = [c \in Calls |-> 1]
  /\ pass = [c \in Calls |-> 0]
  /\ attempted = [c \in Calls |-> {}]
  /\ declined = [c \in Calls |-> {}]
  /\ ringing = [c \in Calls |-> {}]
  /\ timer = [c \in Calls |-> "none"]
  /\ reaper = [c \in Calls |-> FALSE]
  /\ answeredBy = [c \in Calls |-> NoDevice]
  /\ outcome = [c \in Calls |-> "unplaced"]
  /\ frame = Idle
  /\ sweep = NoSweep
  /\ online = Devices
  /\ bound = [c \in Calls |-> {}]
  /\ screen = [c \in Calls |-> {}]
  /\ refusals = [c \in Calls |-> {}]

(***************************************************************************)
(* place(): a ladder of the devices connected now, or "failed" at once.     *)
(***************************************************************************)
Place(c) ==
  /\ Quiet
  /\ outcome[c] = "unplaced"
  /\ \E l \in Ladders, r \in 0..MaxRepeat :
       /\ \A i \in DOMAIN l : l[i].targets \subseteq online
       /\ ladder' = [ladder EXCEPT ![c] = l]
       /\ repeat' = [repeat EXCEPT ![c] = r]
       /\ \/ /\ \A i \in DOMAIN l : l[i].targets = {}
             /\ outcome' = [outcome EXCEPT ![c] = "failed"]
             /\ UNCHANGED <<active, frame>>
          \/ /\ \E i \in DOMAIN l : l[i].targets # {}
             /\ outcome' = [outcome EXCEPT ![c] = "pending"]
             /\ active' = active \cup {c}
             /\ frame' = At("runStep", c, NoDevice, {})
  /\ bound' = [bound EXCEPT ![c] = online]
  /\ UNCHANGED <<climbVars, ringVars, timerVars, answeredBy, online, sweep, refusals>>

(***************************************************************************)
(* runStep(), one level of its recursion at a time.                         *)
(***************************************************************************)
Resuming(c, place) == frame.at = place /\ frame.call = c

NextPass_KeepsRefusals(c) ==
  /\ Resuming(c, "runStep")
  /\ cursor[c] > Len(ladder[c])
  /\ PassesLeft(c)
  /\ pass' = [pass EXCEPT ![c] = @ + 1]
  /\ cursor' = [cursor EXCEPT ![c] = 1]
  /\ ringing' = [ringing EXCEPT ![c] = {}]
  /\ UNCHANGED <<ladderVars, declined, attempted, screen, timerVars, resultVars, socketVars,
                 frame, sweep, refusals>>

\* Past the last rung with passes left: start over, forgetting the refusals.
NextPass(c) ==
  /\ Resuming(c, "runStep")
  /\ cursor[c] > Len(ladder[c])
  /\ PassesLeft(c)
  /\ pass' = [pass EXCEPT ![c] = @ + 1]
  /\ cursor' = [cursor EXCEPT ![c] = 1]
  /\ ringing' = [ringing EXCEPT ![c] = {}]
  /\ declined' = [declined EXCEPT ![c] = {}]
  /\ UNCHANGED <<ladderVars, attempted, screen, timerVars, resultVars, socketVars,
                 frame, sweep, refusals>>

SkipEmptyRung(c) ==
  /\ Resuming(c, "runStep")
  /\ cursor[c] <= Len(ladder[c])
  /\ StepTargets(c) = {}
  /\ cursor' = [cursor EXCEPT ![c] = @ + 1]
  /\ UNCHANGED <<ladderVars, pass, declined, ringVars, timerVars, resultVars,
                 socketVars, frame, sweep, refusals>>

StartRung(c) ==
  /\ Resuming(c, "runStep")
  /\ cursor[c] <= Len(ladder[c])
  /\ StepTargets(c) # {}
  /\ IF StepDelayed(c)
       THEN /\ timer' = [timer EXCEPT ![c] = "delay"]
            /\ frame' = Idle
       ELSE /\ frame' = At("start", c, NoDevice, StepTargets(c))
            /\ UNCHANGED timer
  /\ UNCHANGED <<ladderVars, climbVars, ringVars, reaper, resultVars, socketVars,
                 sweep, refusals>>

DelayElapsed(c) ==
  /\ Quiet
  /\ timer[c] = "delay"
  /\ timer' = [timer EXCEPT ![c] = "none"]
  /\ frame' = At("start", c, NoDevice, StepTargets(c))
  /\ UNCHANGED <<ladderVars, climbVars, ringVars, reaper, resultVars, socketVars,
                 sweep, refusals>>

\* One turn of start()'s loop: send 'call' and emit 'ringing'.  A frame for a
\* closed socket goes nowhere, but the device counts as ringing all the same.
RingNext(c, d) ==
  /\ Resuming(c, "start") \/ Resuming(c, "ringing")
  /\ d \in frame.rest
  /\ attempted' = [attempted EXCEPT ![c] = @ \cup {d}]
  /\ ringing' = [ringing EXCEPT ![c] = @ \cup {d}]
  /\ screen' = [screen EXCEPT ![c] = @ \cup ({d} \cap bound[c])]
  /\ frame' = At("ringing", c, NoDevice, frame.rest \ {d})
  /\ UNCHANGED <<ladderVars, climbVars, timerVars, resultVars, socketVars, sweep,
                 refusals>>

ArmRingTimer_Forgets(c) ==
  /\ Resuming(c, "ringing")
  /\ frame.rest = {}
  /\ frame' = Idle
  /\ UNCHANGED <<ladderVars, climbVars, ringVars, timerVars, resultVars, socketVars,
                 sweep, refusals>>

\* The end of start(): arm the ring timer, whatever the listener did meanwhile.
ArmRingTimer(c) ==
  /\ Resuming(c, "ringing")
  /\ frame.rest = {}
  /\ timer' = [timer EXCEPT ![c] = "ring"]
  /\ frame' = Idle
  /\ UNCHANGED <<ladderVars, climbVars, ringVars, reaper, resultVars, socketVars,
                 sweep, refusals>>


\* advance(): the rung ran out of time.
Advance(c) ==
  /\ Quiet
  /\ timer[c] = "ring"
  /\ timer' = [timer EXCEPT ![c] = "none"]
  /\ ringing' = [ringing EXCEPT ![c] = @ \ StepTargets(c)]
  /\ screen' = [screen EXCEPT ![c] = @ \ (StepTargets(c) \cap ringing[c])]
  /\ cursor' = [cursor EXCEPT ![c] = @ + 1]
  /\ frame' = At("runStep", c, NoDevice, {})
  /\ UNCHANGED <<ladderVars, pass, declined, attempted, reaper, resultVars,
                 socketVars, sweep, refusals>>

(***************************************************************************)
(* Frames from devices.  Any device may send any of them at any time: late, *)
(* twice, or about a call it was never part of.                             *)
(***************************************************************************)
Answer_Unrung(c, d) ==
  /\ Quiet
  /\ c \in active
  /\ answeredBy[c] = NoDevice
  /\ d \in AllTargets(c)
  /\ ClearTimer(c)
  /\ answeredBy' = [answeredBy EXCEPT ![c] = d]
  /\ ringing' = [ringing EXCEPT ![c] = {}]
  /\ screen' = [screen EXCEPT ![c] = @ \ ((ringing[c] \cap AllTargets(c)) \cup {d})]
  /\ frame' = At("answered", c, d, {})
  /\ UNCHANGED <<ladderVars, climbVars, attempted, active, outcome, socketVars, sweep,
                 refusals>>

Answer_TellsItself(c, d) ==
  /\ Quiet
  /\ c \in active
  /\ answeredBy[c] = NoDevice
  /\ d \in AllTargets(c)
  /\ d \in ringing[c]
  /\ ClearTimer(c)
  /\ answeredBy' = [answeredBy EXCEPT ![c] = d]
  /\ ringing' = [ringing EXCEPT ![c] = {}]
  /\ screen' = [screen EXCEPT ![c] = @ \ {d}]
  /\ frame' = At("answered", c, d, {})
  /\ UNCHANGED <<ladderVars, climbVars, attempted, active, outcome, socketVars, sweep,
                 refusals>>

Answer(c, d) ==
  /\ Quiet
  /\ c \in active
  /\ answeredBy[c] = NoDevice
  /\ d \in AllTargets(c)
  /\ d \in ringing[c]
  /\ ClearTimer(c)
  /\ answeredBy' = [answeredBy EXCEPT ![c] = d]
  /\ ringing' = [ringing EXCEPT ![c] = {}]
  /\ screen' = [screen EXCEPT ![c] = @ \ ((ringing[c] \cap AllTargets(c)) \cup {d})]
  /\ frame' = At("answered", c, d, {})
  /\ UNCHANGED <<ladderVars, climbVars, attempted, active, outcome, socketVars, sweep,
                 refusals>>

AfterAnswered_NoReaper(c) ==
  /\ Resuming(c, "answered")
  /\ Settle(c, "answered")
  /\ frame' = Idle
  /\ UNCHANGED <<ladderVars, climbVars, ringVars, timerVars, active, answeredBy,
                 socketVars, sweep, refusals>>

AfterAnswered(c) ==
  /\ Resuming(c, "answered")
  /\ Settle(c, "answered")
  /\ reaper' = [reaper EXCEPT ![c] = TRUE]
  /\ frame' = Idle
  /\ UNCHANGED <<ladderVars, climbVars, ringVars, timer, active, answeredBy,
                 socketVars, sweep, refusals>>

Decline(c, d) ==
  /\ Quiet
  /\ c \in active
  /\ answeredBy[c] = NoDevice
  /\ d \in ringing[c]
  /\ declined' = [declined EXCEPT ![c] = @ \cup {d}]
  /\ ringing' = [ringing EXCEPT ![c] = @ \ {d}]
  /\ screen' = [screen EXCEPT ![c] = @ \ {d}]
  /\ refusals' = [refusals EXCEPT ![c] = @ \cup {<<d, pass[c]>>}]
  /\ frame' = At("legOver", c, d, {})
  /\ UNCHANGED <<ladderVars, cursor, pass, attempted, timerVars, resultVars,
                 socketVars, sweep>>

\* The common tail of decline() and vanish(): the rung may be over early.
AfterLeg(c) ==
  /\ Resuming(c, "legOver")
  /\ IF StillRinging(c)
       THEN /\ frame' = Idle
            /\ UNCHANGED <<timerVars, cursor>>
       ELSE /\ ClearTimer(c)
            /\ cursor' = [cursor EXCEPT ![c] = @ + 1]
            /\ frame' = At("runStep", c, NoDevice, {})
  /\ UNCHANGED <<ladderVars, pass, declined, ringVars, resultVars, socketVars, sweep,
                 refusals>>

Ended(c, d) ==
  /\ Quiet
  /\ c \in active
  /\ answeredBy[c] = d
  /\ ClearTimer(c)
  /\ frame' = At("ended", c, d, {})
  /\ UNCHANGED <<ladderVars, climbVars, ringVars, resultVars, socketVars, sweep,
                 refusals>>

AfterEnded(c) ==
  /\ Resuming(c, "ended")
  /\ Settle(c, "answered")
  /\ Delete(c)
  /\ frame' = Idle
  /\ UNCHANGED <<ladderVars, climbVars, ringVars, timerVars, answeredBy, socketVars,
                 sweep, refusals>>

\* The 15 minute timer of an answered call nobody reported the end of.
Reap(c) ==
  /\ Quiet
  /\ reaper[c]
  /\ reaper' = [reaper EXCEPT ![c] = FALSE]
  /\ Delete(c)
  /\ UNCHANGED <<ladderVars, climbVars, ringVars, timer, answeredBy, outcome,
                 socketVars, frame, sweep, refusals>>

(***************************************************************************)
(* Sockets.  closeSession() calls dropped() when the last session of a      *)
(* device closes, and only then.                                            *)
(***************************************************************************)
HangUp(d) ==
  /\ bound' = [c \in Calls |-> bound[c] \ {d}]
  /\ screen' = [c \in Calls |-> screen[c] \ {d}]

Dropped(d) ==
  /\ Quiet
  /\ d \in online
  /\ online' = online \ {d}
  /\ HangUp(d)
  /\ sweep' = IF active = {} THEN NoSweep ELSE [dev |-> d, todo |-> active]
  /\ UNCHANGED <<ladderVars, climbVars, attempted, ringing, timerVars, resultVars,
                 frame, refusals>>

\* One turn of dropped()'s loop over the calls active when it was called.
SweepCall(c) ==
  LET d == sweep.dev IN
  /\ frame = Idle
  /\ c \in sweep.todo
  /\ sweep' = IF sweep.todo = {c} THEN NoSweep ELSE [sweep EXCEPT !.todo = @ \ {c}]
  /\ \/ /\ answeredBy[c] = d
        /\ ClearTimer(c)
        /\ Delete(c)
        /\ UNCHANGED <<ringing, frame>>
     \/ /\ answeredBy[c] # d
        /\ d \in ringing[c]
        /\ ringing' = [ringing EXCEPT ![c] = @ \ {d}]
        /\ frame' = At("legOver", c, d, {})
        /\ UNCHANGED <<timerVars, active>>
     \/ /\ answeredBy[c] # d
        /\ d \notin ringing[c]
        /\ UNCHANGED <<ringing, frame, timerVars, active>>
  /\ UNCHANGED <<ladderVars, climbVars, attempted, screen, answeredBy, outcome,
                 socketVars, refusals>>

\* The device connected a second time and the session its calls were bound to
\* closes: the device is still online, so dropped() is not called.
SocketReplaced(d) ==
  /\ Quiet
  /\ d \in online
  /\ \E c \in Calls : d \in bound[c]
  /\ HangUp(d)
  /\ UNCHANGED <<ladderVars, climbVars, attempted, ringing, timerVars, resultVars,
                 online, frame, sweep, refusals>>

Reconnect(d) ==
  /\ Quiet
  /\ d \notin online
  /\ online' = online \cup {d}
  /\ UNCHANGED <<ladderVars, climbVars, ringVars, timerVars, resultVars, bound,
                 frame, sweep, refusals>>

(***************************************************************************)
(* cancel(), from the API and from the listener, and the hub's stop().      *)
(***************************************************************************)
CancelCalls_ClearsFirst(cs) ==
  /\ timer' = [c \in Calls |-> IF c \in cs THEN "none" ELSE timer[c]]
  /\ reaper' = [c \in Calls |-> IF c \in cs THEN FALSE ELSE reaper[c]]
  /\ screen' = screen
  /\ ringing' = [c \in Calls |-> IF c \in cs THEN {} ELSE ringing[c]]
  /\ outcome' = [c \in Calls |-> IF c \in cs /\ outcome[c] = "pending"
                                   THEN "cancelled" ELSE outcome[c]]
  /\ active' = active \ cs
  /\ UNCHANGED <<ladderVars, climbVars, attempted, answeredBy, socketVars, frame,
                 sweep, refusals>>

CancelCalls(cs) ==
  /\ timer' = [c \in Calls |-> IF c \in cs THEN "none" ELSE timer[c]]
  /\ reaper' = [c \in Calls |-> IF c \in cs THEN FALSE ELSE reaper[c]]
  /\ screen' = [c \in Calls |-> IF c \in cs THEN screen[c] \ ringing[c] ELSE screen[c]]
  /\ ringing' = [c \in Calls |-> IF c \in cs THEN {} ELSE ringing[c]]
  /\ outcome' = [c \in Calls |-> IF c \in cs /\ outcome[c] = "pending"
                                   THEN "cancelled" ELSE outcome[c]]
  /\ active' = active \ cs
  /\ UNCHANGED <<ladderVars, climbVars, attempted, answeredBy, socketVars, frame,
                 sweep, refusals>>

Cancel(c) == Quiet /\ c \in active /\ CancelCalls({c})

CancelAll == Quiet /\ active # {} /\ CancelCalls(active)

ListenerCancel(c) ==
  /\ ListenerCancels
  /\ frame.at \in EmitPoints
  /\ c \in active
  /\ CancelCalls({c})

(***************************************************************************)
(* exhausted() and miss(): the ladder is over.                              *)
(***************************************************************************)
Exhausted(c) ==
  /\ Resuming(c, "runStep")
  /\ cursor[c] > Len(ladder[c])
  /\ ~PassesLeft(c)
  /\ ClearTimer(c)
  /\ IF attempted[c] # {} /\ attempted[c] \subseteq declined[c]
       THEN /\ frame' = At("refused", c, NoDevice, {})
            /\ UNCHANGED <<ringing, screen>>
       ELSE /\ screen' = [screen EXCEPT ![c] = @ \ ringing[c]]
            /\ ringing' = [ringing EXCEPT ![c] = {}]
            /\ frame' = At("missed", c, NoDevice, {})
  /\ UNCHANGED <<ladderVars, climbVars, attempted, resultVars, socketVars, sweep,
                 refusals>>

AfterExhausted(c) ==
  /\ \/ Resuming(c, "refused") /\ Settle(c, "declined")
     \/ Resuming(c, "missed") /\ Settle(c, "missed")
  /\ Delete(c)
  /\ frame' = Idle
  /\ UNCHANGED <<ladderVars, climbVars, ringVars, timerVars, answeredBy, socketVars,
                 sweep, refusals>>

(***************************************************************************)
(* The specification.  Fairness: the event loop finishes the handler it is  *)
(* running, and timers fire.  Nothing is assumed of people, of sockets or   *)
(* of the application.                                                      *)
(***************************************************************************)
RunStep(c) == NextPass(c) \/ SkipEmptyRung(c) \/ StartRung(c) \/ Exhausted(c)

Start(c) == (\E d \in Devices : RingNext(c, d)) \/ ArmRingTimer(c)

Resume(c) ==
  \/ RunStep(c)
  \/ Start(c)
  \/ AfterAnswered(c)
  \/ AfterLeg(c)
  \/ AfterEnded(c)
  \/ AfterExhausted(c)
  \/ SweepCall(c)

TimerFires(c) == DelayElapsed(c) \/ Advance(c) \/ Reap(c)

Device(d) ==
  \/ \E c \in Calls : Answer(c, d) \/ Decline(c, d) \/ Ended(c, d)
  \/ Dropped(d)
  \/ SocketReplaced(d)
  \/ Reconnect(d)

Application ==
  \/ \E c \in Calls : Place(c) \/ Cancel(c) \/ ListenerCancel(c)
  \/ CancelAll

Next ==
  \/ \E c \in Calls : Resume(c) \/ TimerFires(c)
  \/ \E d \in Devices : Device(d)
  \/ Application

Spec == Init /\ [][Next]_vars

Fairness == \A c \in Calls : /\ WF_vars(Resume(c))
                             /\ SF_vars(DelayElapsed(c))
                             /\ SF_vars(Advance(c))
                             /\ SF_vars(Reap(c))

FairSpec == Spec /\ Fairness
=============================================================================
