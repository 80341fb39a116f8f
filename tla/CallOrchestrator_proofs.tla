---------------------- MODULE CallOrchestrator_proofs ----------------------
(***************************************************************************)
(* Proofs about the call ladder, for every set of calls and devices, every  *)
(* ladder and every number of repeats.                                      *)
(***************************************************************************)
EXTENDS CallOrchestratorProps, TLAPS

(***************************************************************************)
(* What a step may leave alone about one call.                              *)
(***************************************************************************)
KeepsLadder(k) == ladder'[k] = ladder[k] /\ repeat'[k] = repeat[k]
KeepsClimb(k) == /\ cursor'[k] = cursor[k]
                 /\ pass'[k] = pass[k]
                 /\ declined'[k] = declined[k]
KeepsRing(k) == /\ attempted'[k] = attempted[k]
                /\ ringing'[k] = ringing[k]
                /\ screen'[k] = screen[k]
KeepsTimers(k) == timer'[k] = timer[k] /\ reaper'[k] = reaper[k]
KeepsResult(k) == /\ k \in active' <=> k \in active
                  /\ answeredBy'[k] = answeredBy[k]
                  /\ outcome'[k] = outcome[k]
KeepsRefusals(k) == refusals'[k] = refusals[k]
KeepsBound(k) == bound'[k] = bound[k]

KeepsCall(k) ==
  /\ KeepsLadder(k) /\ KeepsClimb(k) /\ KeepsRing(k) /\ KeepsTimers(k)
  /\ KeepsResult(k) /\ KeepsRefusals(k) /\ KeepsBound(k)

\* Neither before nor after the step does a handler of this call run, or it
\* stays where it is.
SameTask(k) == frame' = frame \/ (~Busy(k) /\ ~Busy(k)')
SameSweep == sweep' # NoSweep => sweep # NoSweep /\ sweep'.dev = sweep.dev

Good(k) == Life(k) /\ OnRung(k) /\ OnScreen(k) /\ Refusals(k)

\* Effects are always read down to the variables.
USE DEF KeepsLadder, KeepsClimb, KeepsRing, KeepsTimers, KeepsResult, KeepsRefusals, KeepsBound
USE DEF PassesLeft, StillRinging
USE DEF vars, ladderVars, climbVars, ringVars, timerVars, resultVars, socketVars

LEMMA ConstantFacts == NoCall \notin Calls /\ NoDevice \notin Devices /\ MaxRepeat \in Nat
BY ConstantsAssumption DEF ConstantsAssumption

LEMMA LadderShape ==
  ASSUME TypeOK, NEW c \in Calls
  PROVE  /\ Len(ladder[c]) \in Nat
         /\ cursor[c] <= Len(ladder[c]) => /\ cursor[c] \in DOMAIN ladder[c]
                                          /\ StepTargets(c) \in SUBSET Devices
<1>1. ladder[c] \in Seq(Rung)
  <2>1. <<>> \in Seq(Rung)
    OBVIOUS
  <2>2. ladder[c] \in Ladders \cup {<<>>}
    BY DEF TypeOK
  <2> QED
    BY <2>1, <2>2, ConstantsAssumption DEF ConstantsAssumption
<1>2. Len(ladder[c]) \in Nat /\ DOMAIN ladder[c] = 1..Len(ladder[c])
  BY <1>1
<1>3. ASSUME cursor[c] <= Len(ladder[c]) PROVE cursor[c] \in DOMAIN ladder[c]
  BY <1>2, <1>3 DEF TypeOK
<1>4. ASSUME cursor[c] \in DOMAIN ladder[c] PROVE StepTargets(c) \in SUBSET Devices
  <2>1. ladder[c][cursor[c]] \in Rung
    BY <1>1, <1>4
  <2> QED
    BY <2>1 DEF StepTargets, Rung
<1> QED
  BY <1>1, <1>2, <1>3, <1>4

\* A step that leaves a call alone, and moves no handler of that call, keeps
\* what is known of the call.
LEMMA Untouched ==
  ASSUME NEW k, KeepsCall(k), SameTask(k), SameSweep, Good(k)
  PROVE  Good(k)'
<1> USE DEF KeepsCall, Good, SameTask, Busy
<1>1. Life(k)'
  BY DEF Life, Over
<1>2. OnRung(k)'
  BY DEF OnRung, StepTargets
<1>3. OnScreen(k)'
  BY DEF OnScreen, SameSweep
<1>4. Refusals(k)'
  BY DEF Refusals
<1> QED
  BY <1>1, <1>2, <1>3, <1>4

LEMMA NextPassStep ==
  ASSUME TypeOK, \A k \in Calls : Good(k), NEW c \in Calls, NextPass(c)
  PROVE  TypeOK' /\ \A k \in Calls : Good(k)'
<1>1. /\ Resuming(c, "runStep")
      /\ pass[c] < repeat[c] /\ pass'[c] = pass[c] + 1
      /\ cursor'[c] = 1 /\ declined'[c] = {} /\ ringing'[c] = {}
      /\ attempted'[c] = attempted[c] /\ screen'[c] = screen[c]
      /\ KeepsLadder(c)
      /\ KeepsTimers(c)
      /\ KeepsResult(c)
      /\ KeepsRefusals(c)
      /\ KeepsBound(c)
      /\ frame' = frame
      /\ sweep' = sweep
  BY DEF TypeOK, NextPass, Resuming
<1>2. frame' \in {Idle} \cup Frames
  BY <1>1, LadderShape, ConstantFacts
     DEF TypeOK, Good, OnRung, Frames, EmitPoints, At, Resuming, Idle
<1>3. pass'[c] \in 0..MaxRepeat
  BY <1>1, ConstantFacts DEF TypeOK
<1>4. TypeOK'
  BY <1>2, <1>3, ConstantFacts DEF TypeOK, NextPass, Resuming
<1>5. ASSUME NEW k \in Calls, k # c PROVE Good(k)'
  <2>1. KeepsCall(k)
    BY <1>5 DEF TypeOK, KeepsCall, NextPass, Resuming
  <2>2. SameTask(k) /\ SameSweep
    BY <1>1, <1>5, ConstantFacts DEF SameTask, SameSweep, Busy, Resuming, At, Idle
  <2> QED
    BY <2>1, <2>2, <1>1, Untouched
<1>6. Good(c)'
  <2>1. Good(c)
    OBVIOUS
  <2>2. Life(c)'
    BY <1>1, ConstantFacts, <2>1
       DEF Life, OnRung, Over, Climbing, Unanswered, Good, Busy, Resuming, At, Idle
  <2>3. OnRung(c)'
    BY <1>1, ConstantFacts, <2>1
       DEF Life, OnRung, Over, StepTargets, Climbing, Unanswered, Good, Busy,
           Resuming, At, Idle
  <2>4. OnScreen(c)'
    BY <1>1, ConstantFacts, <2>1 DEF OnScreen, OnRung, Good, Busy, Resuming, At, Idle
  <2>5. Refusals(c)'
    BY <1>1, ConstantFacts, <2>1
       DEF Refusals, Life, Over, Climbing, Unanswered, Good, Busy, Resuming, At,
           Idle
  <2> QED
    BY <2>2, <2>3, <2>4, <2>5 DEF Good
<1> QED
  BY <1>4, <1>5, <1>6

LEMMA SkipEmptyRungStep ==
  ASSUME TypeOK, \A k \in Calls : Good(k), NEW c \in Calls, SkipEmptyRung(c)
  PROVE  TypeOK' /\ \A k \in Calls : Good(k)'
<1>1. /\ Resuming(c, "runStep")
      /\ cursor'[c] = cursor[c] + 1
      /\ pass'[c] = pass[c] /\ declined'[c] = declined[c]
      /\ KeepsLadder(c)
      /\ KeepsRing(c)
      /\ KeepsTimers(c)
      /\ KeepsResult(c)
      /\ KeepsRefusals(c)
      /\ KeepsBound(c)
      /\ frame' = frame
      /\ sweep' = sweep
  BY DEF TypeOK, SkipEmptyRung, Resuming
<1>2. frame' \in {Idle} \cup Frames
  BY <1>1, LadderShape, ConstantFacts
     DEF TypeOK, Good, OnRung, Frames, EmitPoints, At, Resuming, Idle
<1>4. TypeOK'
  BY <1>2, ConstantFacts DEF TypeOK, SkipEmptyRung, Resuming
<1>5. ASSUME NEW k \in Calls, k # c PROVE Good(k)'
  <2>1. KeepsCall(k)
    BY <1>5 DEF TypeOK, KeepsCall, SkipEmptyRung, Resuming
  <2>2. SameTask(k) /\ SameSweep
    BY <1>1, <1>5, ConstantFacts DEF SameTask, SameSweep, Busy, Resuming, At, Idle
  <2> QED
    BY <2>1, <2>2, <1>1, Untouched
<1>6. Good(c)'
  <2>1. Good(c)
    OBVIOUS
  <2>2. Life(c)'
    BY <1>1, ConstantFacts, <2>1
       DEF Life, OnRung, Over, Climbing, Unanswered, Good, Busy, Resuming, At, Idle
  <2>3. OnRung(c)'
    BY <1>1, ConstantFacts, <2>1
       DEF Life, OnRung, Over, StepTargets, Climbing, Unanswered, Good, Busy,
           Resuming, At, Idle
  <2>4. OnScreen(c)'
    BY <1>1, ConstantFacts, <2>1 DEF OnScreen, OnRung, Good, Busy, Resuming, At, Idle
  <2>5. Refusals(c)'
    BY <1>1, ConstantFacts, <2>1
       DEF Refusals, Life, Over, Climbing, Unanswered, Good, Busy, Resuming, At,
           Idle
  <2> QED
    BY <2>2, <2>3, <2>4, <2>5 DEF Good
<1> QED
  BY <1>4, <1>5, <1>6

LEMMA StartRungStep ==
  ASSUME TypeOK, \A k \in Calls : Good(k), NEW c \in Calls, StartRung(c)
  PROVE  TypeOK' /\ \A k \in Calls : Good(k)'
<1>1. /\ Resuming(c, "runStep")
      /\ cursor[c] <= Len(ladder[c])
      /\ \/ timer'[c] = "delay" /\ frame' = Idle
         \/ timer'[c] = timer[c] /\ frame' = At("start", c, NoDevice, StepTargets(c))
      /\ reaper'[c] = reaper[c]
      /\ KeepsLadder(c)
      /\ KeepsClimb(c)
      /\ KeepsRing(c)
      /\ KeepsResult(c)
      /\ KeepsRefusals(c)
      /\ KeepsBound(c)
      /\ sweep' = sweep
  <2>1. CASE StepDelayed(c)
    BY <2>1 DEF TypeOK, StartRung, Resuming
  <2>2. CASE ~StepDelayed(c)
    BY <2>2 DEF TypeOK, StartRung, Resuming
  <2> QED
    BY <2>1, <2>2
<1>2. frame' \in {Idle} \cup Frames
  BY <1>1, LadderShape, ConstantFacts
     DEF TypeOK, Good, OnRung, Frames, EmitPoints, At, Resuming, Idle
<1>4. TypeOK'
  BY <1>2, ConstantFacts DEF TypeOK, StartRung, Resuming
<1>5. ASSUME NEW k \in Calls, k # c PROVE Good(k)'
  <2>1. KeepsCall(k)
    BY <1>5 DEF TypeOK, KeepsCall, StartRung, Resuming
  <2>2. SameTask(k) /\ SameSweep
    BY <1>1, <1>5, ConstantFacts DEF SameTask, SameSweep, Busy, Resuming, At, Idle
  <2> QED
    BY <2>1, <2>2, <1>1, Untouched
<1>6. Good(c)'
  <2>1. Good(c)
    OBVIOUS
  <2>2. Life(c)'
    BY <1>1, ConstantFacts, <2>1
       DEF Life, OnRung, Over, Climbing, Unanswered, Good, Busy, Resuming, At, Idle
  <2>3. OnRung(c)'
    BY <1>1, ConstantFacts, <2>1
       DEF Life, OnRung, Over, StepTargets, Climbing, Unanswered, Good, Busy,
           Resuming, At, Idle
  <2>4. OnScreen(c)'
    BY <1>1, ConstantFacts, <2>1 DEF OnScreen, OnRung, Good, Busy, Resuming, At, Idle
  <2>5. Refusals(c)'
    BY <1>1, ConstantFacts, <2>1
       DEF Refusals, Life, Over, Climbing, Unanswered, Good, Busy, Resuming, At,
           Idle
  <2> QED
    BY <2>2, <2>3, <2>4, <2>5 DEF Good
<1> QED
  BY <1>4, <1>5, <1>6

LEMMA ExhaustedStep ==
  ASSUME TypeOK, \A k \in Calls : Good(k), NEW c \in Calls, Exhausted(c)
  PROVE  TypeOK' /\ \A k \in Calls : Good(k)'
<1>1. /\ Resuming(c, "runStep")
      /\ timer'[c] = "none" /\ reaper'[c] = FALSE
      /\ \/ /\ attempted[c] # {} /\ attempted[c] \subseteq declined[c]
            /\ frame' = At("refused", c, NoDevice, {})
            /\ ringing'[c] = ringing[c] /\ screen'[c] = screen[c]
         \/ /\ frame' = At("missed", c, NoDevice, {})
            /\ ringing'[c] = {} /\ screen'[c] = screen[c] \ ringing[c]
      /\ attempted'[c] = attempted[c]
      /\ KeepsLadder(c)
      /\ KeepsClimb(c)
      /\ KeepsResult(c)
      /\ KeepsRefusals(c)
      /\ KeepsBound(c)
      /\ sweep' = sweep
  <2>1. CASE attempted[c] # {} /\ attempted[c] \subseteq declined[c]
    BY <2>1 DEF TypeOK, Exhausted, Resuming, ClearTimer
  <2>2. CASE ~(attempted[c] # {} /\ attempted[c] \subseteq declined[c])
    BY <2>2 DEF TypeOK, Exhausted, Resuming, ClearTimer
  <2> QED
    BY <2>1, <2>2
<1>2. frame' \in {Idle} \cup Frames
  BY <1>1, LadderShape, ConstantFacts
     DEF TypeOK, Good, OnRung, Frames, EmitPoints, At, Resuming, Idle
<1>3. ringing' \in [Calls -> SUBSET Devices] /\ screen' \in [Calls -> SUBSET Devices]
  <2>1. CASE attempted[c] # {} /\ attempted[c] \subseteq declined[c]
    BY <2>1 DEF TypeOK, Exhausted
  <2>2. CASE ~(attempted[c] # {} /\ attempted[c] \subseteq declined[c])
    <3>1. ringing' = [ringing EXCEPT ![c] = {}] /\ screen' = [screen EXCEPT ![c] = @ \ ringing[c]]
      BY <2>2 DEF Exhausted
    <3>2. ringing \in [Calls -> SUBSET Devices] /\ screen \in [Calls -> SUBSET Devices]
      BY DEF TypeOK
    <3> QED
      BY <3>1, <3>2
  <2> QED
    BY <2>1, <2>2
<1>4. TypeOK'
  BY <1>2, <1>3, ConstantFacts DEF TypeOK, Exhausted, Resuming, ClearTimer
<1>5. ASSUME NEW k \in Calls, k # c PROVE Good(k)'
  <2>1. KeepsCall(k)
    BY <1>5 DEF TypeOK, KeepsCall, Exhausted, Resuming, ClearTimer
  <2>2. SameTask(k) /\ SameSweep
    BY <1>1, <1>5, ConstantFacts DEF SameTask, SameSweep, Busy, Resuming, At, Idle
  <2> QED
    BY <2>1, <2>2, <1>1, Untouched
<1>6. Good(c)'
  <2>1. Good(c)
    OBVIOUS
  <2>2. Life(c)'
    BY <1>1, ConstantFacts, <2>1
       DEF Life, OnRung, Over, Climbing, Unanswered, Good, Busy, Resuming, At, Idle
  <2>3. OnRung(c)'
    BY <1>1, ConstantFacts, <2>1
       DEF Life, OnRung, Over, StepTargets, Climbing, Unanswered, Good, Busy,
           Resuming, At, Idle
  <2>4. OnScreen(c)'
    BY <1>1, ConstantFacts, <2>1 DEF OnScreen, OnRung, Good, Busy, Resuming, At, Idle
  <2>5. Refusals(c)'
    BY <1>1, ConstantFacts, <2>1
       DEF Refusals, Life, Over, Climbing, Unanswered, Good, Busy, Resuming, At,
           Idle
  <2> QED
    BY <2>2, <2>3, <2>4, <2>5 DEF Good
<1> QED
  BY <1>4, <1>5, <1>6

LEMMA RingNextStep ==
  ASSUME TypeOK, \A k \in Calls : Good(k), NEW c \in Calls, NEW d \in Devices, RingNext(c, d)
  PROVE  TypeOK' /\ \A k \in Calls : Good(k)'
<1>1. /\ Resuming(c, "start") \/ Resuming(c, "ringing")
      /\ d \in frame.rest
      /\ attempted'[c] = attempted[c] \cup {d} /\ ringing'[c] = ringing[c] \cup {d}
      /\ screen'[c] = screen[c] \cup ({d} \cap bound[c])
      /\ frame' = At("ringing", c, NoDevice, frame.rest \ {d})
      /\ KeepsLadder(c)
      /\ KeepsClimb(c)
      /\ KeepsTimers(c)
      /\ KeepsResult(c)
      /\ KeepsRefusals(c)
      /\ KeepsBound(c)
      /\ sweep' = sweep
  BY DEF TypeOK, RingNext, Resuming
<1>2. frame' \in {Idle} \cup Frames
  BY <1>1, LadderShape, ConstantFacts
     DEF TypeOK, Good, OnRung, Frames, EmitPoints, At, Resuming, Idle
<1>4. TypeOK'
  BY <1>2, ConstantFacts DEF TypeOK, RingNext, Resuming
<1>5. ASSUME NEW k \in Calls, k # c PROVE Good(k)'
  <2>1. KeepsCall(k)
    BY <1>5 DEF TypeOK, KeepsCall, RingNext, Resuming
  <2>2. SameTask(k) /\ SameSweep
    BY <1>1, <1>5, ConstantFacts DEF SameTask, SameSweep, Busy, Resuming, At, Idle
  <2> QED
    BY <2>1, <2>2, <1>1, Untouched
<1>6. Good(c)'
  <2>1. Good(c)
    OBVIOUS
  <2>2. Life(c)'
    BY <1>1, ConstantFacts, <2>1
       DEF Life, OnRung, Over, Climbing, Unanswered, Good, Busy, Resuming, At, Idle
  <2>3. OnRung(c)'
    BY <1>1, ConstantFacts, <2>1
       DEF Life, OnRung, Over, StepTargets, Climbing, Unanswered, Good, Busy,
           Resuming, At, Idle
  <2>4. OnScreen(c)'
    BY <1>1, ConstantFacts, <2>1 DEF OnScreen, OnRung, Good, Busy, Resuming, At, Idle
  <2>5. Refusals(c)'
    BY <1>1, ConstantFacts, <2>1
       DEF Refusals, Life, Over, Climbing, Unanswered, Good, Busy, Resuming, At,
           Idle
  <2> QED
    BY <2>2, <2>3, <2>4, <2>5 DEF Good
<1> QED
  BY <1>4, <1>5, <1>6

LEMMA ArmRingTimerStep ==
  ASSUME TypeOK, \A k \in Calls : Good(k), NEW c \in Calls, ArmRingTimer(c)
  PROVE  TypeOK' /\ \A k \in Calls : Good(k)'
<1>1. /\ Resuming(c, "ringing")
      /\ timer'[c] = "ring" /\ reaper'[c] = reaper[c]
      /\ frame' = Idle
      /\ KeepsLadder(c)
      /\ KeepsClimb(c)
      /\ KeepsRing(c)
      /\ KeepsResult(c)
      /\ KeepsRefusals(c)
      /\ KeepsBound(c)
      /\ sweep' = sweep
  BY DEF TypeOK, ArmRingTimer, Resuming
<1>2. frame' \in {Idle} \cup Frames
  BY <1>1, LadderShape, ConstantFacts
     DEF TypeOK, Good, OnRung, Frames, EmitPoints, At, Resuming, Idle
<1>4. TypeOK'
  BY <1>2, ConstantFacts DEF TypeOK, ArmRingTimer, Resuming
<1>5. ASSUME NEW k \in Calls, k # c PROVE Good(k)'
  <2>1. KeepsCall(k)
    BY <1>5 DEF TypeOK, KeepsCall, ArmRingTimer, Resuming
  <2>2. SameTask(k) /\ SameSweep
    BY <1>1, <1>5, ConstantFacts DEF SameTask, SameSweep, Busy, Resuming, At, Idle
  <2> QED
    BY <2>1, <2>2, <1>1, Untouched
<1>6. Good(c)'
  <2>1. Good(c)
    OBVIOUS
  <2>2. Life(c)'
    BY <1>1, ConstantFacts, <2>1
       DEF Life, OnRung, Over, Climbing, Unanswered, Good, Busy, Resuming, At, Idle
  <2>3. OnRung(c)'
    BY <1>1, ConstantFacts, <2>1
       DEF Life, OnRung, Over, StepTargets, Climbing, Unanswered, Good, Busy,
           Resuming, At, Idle
  <2>4. OnScreen(c)'
    BY <1>1, ConstantFacts, <2>1 DEF OnScreen, OnRung, Good, Busy, Resuming, At, Idle
  <2>5. Refusals(c)'
    BY <1>1, ConstantFacts, <2>1
       DEF Refusals, Life, Over, Climbing, Unanswered, Good, Busy, Resuming, At,
           Idle
  <2> QED
    BY <2>2, <2>3, <2>4, <2>5 DEF Good
<1> QED
  BY <1>4, <1>5, <1>6

LEMMA AfterAnsweredStep ==
  ASSUME TypeOK, \A k \in Calls : Good(k), NEW c \in Calls, AfterAnswered(c)
  PROVE  TypeOK' /\ \A k \in Calls : Good(k)'
<1>1. /\ Resuming(c, "answered")
      /\ outcome'[c] = IF outcome[c] = "pending" THEN "answered" ELSE outcome[c]
      /\ answeredBy'[c] = answeredBy[c] /\ (c \in active' <=> c \in active)
      /\ timer'[c] = timer[c] /\ reaper'[c] = TRUE
      /\ frame' = Idle
      /\ KeepsLadder(c)
      /\ KeepsClimb(c)
      /\ KeepsRing(c)
      /\ KeepsRefusals(c)
      /\ KeepsBound(c)
      /\ sweep' = sweep
  BY DEF TypeOK, AfterAnswered, Resuming, Settle
<1>2. frame' \in {Idle} \cup Frames
  BY <1>1, LadderShape, ConstantFacts
     DEF TypeOK, Good, OnRung, Frames, EmitPoints, At, Resuming, Idle
<1>4. TypeOK'
  BY <1>2, ConstantFacts DEF TypeOK, AfterAnswered, Resuming, Settle
<1>5. ASSUME NEW k \in Calls, k # c PROVE Good(k)'
  <2>1. KeepsCall(k)
    BY <1>5 DEF TypeOK, KeepsCall, AfterAnswered, Resuming, Settle
  <2>2. SameTask(k) /\ SameSweep
    BY <1>1, <1>5, ConstantFacts DEF SameTask, SameSweep, Busy, Resuming, At, Idle
  <2> QED
    BY <2>1, <2>2, <1>1, Untouched
<1>6. Good(c)'
  <2>1. Good(c)
    OBVIOUS
  <2>2. Life(c)'
    BY <1>1, ConstantFacts, <2>1
       DEF Life, OnRung, Over, Climbing, Unanswered, Good, Busy, Resuming, At, Idle
  <2>3. OnRung(c)'
    BY <1>1, ConstantFacts, <2>1
       DEF Life, OnRung, Over, StepTargets, Climbing, Unanswered, Good, Busy,
           Resuming, At, Idle
  <2>4. OnScreen(c)'
    BY <1>1, ConstantFacts, <2>1 DEF OnScreen, OnRung, Good, Busy, Resuming, At, Idle
  <2>5. Refusals(c)'
    BY <1>1, ConstantFacts, <2>1
       DEF Refusals, Life, Over, Climbing, Unanswered, Good, Busy, Resuming, At,
           Idle
  <2> QED
    BY <2>2, <2>3, <2>4, <2>5 DEF Good
<1> QED
  BY <1>4, <1>5, <1>6

LEMMA AfterLegStep ==
  ASSUME TypeOK, \A k \in Calls : Good(k), NEW c \in Calls, AfterLeg(c)
  PROVE  TypeOK' /\ \A k \in Calls : Good(k)'
<1>1. /\ Resuming(c, "legOver")
      /\ \/ /\ ringing[c] # {} /\ frame' = Idle
            /\ cursor'[c] = cursor[c] /\ KeepsTimers(c)
         \/ /\ ringing[c] = {} /\ frame' = At("runStep", c, NoDevice, {})
            /\ cursor'[c] = cursor[c] + 1
            /\ timer'[c] = "none" /\ reaper'[c] = FALSE
      /\ pass'[c] = pass[c] /\ declined'[c] = declined[c]
      /\ KeepsLadder(c)
      /\ KeepsRing(c)
      /\ KeepsResult(c)
      /\ KeepsRefusals(c)
      /\ KeepsBound(c)
      /\ sweep' = sweep
  <2>1. CASE ringing[c] # {}
    BY <2>1 DEF TypeOK, AfterLeg, Resuming, ClearTimer
  <2>2. CASE ringing[c] = {}
    BY <2>2 DEF TypeOK, AfterLeg, Resuming, ClearTimer
  <2> QED
    BY <2>1, <2>2
<1>2. frame' \in {Idle} \cup Frames
  BY <1>1, LadderShape, ConstantFacts
     DEF TypeOK, Good, OnRung, Frames, EmitPoints, At, Resuming, Idle
<1>3. /\ timer' \in [Calls -> {"none", "delay", "ring"}]
      /\ reaper' \in [Calls -> BOOLEAN]
      /\ cursor' \in [Calls -> Nat \ {0}]
  <2>1. CASE ringing[c] # {}
    BY <2>1 DEF TypeOK, AfterLeg
  <2>2. CASE ringing[c] = {}
    <3>1. /\ timer' = [timer EXCEPT ![c] = "none"]
          /\ reaper' = [reaper EXCEPT ![c] = FALSE]
          /\ cursor' = [cursor EXCEPT ![c] = @ + 1]
      BY <2>2 DEF AfterLeg, ClearTimer
    <3>2. cursor[c] + 1 \in Nat \ {0}
      BY DEF TypeOK
    <3> QED
      BY <3>1, <3>2 DEF TypeOK
  <2> QED
    BY <2>1, <2>2
<1>4. TypeOK'
  BY <1>2, <1>3, ConstantFacts DEF TypeOK, AfterLeg, Resuming, ClearTimer
<1>5. ASSUME NEW k \in Calls, k # c PROVE Good(k)'
  <2>1. KeepsCall(k)
    BY <1>5 DEF TypeOK, KeepsCall, AfterLeg, Resuming, ClearTimer
  <2>2. SameTask(k) /\ SameSweep
    BY <1>1, <1>5, ConstantFacts DEF SameTask, SameSweep, Busy, Resuming, At, Idle
  <2> QED
    BY <2>1, <2>2, <1>1, Untouched
<1>6. Good(c)'
  <2>1. Good(c)
    OBVIOUS
  <2>2. Life(c)'
    BY <1>1, ConstantFacts, <2>1
       DEF Life, OnRung, Over, Climbing, Unanswered, Good, Busy, Resuming, At, Idle
  <2>3. OnRung(c)'
    BY <1>1, ConstantFacts, <2>1
       DEF Life, OnRung, Over, StepTargets, Climbing, Unanswered, Good, Busy,
           Resuming, At, Idle
  <2>4. OnScreen(c)'
    BY <1>1, ConstantFacts, <2>1 DEF OnScreen, OnRung, Good, Busy, Resuming, At, Idle
  <2>5. Refusals(c)'
    BY <1>1, ConstantFacts, <2>1
       DEF Refusals, Life, Over, Climbing, Unanswered, Good, Busy, Resuming, At,
           Idle
  <2> QED
    BY <2>2, <2>3, <2>4, <2>5 DEF Good
<1> QED
  BY <1>4, <1>5, <1>6

LEMMA AfterEndedStep ==
  ASSUME TypeOK, \A k \in Calls : Good(k), NEW c \in Calls, AfterEnded(c)
  PROVE  TypeOK' /\ \A k \in Calls : Good(k)'
<1>1. /\ Resuming(c, "ended")
      /\ outcome'[c] = IF outcome[c] = "pending" THEN "answered" ELSE outcome[c]
      /\ answeredBy'[c] = answeredBy[c]
      /\ c \notin active'
      /\ frame' = Idle
      /\ KeepsLadder(c)
      /\ KeepsClimb(c)
      /\ KeepsRing(c)
      /\ KeepsTimers(c)
      /\ KeepsRefusals(c)
      /\ KeepsBound(c)
      /\ sweep' = sweep
  BY DEF TypeOK, AfterEnded, Resuming, Settle, Delete
<1>2. frame' \in {Idle} \cup Frames
  BY <1>1, LadderShape, ConstantFacts
     DEF TypeOK, Good, OnRung, Frames, EmitPoints, At, Resuming, Idle
<1>4. TypeOK'
  BY <1>2, ConstantFacts DEF TypeOK, AfterEnded, Resuming, Settle, Delete
<1>5. ASSUME NEW k \in Calls, k # c PROVE Good(k)'
  <2>1. KeepsCall(k)
    BY <1>5 DEF TypeOK, KeepsCall, AfterEnded, Resuming, Settle, Delete
  <2>2. SameTask(k) /\ SameSweep
    BY <1>1, <1>5, ConstantFacts DEF SameTask, SameSweep, Busy, Resuming, At, Idle
  <2> QED
    BY <2>1, <2>2, <1>1, Untouched
<1>6. Good(c)'
  <2>1. Good(c)
    OBVIOUS
  <2>2. Life(c)'
    BY <1>1, ConstantFacts, <2>1
       DEF Life, OnRung, Over, Climbing, Unanswered, Good, Busy, Resuming, At, Idle
  <2>3. OnRung(c)'
    BY <1>1, ConstantFacts, <2>1
       DEF Life, OnRung, Over, StepTargets, Climbing, Unanswered, Good, Busy,
           Resuming, At, Idle
  <2>4. OnScreen(c)'
    BY <1>1, ConstantFacts, <2>1 DEF OnScreen, OnRung, Good, Busy, Resuming, At, Idle
  <2>5. Refusals(c)'
    BY <1>1, ConstantFacts, <2>1
       DEF Refusals, Life, Over, Climbing, Unanswered, Good, Busy, Resuming, At,
           Idle
  <2> QED
    BY <2>2, <2>3, <2>4, <2>5 DEF Good
<1> QED
  BY <1>4, <1>5, <1>6

LEMMA AfterExhaustedStep ==
  ASSUME TypeOK, \A k \in Calls : Good(k), NEW c \in Calls, AfterExhausted(c)
  PROVE  TypeOK' /\ \A k \in Calls : Good(k)'
<1>1. /\ \/ /\ Resuming(c, "refused")
            /\ outcome'[c] = IF outcome[c] = "pending" THEN "declined" ELSE outcome[c]
         \/ /\ Resuming(c, "missed")
            /\ outcome'[c] = IF outcome[c] = "pending" THEN "missed" ELSE outcome[c]
      /\ answeredBy'[c] = answeredBy[c]
      /\ c \notin active'
      /\ frame' = Idle
      /\ KeepsLadder(c)
      /\ KeepsClimb(c)
      /\ KeepsRing(c)
      /\ KeepsTimers(c)
      /\ KeepsRefusals(c)
      /\ KeepsBound(c)
      /\ sweep' = sweep
  BY DEF TypeOK, AfterExhausted, Resuming, Settle, Delete
<1>2. frame' \in {Idle} \cup Frames
  BY <1>1, LadderShape, ConstantFacts
     DEF TypeOK, Good, OnRung, Frames, EmitPoints, At, Resuming, Idle
<1>4. TypeOK'
  BY <1>2, ConstantFacts DEF TypeOK, AfterExhausted, Resuming, Settle, Delete
<1>5. ASSUME NEW k \in Calls, k # c PROVE Good(k)'
  <2>1. KeepsCall(k)
    BY <1>5 DEF TypeOK, KeepsCall, AfterExhausted, Resuming, Settle, Delete
  <2>2. SameTask(k) /\ SameSweep
    BY <1>1, <1>5, ConstantFacts DEF SameTask, SameSweep, Busy, Resuming, At, Idle
  <2> QED
    BY <2>1, <2>2, <1>1, Untouched
<1>6. Good(c)'
  <2>1. Good(c)
    OBVIOUS
  <2>2. Life(c)'
    BY <1>1, ConstantFacts, <2>1
       DEF Life, OnRung, Over, Climbing, Unanswered, Good, Busy, Resuming, At, Idle
  <2>3. OnRung(c)'
    BY <1>1, ConstantFacts, <2>1
       DEF Life, OnRung, Over, StepTargets, Climbing, Unanswered, Good, Busy,
           Resuming, At, Idle
  <2>4. OnScreen(c)'
    BY <1>1, ConstantFacts, <2>1 DEF OnScreen, OnRung, Good, Busy, Resuming, At, Idle
  <2>5. Refusals(c)'
    BY <1>1, ConstantFacts, <2>1
       DEF Refusals, Life, Over, Climbing, Unanswered, Good, Busy, Resuming, At,
           Idle
  <2> QED
    BY <2>2, <2>3, <2>4, <2>5 DEF Good
<1> QED
  BY <1>4, <1>5, <1>6

LEMMA DelayElapsedStep ==
  ASSUME TypeOK, \A k \in Calls : Good(k), NEW c \in Calls, DelayElapsed(c)
  PROVE  TypeOK' /\ \A k \in Calls : Good(k)'
<1>1. /\ frame = Idle
      /\ timer[c] = "delay" /\ timer'[c] = "none" /\ reaper'[c] = reaper[c]
      /\ frame' = At("start", c, NoDevice, StepTargets(c))
      /\ KeepsLadder(c)
      /\ KeepsClimb(c)
      /\ KeepsRing(c)
      /\ KeepsResult(c)
      /\ KeepsRefusals(c)
      /\ KeepsBound(c)
      /\ sweep' = sweep
  BY DEF TypeOK, DelayElapsed, Quiet
<1>2. frame' \in {Idle} \cup Frames
  BY <1>1, LadderShape, ConstantFacts
     DEF TypeOK, Good, OnRung, Frames, EmitPoints, At, Resuming, Idle
<1>4. TypeOK'
  BY <1>2, ConstantFacts DEF TypeOK, DelayElapsed, Quiet
<1>5. ASSUME NEW k \in Calls, k # c PROVE Good(k)'
  <2>1. KeepsCall(k)
    BY <1>5 DEF TypeOK, KeepsCall, DelayElapsed, Quiet
  <2>2. SameTask(k) /\ SameSweep
    BY <1>1, <1>5, ConstantFacts DEF SameTask, SameSweep, Busy, Resuming, At, Idle
  <2> QED
    BY <2>1, <2>2, <1>1, Untouched
<1>6. Good(c)'
  <2>1. Good(c)
    OBVIOUS
  <2>2. Life(c)'
    BY <1>1, ConstantFacts, <2>1
       DEF Life, OnRung, Over, Climbing, Unanswered, Good, Busy, Resuming, At, Idle
  <2>3. OnRung(c)'
    BY <1>1, ConstantFacts, <2>1
       DEF Life, OnRung, Over, StepTargets, Climbing, Unanswered, Good, Busy,
           Resuming, At, Idle
  <2>4. OnScreen(c)'
    BY <1>1, ConstantFacts, <2>1 DEF OnScreen, OnRung, Good, Busy, Resuming, At, Idle
  <2>5. Refusals(c)'
    BY <1>1, ConstantFacts, <2>1
       DEF Refusals, Life, Over, Climbing, Unanswered, Good, Busy, Resuming, At,
           Idle
  <2> QED
    BY <2>2, <2>3, <2>4, <2>5 DEF Good
<1> QED
  BY <1>4, <1>5, <1>6

LEMMA AdvanceStep ==
  ASSUME TypeOK, \A k \in Calls : Good(k), NEW c \in Calls, Advance(c)
  PROVE  TypeOK' /\ \A k \in Calls : Good(k)'
<1>1. /\ frame = Idle
      /\ timer[c] = "ring" /\ timer'[c] = "none" /\ reaper'[c] = reaper[c]
      /\ ringing'[c] = ringing[c] \ StepTargets(c)
      /\ screen'[c] = screen[c] \ (StepTargets(c) \cap ringing[c])
      /\ cursor'[c] = cursor[c] + 1 /\ pass'[c] = pass[c] /\ declined'[c] = declined[c]
      /\ attempted'[c] = attempted[c]
      /\ frame' = At("runStep", c, NoDevice, {})
      /\ KeepsLadder(c)
      /\ KeepsResult(c)
      /\ KeepsRefusals(c)
      /\ KeepsBound(c)
      /\ sweep' = sweep
  BY DEF TypeOK, Advance, Quiet
<1>2. frame' \in {Idle} \cup Frames
  BY <1>1, LadderShape, ConstantFacts
     DEF TypeOK, Good, OnRung, Frames, EmitPoints, At, Resuming, Idle
<1>4. TypeOK'
  BY <1>2, ConstantFacts DEF TypeOK, Advance, Quiet
<1>5. ASSUME NEW k \in Calls, k # c PROVE Good(k)'
  <2>1. KeepsCall(k)
    BY <1>5 DEF TypeOK, KeepsCall, Advance, Quiet
  <2>2. SameTask(k) /\ SameSweep
    BY <1>1, <1>5, ConstantFacts DEF SameTask, SameSweep, Busy, Resuming, At, Idle
  <2> QED
    BY <2>1, <2>2, <1>1, Untouched
<1>6. Good(c)'
  <2>1. Good(c)
    OBVIOUS
  <2>2. Life(c)'
    BY <1>1, ConstantFacts, <2>1
       DEF Life, OnRung, Over, Climbing, Unanswered, Good, Busy, Resuming, At, Idle
  <2>3. OnRung(c)'
    BY <1>1, ConstantFacts, <2>1
       DEF Life, OnRung, Over, StepTargets, Climbing, Unanswered, Good, Busy,
           Resuming, At, Idle
  <2>4. OnScreen(c)'
    BY <1>1, ConstantFacts, <2>1 DEF OnScreen, OnRung, Good, Busy, Resuming, At, Idle
  <2>5. Refusals(c)'
    BY <1>1, ConstantFacts, <2>1
       DEF Refusals, Life, Over, Climbing, Unanswered, Good, Busy, Resuming, At,
           Idle
  <2> QED
    BY <2>2, <2>3, <2>4, <2>5 DEF Good
<1> QED
  BY <1>4, <1>5, <1>6

LEMMA ReapStep ==
  ASSUME TypeOK, \A k \in Calls : Good(k), NEW c \in Calls, Reap(c)
  PROVE  TypeOK' /\ \A k \in Calls : Good(k)'
<1>1. /\ frame = Idle
      /\ reaper[c] /\ reaper'[c] = FALSE /\ timer'[c] = timer[c]
      /\ c \notin active'
      /\ answeredBy'[c] = answeredBy[c] /\ outcome'[c] = outcome[c]
      /\ frame' = frame
      /\ KeepsLadder(c)
      /\ KeepsClimb(c)
      /\ KeepsRing(c)
      /\ KeepsRefusals(c)
      /\ KeepsBound(c)
      /\ sweep' = sweep
  BY DEF TypeOK, Reap, Quiet, Delete
<1>2. frame' \in {Idle} \cup Frames
  BY <1>1, LadderShape, ConstantFacts
     DEF TypeOK, Good, OnRung, Frames, EmitPoints, At, Resuming, Idle
<1>4. TypeOK'
  BY <1>2, ConstantFacts DEF TypeOK, Reap, Quiet, Delete
<1>5. ASSUME NEW k \in Calls, k # c PROVE Good(k)'
  <2>1. KeepsCall(k)
    BY <1>5 DEF TypeOK, KeepsCall, Reap, Quiet, Delete
  <2>2. SameTask(k) /\ SameSweep
    BY <1>1, <1>5, ConstantFacts DEF SameTask, SameSweep, Busy, Resuming, At, Idle
  <2> QED
    BY <2>1, <2>2, <1>1, Untouched
<1>6. Good(c)'
  <2>1. Good(c)
    OBVIOUS
  <2>2. Life(c)'
    BY <1>1, ConstantFacts, <2>1
       DEF Life, OnRung, Over, Climbing, Unanswered, Good, Busy, Resuming, At, Idle
  <2>3. OnRung(c)'
    BY <1>1, ConstantFacts, <2>1
       DEF Life, OnRung, Over, StepTargets, Climbing, Unanswered, Good, Busy,
           Resuming, At, Idle
  <2>4. OnScreen(c)'
    BY <1>1, ConstantFacts, <2>1 DEF OnScreen, OnRung, Good, Busy, Resuming, At, Idle
  <2>5. Refusals(c)'
    BY <1>1, ConstantFacts, <2>1
       DEF Refusals, Life, Over, Climbing, Unanswered, Good, Busy, Resuming, At,
           Idle
  <2> QED
    BY <2>2, <2>3, <2>4, <2>5 DEF Good
<1> QED
  BY <1>4, <1>5, <1>6

LEMMA AnswerStep ==
  ASSUME TypeOK, \A k \in Calls : Good(k), NEW c \in Calls, NEW d \in Devices, Answer(c, d)
  PROVE  TypeOK' /\ \A k \in Calls : Good(k)'
<1>1. /\ frame = Idle
      /\ c \in active /\ answeredBy[c] = NoDevice /\ d \in ringing[c]
      /\ timer'[c] = "none" /\ reaper'[c] = FALSE
      /\ answeredBy'[c] = d /\ outcome'[c] = outcome[c] /\ (c \in active' <=> c \in active)
      /\ ringing'[c] = {} /\ attempted'[c] = attempted[c]
      /\ screen'[c] = screen[c] \ ((ringing[c] \cap AllTargets(c)) \cup {d})
      /\ frame' = At("answered", c, d, {})
      /\ KeepsLadder(c)
      /\ KeepsClimb(c)
      /\ KeepsRefusals(c)
      /\ KeepsBound(c)
      /\ sweep' = sweep
  BY DEF TypeOK, Answer, Quiet, ClearTimer
<1>2. frame' \in {Idle} \cup Frames
  BY <1>1, LadderShape, ConstantFacts
     DEF TypeOK, Good, OnRung, Frames, EmitPoints, At, Resuming, Idle
<1>4. TypeOK'
  BY <1>2, ConstantFacts DEF TypeOK, Answer, Quiet, ClearTimer
<1>5. ASSUME NEW k \in Calls, k # c PROVE Good(k)'
  <2>1. KeepsCall(k)
    BY <1>5 DEF TypeOK, KeepsCall, Answer, Quiet, ClearTimer
  <2>2. SameTask(k) /\ SameSweep
    BY <1>1, <1>5, ConstantFacts DEF SameTask, SameSweep, Busy, Resuming, At, Idle
  <2> QED
    BY <2>1, <2>2, <1>1, Untouched
<1>6. Good(c)'
  <2>1. Good(c)
    OBVIOUS
  <2>2. Life(c)'
    BY <1>1, ConstantFacts, <2>1
       DEF Life, OnRung, Over, Climbing, Unanswered, Good, Busy, Resuming, At, Idle
  <2>3. OnRung(c)'
    BY <1>1, ConstantFacts, <2>1
       DEF Life, OnRung, Over, StepTargets, Climbing, Unanswered, Good, Busy,
           Resuming, At, Idle
  <2>6. ringing[c] \subseteq AllTargets(c)
    BY <2>1, LadderShape DEF Good, OnRung, StepTargets, AllTargets
  <2>4. OnScreen(c)'
    BY <1>1, ConstantFacts, <2>1, <2>6
       DEF OnScreen, OnRung, Good, Busy, Resuming, At, Idle
  <2>5. Refusals(c)'
    BY <1>1, ConstantFacts, <2>1
       DEF Refusals, Life, Over, Climbing, Unanswered, Good, Busy, Resuming, At,
           Idle
  <2> QED
    BY <2>2, <2>3, <2>4, <2>5 DEF Good
<1> QED
  BY <1>4, <1>5, <1>6

LEMMA DeclineStep ==
  ASSUME TypeOK, \A k \in Calls : Good(k), NEW c \in Calls, NEW d \in Devices, Decline(c, d)
  PROVE  TypeOK' /\ \A k \in Calls : Good(k)'
<1>1. /\ frame = Idle
      /\ c \in active /\ answeredBy[c] = NoDevice /\ d \in ringing[c]
      /\ declined'[c] = declined[c] \cup {d} /\ cursor'[c] = cursor[c] /\ pass'[c] = pass[c]
      /\ ringing'[c] = ringing[c] \ {d} /\ screen'[c] = screen[c] \ {d}
      /\ attempted'[c] = attempted[c]
      /\ refusals'[c] = refusals[c] \cup {<<d, pass[c]>>}
      /\ frame' = At("legOver", c, d, {})
      /\ KeepsLadder(c)
      /\ KeepsTimers(c)
      /\ KeepsResult(c)
      /\ KeepsBound(c)
      /\ sweep' = sweep
  BY DEF TypeOK, Decline, Quiet
<1>2. frame' \in {Idle} \cup Frames
  BY <1>1, LadderShape, ConstantFacts
     DEF TypeOK, Good, OnRung, Frames, EmitPoints, At, Resuming, Idle
<1>4. TypeOK'
  BY <1>2, ConstantFacts DEF TypeOK, Decline, Quiet
<1>5. ASSUME NEW k \in Calls, k # c PROVE Good(k)'
  <2>1. KeepsCall(k)
    BY <1>5 DEF TypeOK, KeepsCall, Decline, Quiet
  <2>2. SameTask(k) /\ SameSweep
    BY <1>1, <1>5, ConstantFacts DEF SameTask, SameSweep, Busy, Resuming, At, Idle
  <2> QED
    BY <2>1, <2>2, <1>1, Untouched
<1>6. Good(c)'
  <2>1. Good(c)
    OBVIOUS
  <2>2. Life(c)'
    BY <1>1, ConstantFacts, <2>1
       DEF Life, OnRung, Over, Climbing, Unanswered, Good, Busy, Resuming, At, Idle
  <2>3. OnRung(c)'
    BY <1>1, ConstantFacts, <2>1
       DEF Life, OnRung, Over, StepTargets, Climbing, Unanswered, Good, Busy,
           Resuming, At, Idle
  <2>4. OnScreen(c)'
    BY <1>1, ConstantFacts, <2>1 DEF OnScreen, OnRung, Good, Busy, Resuming, At, Idle
  <2>5. Refusals(c)'
    BY <1>1, ConstantFacts, <2>1
       DEF Refusals, Life, Over, Climbing, Unanswered, Good, Busy, Resuming, At,
           Idle
  <2> QED
    BY <2>2, <2>3, <2>4, <2>5 DEF Good
<1> QED
  BY <1>4, <1>5, <1>6

LEMMA EndedStep ==
  ASSUME TypeOK, \A k \in Calls : Good(k), NEW c \in Calls, NEW d \in Devices, Ended(c, d)
  PROVE  TypeOK' /\ \A k \in Calls : Good(k)'
<1>1. /\ frame = Idle
      /\ c \in active /\ answeredBy[c] = d
      /\ timer'[c] = "none" /\ reaper'[c] = FALSE
      /\ frame' = At("ended", c, d, {})
      /\ KeepsLadder(c)
      /\ KeepsClimb(c)
      /\ KeepsRing(c)
      /\ KeepsResult(c)
      /\ KeepsRefusals(c)
      /\ KeepsBound(c)
      /\ sweep' = sweep
  BY DEF TypeOK, Ended, Quiet, ClearTimer
<1>2. frame' \in {Idle} \cup Frames
  BY <1>1, LadderShape, ConstantFacts
     DEF TypeOK, Good, OnRung, Frames, EmitPoints, At, Resuming, Idle
<1>4. TypeOK'
  BY <1>2, ConstantFacts DEF TypeOK, Ended, Quiet, ClearTimer
<1>5. ASSUME NEW k \in Calls, k # c PROVE Good(k)'
  <2>1. KeepsCall(k)
    BY <1>5 DEF TypeOK, KeepsCall, Ended, Quiet, ClearTimer
  <2>2. SameTask(k) /\ SameSweep
    BY <1>1, <1>5, ConstantFacts DEF SameTask, SameSweep, Busy, Resuming, At, Idle
  <2> QED
    BY <2>1, <2>2, <1>1, Untouched
<1>6. Good(c)'
  <2>1. Good(c)
    OBVIOUS
  <2>2. Life(c)'
    BY <1>1, ConstantFacts, <2>1
       DEF Life, OnRung, Over, Climbing, Unanswered, Good, Busy, Resuming, At, Idle
  <2>3. OnRung(c)'
    BY <1>1, ConstantFacts, <2>1
       DEF Life, OnRung, Over, StepTargets, Climbing, Unanswered, Good, Busy,
           Resuming, At, Idle
  <2>4. OnScreen(c)'
    BY <1>1, ConstantFacts, <2>1 DEF OnScreen, OnRung, Good, Busy, Resuming, At, Idle
  <2>5. Refusals(c)'
    BY <1>1, ConstantFacts, <2>1
       DEF Refusals, Life, Over, Climbing, Unanswered, Good, Busy, Resuming, At,
           Idle
  <2> QED
    BY <2>2, <2>3, <2>4, <2>5 DEF Good
<1> QED
  BY <1>4, <1>5, <1>6

LEMMA PlaceStep ==
  ASSUME TypeOK, \A k \in Calls : Good(k), NEW c \in Calls, Place(c)
  PROVE  TypeOK' /\ \A k \in Calls : Good(k)'
<1>0. PICK l \in Ladders, r \in 0..MaxRepeat :
        /\ ladder' = [ladder EXCEPT ![c] = l]
        /\ repeat' = [repeat EXCEPT ![c] = r]
        /\ \/ /\ outcome' = [outcome EXCEPT ![c] = "failed"]
              /\ UNCHANGED <<active, frame>>
           \/ /\ outcome' = [outcome EXCEPT ![c] = "pending"]
              /\ active' = active \cup {c}
              /\ frame' = At("runStep", c, NoDevice, {})
  BY DEF Place
<1>1. /\ frame = Idle /\ sweep = NoSweep /\ outcome[c] = "unplaced"
      /\ bound' = [bound EXCEPT ![c] = online]
      /\ UNCHANGED <<climbVars, ringVars, timerVars, answeredBy, online, sweep, refusals>>
  BY DEF Place, Quiet
<1>2. frame' \in {Idle} \cup Frames
  BY <1>0, <1>1 DEF Frames, At
<1>3. TypeOK'
  BY <1>0, <1>1, <1>2 DEF TypeOK
<1>4. ASSUME NEW k \in Calls, k # c PROVE Good(k)'
  <2>1. KeepsCall(k)
    BY <1>0, <1>1, <1>4 DEF TypeOK, KeepsCall
  <2>2. SameTask(k) /\ SameSweep
    BY <1>0, <1>1, <1>4 DEF SameTask, SameSweep, Busy, At, Idle
  <2> QED
    BY <2>1, <2>2, Untouched
<1>5. Good(c)'
  <2>1. /\ ringing'[c] = {} /\ timer'[c] = "none" /\ answeredBy'[c] = NoDevice /\ ~reaper'[c]
        /\ screen'[c] = {} /\ declined'[c] = declined[c] /\ pass'[c] = pass[c]
        /\ refusals'[c] = refusals[c] /\ sweep' = NoSweep
    BY <1>1 DEF Good, Life, Over, OnScreen, Busy
  <2>2. \/ /\ outcome'[c] = "failed" /\ frame' = Idle
           /\ c \notin active'
        \/ /\ outcome'[c] = "pending" /\ frame' = At("runStep", c, NoDevice, {})
           /\ c \in active'
    BY <1>0, <1>1 DEF TypeOK, Good, Life
  <2>3. Life(c)' /\ OnRung(c)'
    BY <2>1, <2>2 DEF Life, OnRung, Over, Busy, At, Idle, Unanswered, Climbing
  <2>4. OnScreen(c)' /\ Refusals(c)'
    BY <2>1, <2>2, <1>1 DEF Good, OnScreen, Refusals, Busy, At, Idle
  <2> QED
    BY <2>3, <2>4 DEF Good
<1> QED
  BY <1>3, <1>4, <1>5

LEMMA SweepCallStep ==
  ASSUME TypeOK, \A k \in Calls : Good(k), NEW c \in Calls, SweepCall(c)
  PROVE  TypeOK' /\ \A k \in Calls : Good(k)'
<1> DEFINE d == sweep.dev
<1>1. /\ sweep \in [dev : Devices, todo : SUBSET Calls] /\ d \in Devices
      /\ sweep # NoSweep
  BY DEF TypeOK, SweepCall, NoSweep
<1>2. /\ frame = Idle
      /\ UNCHANGED <<ladderVars, climbVars, attempted, screen, answeredBy, outcome,
                     socketVars, refusals>>
  BY DEF SweepCall
<1>3. sweep' \in {NoSweep} \cup [dev : Devices, todo : SUBSET Calls] /\ SameSweep
  BY <1>1 DEF SweepCall, SameSweep
<1>4. \/ /\ answeredBy[c] = d /\ ClearTimer(c) /\ Delete(c)
         /\ UNCHANGED <<ringing, frame>>
      \/ /\ answeredBy[c] # d /\ d \in ringing[c]
         /\ ringing' = [ringing EXCEPT ![c] = @ \ {d}]
         /\ frame' = At("legOver", c, d, {})
         /\ UNCHANGED <<timerVars, active>>
      \/ UNCHANGED <<ringing, frame, timerVars, active>>
  BY DEF SweepCall
<1>5. TypeOK'
  <2>1. frame' \in {Idle} \cup Frames
    BY <1>1, <1>2, <1>4 DEF Frames, At, EmitPoints
  <2>2. /\ timer' \in [Calls -> {"none", "delay", "ring"}] /\ reaper' \in [Calls -> BOOLEAN]
        /\ active' \subseteq Calls /\ ringing' \in [Calls -> SUBSET Devices]
    <3>1. CASE answeredBy[c] = d /\ ClearTimer(c) /\ Delete(c) /\ UNCHANGED <<ringing, frame>>
      BY <3>1 DEF TypeOK, ClearTimer, Delete
    <3>2. CASE /\ ringing' = [ringing EXCEPT ![c] = @ \ {d}]
               /\ UNCHANGED <<timerVars, active>>
      BY <3>2 DEF TypeOK
    <3>3. CASE UNCHANGED <<ringing, frame, timerVars, active>>
      BY <3>3 DEF TypeOK
    <3> QED
      BY <1>4, <3>1, <3>2, <3>3
  <2> QED
    BY <1>2, <1>3, <2>1, <2>2 DEF TypeOK
<1>6. ASSUME NEW k \in Calls, k # c PROVE Good(k)'
  <2>1. KeepsCall(k)
    BY <1>2, <1>4, <1>6 DEF TypeOK, ClearTimer, Delete, KeepsCall
  <2>2. SameTask(k)
    BY <1>2, <1>4, <1>6 DEF SameTask, Busy, At, Idle
  <2> QED
    BY <2>1, <2>2, <1>3, Untouched
<1>7. Good(c)'
  <2>1. Good(c)
    OBVIOUS
  <2>2. CASE answeredBy[c] = d /\ ClearTimer(c) /\ Delete(c) /\ UNCHANGED <<ringing, frame>>
    <3>1. /\ timer'[c] = "none" /\ reaper'[c] = FALSE /\ c \notin active' /\ answeredBy[c] # NoDevice
          /\ ringing'[c] = ringing[c] /\ frame' = Idle
      BY <1>1, <1>2, <2>2, ConstantFacts DEF TypeOK, ClearTimer, Delete
    <3>2. Life(c)'
      BY <2>1, <1>2, <3>1 DEF Good, Life, Over, Busy
    <3>3. OnRung(c)'
      BY <2>1, <1>2, <3>1 DEF Good, Life, OnRung, Busy, StepTargets
    <3>4. OnScreen(c)' /\ Refusals(c)'
      BY <2>1, <1>2, <1>3, <3>1 DEF Good, OnScreen, SameSweep, Refusals, Busy
    <3> QED
      BY <3>2, <3>3, <3>4 DEF Good
  <2>3. CASE /\ answeredBy[c] # d /\ d \in ringing[c]
             /\ ringing' = [ringing EXCEPT ![c] = @ \ {d}]
             /\ frame' = At("legOver", c, d, {})
             /\ UNCHANGED <<timerVars, active>>
    <3>1. /\ ringing'[c] = ringing[c] \ {d} /\ frame' = At("legOver", c, d, {})
          /\ timer'[c] = timer[c] /\ reaper'[c] = reaper[c] /\ active' = active
      BY <2>3 DEF TypeOK
    <3>2. Life(c)'
      BY <2>1, <1>2, <2>3, <3>1
         DEF Good, Life, Over, Busy, At, Idle, Unanswered, Climbing
    <3>3. OnRung(c)'
      BY <2>1, <1>2, <2>3, <3>1
         DEF Good, Life, OnRung, Busy, StepTargets, At, Idle, Climbing
    <3>4. OnScreen(c)' /\ Refusals(c)'
      BY <2>1, <1>1, <1>2, <1>3, <3>1
         DEF Good, OnScreen, SameSweep, Refusals, Busy, At, Idle
    <3> QED
      BY <3>2, <3>3, <3>4 DEF Good
  <2>4. CASE UNCHANGED <<ringing, frame, timerVars, active>>
    <3>1. KeepsCall(c) /\ SameTask(c)
      BY <1>2, <2>4 DEF SameTask, KeepsCall
    <3> QED
      BY <3>1, <2>1, <1>3, Untouched
  <2> QED
    BY <1>4, <2>2, <2>3, <2>4
<1> QED
  BY <1>5, <1>6, <1>7

\* A device whose sockets are gone leaves every screen; the sweep that may
\* follow is about that device.
LEMMA HangUpStep ==
  ASSUME TypeOK, \A k \in Calls : Good(k), NEW d \in Devices, Quiet, HangUp(d),
         sweep' = NoSweep \/ sweep' \in [dev : {d}, todo : SUBSET Calls],
         online' \in SUBSET online, frame' = frame, refusals' = refusals,
         UNCHANGED <<ladderVars, climbVars, attempted, ringing, timerVars, resultVars>>
  PROVE  TypeOK' /\ \A k \in Calls : Good(k)'
<1>1. TypeOK'
  <2>1. screen' \in [Calls -> SUBSET Devices] /\ bound' \in [Calls -> SUBSET Devices]
    BY DEF TypeOK, HangUp
  <2> QED
    BY <2>1 DEF TypeOK
<1>2. ASSUME NEW k \in Calls PROVE Good(k)'
  <2>1. Good(k) /\ ~Busy(k) /\ ~Busy(k)'
    BY DEF Busy, Quiet
  <2>2. screen'[k] = screen[k] \ {d} /\ bound'[k] = bound[k] \ {d}
    BY DEF HangUp
  <2>3. Life(k)' /\ OnRung(k)' /\ Refusals(k)'
    BY <2>1 DEF Good, Life, Over, OnRung, Refusals, StepTargets
  <2>4. OnScreen(k)'
    BY <2>1, <2>2 DEF Good, OnScreen
  <2> QED
    BY <2>3, <2>4 DEF Good
<1> QED
  BY <1>1, <1>2

LEMMA CancelCallsStep ==
  ASSUME TypeOK, \A k \in Calls : Good(k), NEW cs \in SUBSET active, CancelCalls(cs),
         frame = Idle \/ ListenerCancels
  PROVE  TypeOK' /\ \A k \in Calls : Good(k)'
<1>1. TypeOK'
  <2>1. /\ timer' \in [Calls -> {"none", "delay", "ring"}] /\ reaper' \in [Calls -> BOOLEAN]
        /\ screen' \in [Calls -> SUBSET Devices] /\ ringing' \in [Calls -> SUBSET Devices]
        /\ active' \subseteq Calls
    BY DEF TypeOK, CancelCalls
  <2>2. outcome' \in [Calls -> {"unplaced", "pending", "failed", "answered", "declined",
                                "missed", "cancelled"}]
    BY DEF TypeOK, CancelCalls
  <2> QED
    BY <2>1, <2>2 DEF TypeOK, CancelCalls
<1>2. ASSUME NEW k \in Calls, k \notin cs PROVE Good(k)'
  <2>1. KeepsCall(k) /\ SameTask(k) /\ SameSweep
    BY <1>2 DEF CancelCalls, SameTask, SameSweep, KeepsCall
  <2> QED
    BY <2>1, Untouched
<1>3. ASSUME NEW k \in Calls, k \in cs PROVE Good(k)'
  <2>1. /\ timer'[k] = "none" /\ reaper'[k] = FALSE /\ ringing'[k] = {}
        /\ screen'[k] = screen[k] \ ringing[k]
        /\ outcome'[k] = IF outcome[k] = "pending" THEN "cancelled" ELSE outcome[k]
        /\ k \notin active'
        /\ answeredBy' = answeredBy /\ frame' = frame /\ sweep' = sweep
        /\ ladder' = ladder /\ cursor' = cursor /\ attempted' = attempted
        /\ declined' = declined /\ pass' = pass /\ refusals' = refusals /\ bound' = bound
    BY <1>3 DEF CancelCalls
  <2>2. Good(k) /\ k \in active
    BY <1>3
  <2>3. Life(k)'
    BY <2>1, <2>2 DEF Good, Life, Over, Busy, Unanswered, Climbing
  <2>4. OnRung(k)'
    BY <2>1, <2>2 DEF Good, OnRung, Life, Busy, StepTargets, Climbing
  <2>5. OnScreen(k)' /\ Refusals(k)'
    BY <2>1, <2>2 DEF Good, OnScreen, Refusals, Busy
  <2> QED
    BY <2>3, <2>4, <2>5 DEF Good
<1> QED
  BY <1>1, <1>2, <1>3

LEMMA InitGood == Init => IInv
<1> SUFFICES ASSUME Init PROVE IInv
  OBVIOUS
<1>1. TypeOK
  BY ConstantFacts DEF Init, TypeOK
<1>2. ASSUME NEW c \in Calls PROVE Life(c) /\ OnRung(c) /\ OnScreen(c) /\ Refusals(c)
  BY DEF Init, Life, OnRung, OnScreen, Refusals, Over, Busy
<1> QED
  BY <1>1, <1>2 DEF IInv

\* Every step of every actor keeps the inductive invariant.
LEMMA NextGood == IInv /\ [Next]_vars => IInv'
<1> SUFFICES ASSUME IInv, [Next]_vars PROVE TypeOK' /\ \A k \in Calls : Good(k)'
  BY DEF IInv, Good
<1> USE DEF Good
<1>1. TypeOK /\ \A k \in Calls : Good(k)
  BY DEF IInv
<1> HIDE DEF Good
<1>2. ASSUME NEW c \in Calls, Resume(c) PROVE TypeOK' /\ \A k \in Calls : Good(k)'
  <2>1. CASE RunStep(c)
    BY <2>1, <1>1, NextPassStep, SkipEmptyRungStep, StartRungStep, ExhaustedStep
       DEF RunStep
  <2>2. CASE Start(c)
    BY <2>2, <1>1, RingNextStep, ArmRingTimerStep DEF Start
  <2>3. CASE AfterAnswered(c) \/ AfterLeg(c) \/ AfterEnded(c) \/ AfterExhausted(c)
    BY <2>3, <1>1, AfterAnsweredStep, AfterLegStep, AfterEndedStep,
       AfterExhaustedStep
  <2>4. CASE SweepCall(c)
    BY <2>4, <1>1, SweepCallStep
  <2> QED
    BY <1>2, <2>1, <2>2, <2>3, <2>4 DEF Resume
<1>3. ASSUME NEW c \in Calls, TimerFires(c) PROVE TypeOK' /\ \A k \in Calls : Good(k)'
  BY <1>3, <1>1, DelayElapsedStep, AdvanceStep, ReapStep DEF TimerFires
<1>4. ASSUME NEW d \in Devices, Device(d) PROVE TypeOK' /\ \A k \in Calls : Good(k)'
  <2>1. ASSUME NEW c \in Calls, Answer(c, d) \/ Decline(c, d) \/ Ended(c, d)
        PROVE  TypeOK' /\ \A k \in Calls : Good(k)'
    BY <2>1, <1>1, AnswerStep, DeclineStep, EndedStep
  <2>2. CASE Dropped(d)
    <3>1. sweep' = NoSweep \/ sweep' \in [dev : {d}, todo : SUBSET Calls]
      BY <2>2, <1>1 DEF Dropped, TypeOK
    <3>2. /\ Quiet /\ HangUp(d) /\ online' \in SUBSET online
          /\ UNCHANGED <<ladderVars, climbVars, attempted, ringing, timerVars, resultVars,
                         frame, refusals>>
      BY <2>2 DEF Dropped
    <3> QED
      BY <3>1, <3>2, <1>1, HangUpStep
  <2>3. CASE SocketReplaced(d)
    <3>1. /\ Quiet /\ HangUp(d) /\ sweep' = NoSweep /\ online' \in SUBSET online
          /\ UNCHANGED <<ladderVars, climbVars, attempted, ringing, timerVars, resultVars,
                         frame, refusals>>
      BY <2>3 DEF SocketReplaced, Quiet
    <3> QED
      BY <3>1, <1>1, HangUpStep
  <2>4. CASE Reconnect(d)
    <3>1. TypeOK'
      BY <2>4, <1>1 DEF TypeOK, Reconnect
    <3>2. ASSUME NEW k \in Calls PROVE Good(k)'
      BY <2>4, <1>1, Untouched DEF Reconnect, SameTask, SameSweep, KeepsCall
    <3> QED
      BY <3>1, <3>2
  <2> QED
    BY <1>4, <2>1, <2>2, <2>3, <2>4 DEF Device
<1>5. CASE Application
  <2>1. ASSUME NEW c \in Calls, Place(c) PROVE TypeOK' /\ \A k \in Calls : Good(k)'
    BY <2>1, <1>1, PlaceStep
  <2>2. ASSUME NEW c \in Calls, Cancel(c) PROVE TypeOK' /\ \A k \in Calls : Good(k)'
    BY <2>2, <1>1, CancelCallsStep DEF Cancel, Quiet
  <2>3. ASSUME NEW c \in Calls, ListenerCancel(c) PROVE TypeOK' /\ \A k \in Calls : Good(k)'
    BY <2>3, <1>1, CancelCallsStep DEF ListenerCancel
  <2>4. CASE CancelAll
    BY <2>4, <1>1, CancelCallsStep DEF CancelAll, Quiet
  <2> QED
    BY <1>5, <2>1, <2>2, <2>3, <2>4 DEF Application
<1>6. CASE UNCHANGED vars
  <2>1. TypeOK'
    BY <1>6, <1>1 DEF TypeOK
  <2>2. ASSUME NEW k \in Calls PROVE Good(k)'
    BY <1>6, <1>1, Untouched DEF SameTask, SameSweep, KeepsCall
  <2> QED
    BY <2>1, <2>2
<1> QED
  BY <1>2, <1>3, <1>4, <1>5, <1>6 DEF Next

THEOREM Invariance == Spec => []IInv
BY InitGood, NextGood, PTL DEF Spec

\* Every variable of the orchestrator keeps its type, whatever the devices, the
\* timers, the sockets and the application do.
THEOREM TypeCorrect == Spec => []TypeOK
<1>1. IInv => TypeOK
  BY DEF IInv
<1> QED
  BY <1>1, Invariance, PTL

\* A call is in the map and unanswered exactly while its caller waits, and then
\* has a timer that will move it on (calls.ts 129-179, 246-288), even when a listener cancels calls in the middle of a handler.
THEOREM NoCallIsStranded == Spec => []NeverStranded
<1>1. IInv => NeverStranded
  BY DEF IInv, Life, WaitingIffActive, OnRung, NeverStranded, Moving
<1> QED
  BY <1>1, Invariance, PTL

\* No two rungs ring at once (calls.ts 182-197).
THEOREM RungsRingInTurn == Spec => []OneRungRings
<1>1. IInv => OneRungRings
  BY DEF IInv, OnRung, OnScreen, OneRungRings
<1> QED
  BY <1>1, Invariance, PTL

\* "Declined" means every device rung refused in the last pass (calls.ts
\* 137-142, 368-388).
THEOREM DeclinesAreUnanimous == Spec => []DeclinedIsUnanimous
<1>1. IInv => DeclinedIsUnanimous
  BY DEF IInv, Refusals, DeclinedIsUnanimous
<1> QED
  BY <1>1, Invariance, PTL

\* As long as the listener does not cancel calls from its callback, a settled
\* call rings nowhere (calls.ts 182-197, 199-216, 346-362).
THEOREM SettledCallsAreSilent == ~ListenerCancels => (Spec => []SilentOnceSettled)
<1>1. ~ListenerCancels /\ IInv => SilentOnceSettled
  <2> SUFFICES ASSUME ~ListenerCancels, IInv, NEW c \in Calls, ~Busy(c), Settled(c)
               PROVE  screen[c] = {}
    BY DEF SilentOnceSettled
  <2> QED
    BY DEF IInv, Life, Over, OnScreen, Settled
<1>2. CASE ListenerCancels
  BY <1>2
<1>3. CASE ~ListenerCancels
  <2>1. IInv => SilentOnceSettled
    BY <1>1, <1>3
  <2>2. Spec => []SilentOnceSettled
    BY <2>1, Invariance, PTL
  <2> QED
    BY <2>2
<1> QED
  BY <1>2, <1>3

(***************************************************************************)
(* The orchestrator keeps the promise made to the caller.                   *)
(***************************************************************************)
LEMMA SettleIsResolve ==
  ASSUME NEW c \in Calls, NEW o \in {"answered", "declined", "missed"}, TypeOK,
         outcome' = [outcome EXCEPT ![c] = IF @ = "pending" THEN o ELSE @],
         UNCHANGED <<attempted, answeredBy>>,
         outcome[c] = "pending" => (o = "answered" <=> answeredBy[c] # NoDevice)
  PROVE  [Promise!Next]_(Promise!vars)
<1>1. CASE outcome[c] = "pending"
  <2>1. outcome' = [k \in Calls |-> IF k \in {c} THEN o ELSE outcome[k]]
    BY <1>1 DEF TypeOK
  <2>2. Promise!Resolve({c}, o)
    BY <1>1, <2>1 DEF Promise!Resolve
  <2> QED
    BY <2>2 DEF Promise!Next, Promise!Outcomes
<1>2. CASE outcome[c] # "pending"
  <2>1. outcome' = outcome
    BY <1>2 DEF TypeOK
  <2> QED
    BY <2>1 DEF Promise!vars
<1> QED
  BY <1>1, <1>2

LEMMA CancelIsResolve ==
  ASSUME TypeOK, NEW cs \in SUBSET active, CancelCalls(cs)
  PROVE  [Promise!Next]_(Promise!vars)
<1> DEFINE waiting == {k \in cs : outcome[k] = "pending"}
<1>1. waiting \in SUBSET Calls /\ UNCHANGED <<attempted, answeredBy>>
  BY DEF TypeOK, CancelCalls
<1>2. outcome' = [k \in Calls |-> IF k \in waiting THEN "cancelled" ELSE outcome[k]]
  BY DEF CancelCalls
<1>3. CASE waiting = {}
  <2>1. outcome' = outcome
    BY <1>2, <1>3 DEF TypeOK
  <2> QED
    BY <1>1, <2>1 DEF Promise!vars
<1>4. CASE waiting # {}
  <2>1. Promise!Resolve(waiting, "cancelled")
    BY <1>1, <1>2, <1>4 DEF Promise!Resolve
  <2> QED
    BY <1>1, <2>1 DEF Promise!Next, Promise!Outcomes
<1> QED
  BY <1>3, <1>4

LEMMA PromiseStep == IInv /\ [Next]_vars => [Promise!Next]_(Promise!vars)
<1> SUFFICES ASSUME IInv, [Next]_vars PROVE [Promise!Next]_(Promise!vars)
  OBVIOUS
<1>0. TypeOK /\ \A c \in Calls : Life(c) /\ OnRung(c)
  BY DEF IInv
<1>1. CASE UNCHANGED <<outcome, attempted, answeredBy>>
  BY <1>1 DEF Promise!vars
<1>2. ASSUME NEW c \in Calls, Resume(c) PROVE [Promise!Next]_(Promise!vars)
  <2>1. CASE RunStep(c) \/ ArmRingTimer(c) \/ AfterLeg(c) \/ SweepCall(c)
    BY <2>1, <1>1
       DEF RunStep, NextPass, SkipEmptyRung, StartRung, Exhausted, ArmRingTimer,
           AfterLeg, SweepCall
  <2>2. ASSUME NEW d \in Devices, RingNext(c, d) PROVE [Promise!Next]_(Promise!vars)
    <3>1. Busy(c) /\ frame.at \in Unanswered
      BY <2>2, ConstantFacts DEF RingNext, Resuming, Busy, Idle, Unanswered, Climbing
    <3>2. outcome[c] \in {"pending", "cancelled"} /\ answeredBy[c] = NoDevice
      BY <1>0, <3>1 DEF Life
    <3> QED
      BY <2>2, <3>2 DEF RingNext, Promise!Ring, Promise!Next
  <2>3. CASE AfterAnswered(c)
    <3>1. Busy(c) /\ frame.at = "answered"
      BY <2>3, ConstantFacts DEF AfterAnswered, Resuming, Busy, Idle
    <3>2. answeredBy[c] # NoDevice
      BY <1>0, <3>1 DEF Life
    <3> QED
      BY <2>3, <3>2, <1>0, SettleIsResolve DEF AfterAnswered, Settle
  <2>4. CASE AfterEnded(c)
    <3>1. Busy(c) /\ frame.at = "ended"
      BY <2>4, ConstantFacts DEF AfterEnded, Resuming, Busy, Idle
    <3>2. answeredBy[c] # NoDevice
      BY <1>0, <3>1 DEF Life
    <3> QED
      BY <2>4, <3>2, <1>0, SettleIsResolve DEF AfterEnded, Settle
  <2>5. CASE AfterExhausted(c)
    <3>1. Busy(c) /\ frame.at \in {"refused", "missed"}
      BY <2>5, ConstantFacts DEF AfterExhausted, Resuming, Busy, Idle
    <3>2. answeredBy[c] = NoDevice
      BY <1>0, <3>1 DEF Life, Unanswered
    <3> QED
      BY <2>5, <3>2, <1>0, SettleIsResolve DEF AfterExhausted, Settle
  <2> QED
    BY <1>2, <2>1, <2>2, <2>3, <2>4, <2>5 DEF Resume, Start
<1>3. ASSUME NEW c \in Calls, TimerFires(c) PROVE [Promise!Next]_(Promise!vars)
  BY <1>3, <1>1 DEF TimerFires, DelayElapsed, Advance, Reap
<1>4. ASSUME NEW d \in Devices, Device(d) PROVE [Promise!Next]_(Promise!vars)
  <2>1. ASSUME NEW c \in Calls, Answer(c, d) PROVE [Promise!Next]_(Promise!vars)
    <3>1. ~Busy(c) /\ c \in active /\ answeredBy[c] = NoDevice /\ d \in ringing[c]
      BY <2>1 DEF Answer, Quiet, Busy
    <3>2. outcome[c] = "pending" /\ d \in attempted[c]
      BY <1>0, <3>1 DEF Life, OnRung
    <3> QED
      BY <2>1, <3>1, <3>2 DEF Answer, Promise!Take, Promise!Next
  <2>2. ASSUME NEW c \in Calls, Decline(c, d) \/ Ended(c, d)
        PROVE  [Promise!Next]_(Promise!vars)
    BY <2>2, <1>1 DEF Decline, Ended
  <2> QED
    BY <1>4, <1>1, <2>1, <2>2 DEF Device, Dropped, SocketReplaced, Reconnect
<1>5. CASE Application
  <2>1. ASSUME NEW c \in Calls, Place(c) PROVE [Promise!Next]_(Promise!vars)
    <3>1. Promise!Place(c)
      BY <2>1 DEF Place, Promise!Place
    <3> QED
      BY <3>1 DEF Promise!Next
  <2> QED
    BY <1>5, <1>0, <2>1, CancelIsResolve
       DEF Application, Cancel, CancelAll, ListenerCancel
<1> QED
  BY <1>1, <1>2, <1>3, <1>4, <1>5 DEF Next

\* The orchestrator implements CallPromise: whatever happens on the way, each
\* call gets one outcome and keeps it, only a device that was rung is reported
\* to have answered, and a call somebody took is never reported as unanswered.
THEOREM PromiseKept == Spec => KeepsPromise
<1>1. Init => Promise!Init
  BY DEF Init, Promise!Init
<1> QED
  BY <1>1, Invariance, PromiseStep, PTL DEF Spec, KeepsPromise, Promise!Spec
=============================================================================
