------------------------------ MODULE Ladders ------------------------------
(* From a call and the devices connected at that moment to the rungs the     *)
(* orchestrator rings (core/src/server.ts: call, buildLadder, callTargets,   *)
(* upsertPolicy).  Pure functions of the sessions, in the order the hub has  *)
(* them.  An optional value is a set of at most one element; a number that   *)
(* is no number is absent.                                                   *)
EXTENDS Targeting, SequencesExt

Or(option, fallback) == IF option = {} THEN fallback ELSE CHOOSE x \in option : TRUE
ClampNumber(n, low, high) == IF n < low THEN low ELSE IF n > high THEN high ELSE n
Clamped(option, low, high) == {ClampNumber(n, low, high) : n \in option}

MaxPolicySteps == 50
MaxRingSeconds == 600
MaxStepDelaySeconds == 3600
MaxPolicyRepeat == 10

-----------------------------------------------------------------------------
(* Policies *)

\* stringList(): an empty or unreadable list of a rung is no restriction.
StringList(list) == IF list.is = "list" /\ list.of # {} THEN list ELSE Absent
SanitizeStep(step) ==
  [ring |-> Clamped(step.ring, 1, MaxRingSeconds), delay |-> Clamped(step.delay, 0, MaxStepDelaySeconds),
   to |-> [devices |-> StringList(step.to.devices), roles |-> StringList(step.to.roles)]]
\* sanitizePolicy(), for a policy that has a step
SanitizePolicy(policy) ==
  [steps |-> [i \in 1..ClampNumber(Len(policy.steps), 1, MaxPolicySteps) |-> SanitizeStep(policy.steps[i])],
   repeat |-> Or(Clamped(policy.repeat, 0, MaxPolicyRepeat), 0)]

-----------------------------------------------------------------------------
(* Who can be rung *)

Awake(s, tolerance) == s.silentFor <= tolerance
AllowedCall(s, req, hour) ==
  /\ ~(s.snoozed /\ req.severity # "critical")
  /\ CanDeliver(s.role, s.device, req, TRUE, hour)
\* Most recently used first; a device never used, by when it was last seen
RankOf(s) == Or(s.lastActiveAt, Or(s.lastSeenAt, 0))
\* callTargets(): each device once, by the first of its sessions that qualifies
CallTargets(sessions, req, extra, world) ==
  LET fit == {i \in DOMAIN sessions :
               /\ sessions[i].state = "ready" /\ Awake(sessions[i], world.tolerance)
               /\ AllowedCall(sessions[i], req, world.hour)
               /\ MatchesTargeting(extra, sessions[i].device, sessions[i].role.name)}
      first == {i \in fit : \A j \in fit : sessions[j].device = sessions[i].device => i <= j}
      before(i, j) == \/ RankOf(sessions[i]) > RankOf(sessions[j])
                      \/ RankOf(sessions[i]) = RankOf(sessions[j]) /\ i < j
      order == SetToSortSeq(first, before)
  IN [n \in DOMAIN order |-> sessions[order[n]].device]

-----------------------------------------------------------------------------
(* The ladder *)

\* buildCall()
RingSecondsOf(req, world) == Or(Clamped(req.ring, 1, MaxRingSeconds), world.defaultRing)
StepOf(targets, ring, delay) == [targets |-> targets, ringSeconds |-> ring, delaySeconds |-> delay]
\* buildLadder(): a policy's rungs, everybody at once, or one device after another
BuildLadder(sessions, req, policy, world) ==
  LET ring == RingSecondsOf(req, world)
      targets == CallTargets(sessions, req, Anyone, world)
      rung(step) == StepOf(CallTargets(sessions, req, step.to, world), Or(step.ring, ring), Or(step.delay, 0))
  IN IF policy # {}
     THEN LET steps == SanitizePolicy(Or(policy, {})).steps IN [i \in DOMAIN steps |-> rung(steps[i])]
     ELSE IF ~req.escalate THEN <<StepOf(targets, ring, 0)>>
     ELSE [i \in DOMAIN targets |-> StepOf(<<targets[i]>>, ring, 0)]

\* What the orchestrator tells apart of a rung
RungOf(step) == [targets |-> ToSet(step.targets), delayed |-> step.delaySeconds > 0]
LadderOf(steps) == [i \in DOMAIN steps |-> RungOf(steps[i])]
=============================================================================
