------------------------- MODULE MCCallOrchestrator -------------------------
(* Small ladders for the call orchestrator, built as the hub builds them     *)
(* from calls, policies and the sessions of two devices: one after another,  *)
(* all at once, an empty rung, a delayed rung, a policy that names a device  *)
(* twice, and nobody to ring.                                                *)
EXTENDS CallOrchestratorProps

CONSTANTS d1, d2

L == INSTANCE Ladders

OnCall == [name |-> "oncall", can |-> {"call.receive"}, minSeverity |-> "warning", quiet |-> {[start |-> 22, end |-> 7]},
           channels |-> {[negated |-> FALSE, body |-> <<"*">>], [negated |-> TRUE, body |-> <<"t", "*">>]}]
Viewer == [OnCall EXCEPT !.name = "viewer", !.can = {"notify.receive"}]
SessionOf(d, role, used, seen) ==
  [state |-> "ready", device |-> d, role |-> role, snoozed |-> FALSE, silentFor |-> 1,
   lastActiveAt |-> used, lastSeenAt |-> seen]

\* The phone in use has two sockets; the tablet was seen later and never used.
Both == << SessionOf(d2, OnCall, {}, {5}), SessionOf(d1, OnCall, {7}, {4}), SessionOf(d1, OnCall, {7}, {4}) >>
World(hour) == [tolerance |-> 2, defaultRing |-> 30, hour |-> hour]
Page == [channel |-> <<"d", "b">>, severity |-> "critical", to |-> L!Anyone, ring |-> {}, escalate |-> TRUE]

Only(ds) == [devices |-> L!List(ds), roles |-> L!Absent]
Nobody == [devices |-> L!Absent, roles |-> L!List({"nobody"})]
Step(to, delay) == [to |-> to, ring |-> {}, delay |-> {delay}]
Policy(steps) == {[steps |-> steps, repeat |-> {1}]}

Built(req, policy) == L!LadderOf(L!BuildLadder(Both, req, policy, World(12)))

OneCallLadders ==
  { Built(Page, {}),                                                          \* escalation
    Built([Page EXCEPT !.escalate = FALSE], {}),                              \* broadcast
    Built(Page, Policy(<<Step(Nobody, 0), Step(L!Anyone, 60)>>)),             \* an empty rung, then a delayed one
    Built(Page, Policy(<<Step(Only({d1}), 0), Step(L!Anyone, 60)>>)),         \* the same device on two rungs
    Built(Page, Policy(<<Step(Nobody, 0), Step(Nobody, 0)>>)),                \* a policy that reaches nobody
    Built([Page EXCEPT !.channel = <<"t">>], {}) }                            \* nobody at all

TwoCallLadders ==
  { Built(Page, {}), Built([Page EXCEPT !.escalate = FALSE], {}),
    Built(Page, Policy(<<Step(Only({d2}), 60)>>)) }

-----------------------------------------------------------------------------
(* The walk of globMatch() is the meaning of a pattern: some way to give     *)
(* each `*` a stretch of the value (rbac.ts: globMatch).                     *)
RECURSIVE Covers(_, _)
Covers(p, v) ==
  IF p = <<>> THEN v = <<>>
  ELSE IF Head(p) = "*" THEN \E n \in 0..Len(v) : Covers(Tail(p), SubSeq(v, n + 1, Len(v)))
  ELSE v # <<>> /\ Head(p) = Head(v) /\ Covers(Tail(p), Tail(v))
Words(letters, n) == UNION {[1..k -> letters] : k \in 0..n}
ASSUME GlobIsRight ==
  \A p \in Words({"a", "b", "*"}, 4), v \in Words({"a", "b"}, 4) : L!GlobMatch(p, v) <=> Covers(p, v)

(* However the sessions are, a ladder rings exactly the devices that are     *)
(* there, awake and entitled, each once on a rung; broadcast and escalation  *)
(* ring the same devices, and a policy never widens the call                 *)
(* (server.ts: callTargets, buildLadder).                                    *)
Sockets == {[SessionOf(d, role, used, {3}) EXCEPT !.state = state, !.silentFor = silent, !.snoozed = snoozed] :
  d \in {d1, d2}, role \in {OnCall, Viewer}, used \in {{}, {9}}, state \in {"ready", "open"},
  silent \in {0, 9}, snoozed \in BOOLEAN}
Pages == {[Page EXCEPT !.severity = severity, !.to = to, !.escalate = escalate] :
  severity \in {"info", "warning", "critical"}, to \in {L!Anyone, Only({d1})}, escalate \in BOOLEAN}
RungDevices(steps) == UNION {L!RungOf(steps[i]).targets : i \in DOMAIN steps}
ASSUME LaddersAreRight ==
  \A s, t \in Sockets, req \in Pages, hour \in {12, 23} :
    LET rungs(policy, escalate) == L!BuildLadder(<<s, t>>, [req EXCEPT !.escalate = escalate], policy, World(hour))
        everyone == RungDevices(rungs({}, FALSE))
    IN /\ L!SanitizeTargeting(req.to)
       /\ everyone = RungDevices(rungs({}, TRUE))
       /\ RungDevices(rungs(Policy(<<Step(Only({d2}), 1), Step(L!Anyone, 0)>>), TRUE)) = everyone
       /\ everyone = {x.device : x \in {y \in {s, t} :
            /\ y.state = "ready" /\ y.silentFor <= 2 /\ y.role = OnCall /\ (req.to = L!Anyone \/ y.device = d1)
            /\ req.severity = "critical" \/ (req.severity = "warning" /\ ~y.snoozed /\ hour = 12)}}
       /\ \A i \in DOMAIN rungs({}, FALSE) : LET ds == rungs({}, FALSE)[i].targets IN Len(ds) = Cardinality(everyone)
=============================================================================
