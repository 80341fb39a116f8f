----------------------------- MODULE Targeting -----------------------------
(* Who an alert or a call is for (protocol/src/rbac.ts and the boundary of   *)
(* core/src/server.ts): channel patterns, severities, quiet hours and        *)
(* explicit restrictions.  Pure functions.  Names are compared without their *)
(* case; a channel or a pattern is a sequence of letters.                    *)
EXTENDS Integers, Sequences, FiniteSets

Severities == <<"debug", "info", "success", "warning", "error", "critical">>
SeverityRank(s) == CHOOSE i \in DOMAIN Severities : Severities[i] = s

\* globMatch(): one walk over the value, with the last `*` to fall back to
GlobMatch(p, v) ==
  LET walk[pi \in 1..Len(p) + 1, vi \in 1..Len(v) + 1, star \in 0..Len(p), mark \in 1..Len(v) + 1] ==
        IF vi > Len(v) THEN \A i \in pi..Len(p) : p[i] = "*"
        ELSE IF pi <= Len(p) /\ p[pi] = "*" THEN walk[pi + 1, vi, pi, vi]
        ELSE IF pi <= Len(p) /\ p[pi] = v[vi] THEN walk[pi + 1, vi + 1, star, mark]
        ELSE star > 0 /\ walk[star + 1, mark + 1, star, mark + 1]
  IN walk[1, 1, 0, 1]

\* channelMatches(): exclusions always win.
ChannelMatches(patterns, channel) ==
  LET hits == {p \in patterns : GlobMatch(p.body, channel)}
  IN hits # {} /\ \A p \in hits : ~p.negated

\* Hours of the day; a window may wrap past midnight.
InQuietHours(q, hour) ==
  IF q.start <= q.end THEN hour >= q.start /\ hour < q.end ELSE hour >= q.start \/ hour < q.end

-----------------------------------------------------------------------------
(* A restriction is a pair of lists, each of which may be absent, or of a    *)
(* shape that cannot be read.                                                *)
Absent == [is |-> "absent"]
List(S) == [is |-> "list", of |-> S]
Malformed == [is |-> "malformed"]
Anyone == [devices |-> Absent, roles |-> Absent]

Meets(list, x) == list.is = "absent" \/ (list.is = "list" /\ (list.of = {} \/ x \in list.of))
MatchesTargeting(to, device, role) == Meets(to.devices, device) /\ Meets(to.roles, role)

\* sanitizeTargeting(): what cannot be read, or names too many, is refused where it comes in.
MaxTargets == 200
SanitizeTargeting(to) ==
  \A list \in {to.devices, to.roles} :
    list.is = "absent" \/ (list.is = "list" /\ Cardinality(list.of) <= MaxTargets)

\* canDeliver(); `quiet` is a set of at most one window.
CanDeliver(role, device, req, isCall, hour) ==
  /\ role.can \cap {"admin", IF isCall THEN "call.receive" ELSE "notify.receive"} # {}
  /\ SeverityRank(req.severity) >= SeverityRank(role.minSeverity)
  /\ ChannelMatches(role.channels, req.channel)
  /\ MatchesTargeting(req.to, device, role.name)
  /\ isCall /\ req.severity # "critical" => \A q \in role.quiet : ~InQuietHours(q, hour)
=============================================================================
