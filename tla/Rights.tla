------------------------------- MODULE Rights -------------------------------
(* Who may do what on a hub, and hand it out: roles, the devices, pairing    *)
(* codes and ingest tokens that point at them, the copy of its role each     *)
(* session works with, and the administration over the wire (server.ts,      *)
(* protocol/src/rbac.ts, ingest.ts).  A handler runs to its end before       *)
(* another frame is read, so each operation is one step; what a handshake    *)
(* goes through before is Sessions'.  Channels, severities and quiet hours   *)
(* narrow what a role sees and are left out: they give nobody any authority. *)
(* Operators named X_Fault are faults of X the properties must reveal.       *)
EXTENDS Integers, FiniteSets

CONSTANTS
  RoleNames,        \* role names
  Devices,
  Top, Boss,    \* the role that is there first, with `admin`, and the device that has it
  Caps,         \* the capabilities told apart
  Receiving,    \* those that only place a device in the fan-out
  NoRole,
  MaxOut        \* bound on the codes and tokens that are out at once

ASSUME RightsConstants ==
  /\ Top \in RoleNames /\ Boss \in Devices /\ NoRole \notin RoleNames
  /\ {"admin", "devices.manage", "roles.manage"} \subseteq Caps \ Receiving
  /\ MaxOut \in Nat

VARIABLES
  roles,        \* the store's roles: a function from the names there are
  member,       \* the role of each active device
  session,      \* session.role of each device that is online
  codes,        \* roles pairing codes are out for
  tokens,       \* roles ingest tokens publish with
  given         \* history: capabilities the operator, or an administrator, has handed out
rightsVars == <<roles, member, session, codes, tokens, given>>

\* A Map's set()
Put(f, x, v) == [y \in DOMAIN f \cup {x} |-> IF y = x THEN v ELSE f[y]]

Members == {d \in Devices : member[d] # NoRole}
Online == DOMAIN session
RightsInit ==
  /\ roles = [r \in {Top} |-> {"admin"}]
  /\ member = [d \in Devices |-> IF d = Boss THEN Top ELSE NoRole]
  /\ session = <<>> /\ codes = {} /\ tokens = {} /\ given = {}

-----------------------------------------------------------------------------
(* rbac.ts *)
Privileged(c) == c \notin Receiving
HasCapability(S, c) == "admin" \in S \/ c \in S
EscalatingCapabilities(S, wanted) ==
  IF "admin" \in S THEN {} ELSE {c \in wanted : Privileged(c) /\ ~HasCapability(S, c)}
MayGrant_AllButAdmin(S, c) == c # "admin" \/ "admin" \in S
MayGrant(S, c) == "admin" \in S \/ ~Privileged(c) \/ c \in S

\* A live session's role follows the store's.
WithRole(d, r) == IF d \in Online THEN [session EXCEPT ![d] = roles'[r]] ELSE session
Refreshed(r) == [d \in Online |-> IF member[d] = r THEN roles'[r] ELSE session[d]]

\* What one who holds `admin` hands out is given; so is what the application does.
Gives(S, caps) == given' = IF "admin" \in S THEN given \cup caps ELSE given

-----------------------------------------------------------------------------
\* handlePair, handleAuth, promote
Pair(d, r) ==
  /\ d \notin Members /\ r \in codes /\ r \in DOMAIN roles
  /\ codes' = codes \ {r}
  /\ member' = [member EXCEPT ![d] = r]
  /\ session' = Put(session, d, roles[r])
  /\ UNCHANGED <<roles, tokens, given>>
Auth(d) ==
  /\ d \in Members \ Online /\ member[d] \in DOMAIN roles
  /\ session' = Put(session, d, roles[member[d]])
  /\ UNCHANGED <<roles, member, codes, tokens, given>>
Leave(d) ==
  /\ d \in Online /\ session' = [x \in Online \ {d} |-> session[x]]
  /\ UNCHANGED <<roles, member, codes, tokens, given>>

\* The application that embeds the hub owns it: upsertRole with everything granted.
ApplicationUpserts(r, caps) ==
  /\ roles' = Put(roles, r, caps) /\ session' = Refreshed(r)
  /\ given' = given \cup caps
  /\ UNCHANGED <<member, codes, tokens>>

-----------------------------------------------------------------------------
(* handleAdmin, for the actor a *)

\* What each operation that changes who may do what asks for
DeviceOps ==
  {"devices.revoke", "devices.setRole", "pair.create", "pair.revoke", "ingest.create", "ingest.revoke"}
AdminCapability ==
  [op \in DeviceOps \cup {"roles.upsert", "roles.delete"} |->
     IF op \in DeviceOps THEN "devices.manage" ELSE "roles.manage"]
Allowed(a, op) == a \in Online /\ HasCapability(session[a], AdminCapability[op])
AssertMayGrantRole(a, r) ==
  r \in DOMAIN roles /\ EscalatingCapabilities(session[a], roles[r]) = {}
MayHandOut == Cardinality(codes) + Cardinality(tokens) < MaxOut

\* sanitizeRole()
Sanitized(S, wanted) == {c \in wanted : MayGrant(S, c)}
\* roles.upsert: no role whose rights the actor does not hold is rewritten
Upsert(a, r, wanted) ==
  /\ Allowed(a, "roles.upsert")
  /\ r \in DOMAIN roles => EscalatingCapabilities(session[a], roles[r]) = {}
  /\ LET next == Sanitized(session[a], wanted) IN
     /\ roles' = Put(roles, r, next)
     /\ Gives(session[a], next)
  /\ session' = Refreshed(r)
  /\ UNCHANGED <<member, codes, tokens>>
\* roles.delete
DeleteRole(a, r) ==
  /\ Allowed(a, "roles.delete") /\ r \in DOMAIN roles
  /\ \A d \in Members : member[d] # r
  /\ roles' = [x \in DOMAIN roles \ {r} |-> roles[x]]
  /\ UNCHANGED <<member, session, codes, tokens, given>>
\* devices.setRole
SetRole(a, d, r) ==
  /\ Allowed(a, "devices.setRole") /\ AssertMayGrantRole(a, r) /\ d \in Members
  /\ member' = [member EXCEPT ![d] = r]
  /\ UNCHANGED <<roles, codes, tokens>>
  /\ session' = WithRole(d, r)
  /\ Gives(session[a], roles[r])
\* devices.revoke
Revoke(a, d) ==
  /\ Allowed(a, "devices.revoke") /\ d \in Members
  /\ member' = [member EXCEPT ![d] = NoRole]
  /\ session' = [x \in Online \ {d} |-> session[x]]
  /\ UNCHANGED <<roles, codes, tokens, given>>
\* pair.create, pair.revoke
CreateCode(a, r) ==
  /\ Allowed(a, "pair.create") /\ AssertMayGrantRole(a, r) /\ MayHandOut
  /\ codes' = codes \cup {r} /\ Gives(session[a], roles[r])
  /\ UNCHANGED <<roles, member, session, tokens>>
DropCode(a, r) ==
  /\ Allowed(a, "pair.revoke") /\ r \in codes /\ codes' = codes \ {r}
  /\ UNCHANGED <<roles, member, session, tokens, given>>
\* ingest.create, ingest.revoke
CreateIngestToken(a, r) ==
  /\ Allowed(a, "ingest.create") /\ AssertMayGrantRole(a, r) /\ MayHandOut
  /\ tokens' = tokens \cup {r} /\ Gives(session[a], roles[r])
  /\ UNCHANGED <<roles, member, session, codes>>
RevokeIngestToken(a, r) ==
  /\ Allowed(a, "ingest.revoke") /\ r \in tokens /\ tokens' = tokens \ {r}
  /\ UNCHANGED <<roles, member, session, codes, given>>

RightsNext ==
  \/ \E d \in Devices : Auth(d) \/ Leave(d) \/ \E r \in RoleNames : Pair(d, r)
  \/ \E r \in RoleNames : \E caps \in SUBSET Caps : ApplicationUpserts(r, caps)
  \/ \E a \in Online : \E r \in RoleNames :
       \/ DeleteRole(a, r) \/ CreateCode(a, r) \/ DropCode(a, r)
       \/ CreateIngestToken(a, r) \/ RevokeIngestToken(a, r)
       \/ \E caps \in SUBSET Caps : Upsert(a, r, caps)
       \/ \E d \in Devices : SetRole(a, d, r)
  \/ \E a \in Online : \E d \in Devices : Revoke(a, d)

RightsSpec == RightsInit /\ [][RightsNext]_rightsVars

-----------------------------------------------------------------------------
RightsTypeOK ==
  /\ DOMAIN roles \subseteq RoleNames /\ \A r \in DOMAIN roles : roles[r] \subseteq Caps
  /\ member \in [Devices -> RoleNames \cup {NoRole}]
  /\ Online \subseteq Members /\ \A d \in Online : session[d] \subseteq Caps
  /\ codes \cup tokens \subseteq RoleNames /\ given \subseteq Caps

\* Least privilege "cannot be widened from inside": however the operations follow one another,
\* no device but the first administrator, and no ingest token, has a privileged capability
\* that nobody in authority handed out (sanitizeRole, assertMayGrantRole, roles.upsert).
Reachable == {roles[r] : r \in DOMAIN roles \cap (tokens \cup {member[d] : d \in Members \ {Boss}})}
NoEscalation ==
  \A S \in Reachable \cup {session[d] : d \in Online \ {Boss}} :
    \A c \in S : Privileged(c) => c \in given

\* A live session works with its device's role as it now is: no edit, move or deletion leaves
\* one with rights that are gone (upsertRole, setDeviceRole, deleteRole, promote).
RightsCurrent == \A d \in Online : member[d] \in DOMAIN roles /\ session[d] = roles[member[d]]
=============================================================================
