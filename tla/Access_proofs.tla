--------------------------- MODULE Access_proofs ---------------------------
(* Proofs about who may do what: delegated rights, and tokens over HTTP.      *)
EXTENDS Rights, Ingest, TLAPS

----------------------------------------------------------------------------
(* Delegated rights, for any roles, devices and capabilities: however pairing, *)
(* role edits, moves, codes and tokens follow one another, nobody but the      *)
(* first administrator comes by a privileged capability that was not handed    *)
(* out by somebody with `admin`.                                               *)

Priv(caps) == {c \in caps : Privileged(c)}

RightsShape ==
  /\ DOMAIN roles \subseteq RoleNames
  /\ member \in [Devices -> RoleNames \cup {NoRole}]
  /\ Online \subseteq Devices /\ codes \subseteq RoleNames /\ tokens \subseteq RoleNames

\* Every role's privileged capabilities were handed out, but for an `admin` that was there first ...
RolesAreGiven == \A r \in DOMAIN roles : Priv(roles[r]) \subseteq given \cup {"admin"}
\* ... and that one is out of reach: no device but Boss, no code and no token points at it.
Outside == codes \cup tokens \cup {member[d] : d \in Devices \ {Boss}}
AdminIsGiven == \A r \in DOMAIN roles \cap Outside : "admin" \in roles[r] => "admin" \in given

\* What a session may do is its device's role as it is now, so it is given as well.
RightsInv == RightsShape /\ RightsCurrent /\ RolesAreGiven /\ AdminIsGiven

LEMMA AdminIsPrivileged == Privileged("admin") /\ NoRole \notin RoleNames
BY RightsConstants DEF RightsConstants, Privileged

LEMMA RightsStart == RightsInit => RightsInv
<1> SUFFICES ASSUME RightsInit PROVE RightsInv
  OBVIOUS
<1> USE RightsConstants DEF RightsInit, RightsConstants
<1>1. roles = [x \in {Top} |-> {"admin"}] /\ DOMAIN roles = {Top}
  OBVIOUS
<1>2. Online = {}
  BY DEF Online
<1>3. RightsShape
  BY <1>1, <1>2 DEF RightsShape
<1>4. RightsCurrent
  BY <1>2 DEF RightsCurrent
<1>5. RolesAreGiven
  BY <1>1 DEF RolesAreGiven, Priv
<1>6. AdminIsGiven
  BY <1>1 DEF AdminIsGiven, Outside
<1> QED
  BY <1>3, <1>4, <1>5, <1>6 DEF RightsInv

\* An actor's privileged capabilities are given, but for `admin`.
LEMMA ActorsHaveWhatIsGiven ==
  ASSUME RightsInv, NEW a \in Online
  PROVE  Priv(session[a]) \subseteq given \cup {"admin"}
BY DEF RightsInv, RightsCurrent, RolesAreGiven

\* Who asks to hand out all of a role has `admin`, and then it is given, or has all of it.
LEMMA HandingOut ==
  ASSUME RightsInv, NEW a \in Online, NEW r \in DOMAIN roles,
         EscalatingCapabilities(session[a], roles[r]) = {}, Gives(session[a], roles[r])
  PROVE  given \subseteq given' /\ ("admin" \in roles[r] => "admin" \in given')
BY AdminIsPrivileged DEF EscalatingCapabilities, Gives, HasCapability

\* Pointing somebody at a role that is handed out keeps the invariant.
LEMMA PointingKeeps ==
  ASSUME RightsInv, NEW a \in Online, NEW r, AssertMayGrantRole(a, r), Gives(session[a], roles[r]),
         roles' = roles, Outside' \subseteq Outside \cup {r}
  PROVE  RolesAreGiven' /\ AdminIsGiven'
<1> r \in DOMAIN roles /\ EscalatingCapabilities(session[a], roles[r]) = {}
  BY DEF AssertMayGrantRole
<1>1. given \subseteq given' /\ ("admin" \in roles[r] => "admin" \in given')
  BY HandingOut
<1> QED
  BY <1>1 DEF RightsInv, RolesAreGiven, AdminIsGiven

\* A role is written with capabilities that are given, or were its writer's.
LEMMA WritingKeeps ==
  ASSUME RightsInv, NEW r \in RoleNames, NEW caps, roles' = Put(roles, r, caps),
         given \subseteq given', Priv(caps) \subseteq given',
         session' = Refreshed(r), UNCHANGED <<member, codes, tokens>>
  PROVE  RightsInv'
<1> USE DEF RightsInv
<1>1. /\ DOMAIN roles' = DOMAIN roles \cup {r}
      /\ roles'[r] = caps
      /\ \A x \in DOMAIN roles \ {r} : roles'[x] = roles[x]
  BY DEF Put
<1>2. Online' = Online /\ \A d \in Online : session'[d] = IF member[d] = r THEN roles'[r] ELSE session[d]
  BY DEF Online, Refreshed
<1>3. RightsShape'
  BY <1>1, <1>2 DEF RightsShape
<1>4. RightsCurrent'
  BY <1>1, <1>2 DEF RightsCurrent
<1>5. RolesAreGiven'
  BY <1>1 DEF RolesAreGiven
<1>6. AdminIsGiven'
  <2> SUFFICES ASSUME NEW x \in DOMAIN roles' \cap Outside', "admin" \in roles'[x] PROVE "admin" \in given'
    BY DEF AdminIsGiven
  <2>1. Outside' = Outside
    BY DEF Outside
  <2>2. CASE x = r
    BY <1>1, <2>2, AdminIsPrivileged DEF Priv
  <2>3. CASE x # r
    BY <1>1, <2>1, <2>3 DEF AdminIsGiven
  <2> QED
    BY <2>2, <2>3
<1> QED
  BY <1>3, <1>4, <1>5, <1>6

LEMMA UpsertKeeps ==
  ASSUME RightsInv, NEW a \in Online, NEW r \in RoleNames, NEW wanted, Upsert(a, r, wanted)
  PROVE  RightsInv'
<1> DEFINE next == {c \in wanted : MayGrant(session[a], c)}
<1>1. roles' = Put(roles, r, next) /\ Gives(session[a], next) /\ session' = Refreshed(r) /\ UNCHANGED <<member, codes, tokens>>
  BY DEF Upsert, Sanitized
<1>2. given \subseteq given'
  BY <1>1 DEF Gives
<1>3. Priv(next) \subseteq given'
  <2>1. CASE "admin" \in session[a]
    BY <1>1, <2>1 DEF Gives, Priv
  <2>2. CASE "admin" \notin session[a]
    BY <1>2, <2>2, ActorsHaveWhatIsGiven DEF MayGrant, Priv
  <2> QED
    BY <2>1, <2>2
<1> HIDE DEF next
<1> QED
  BY <1>1, <1>2, <1>3, WritingKeeps

LEMMA SetRoleKeeps ==
  ASSUME RightsInv, NEW a \in Online, NEW d \in Devices, NEW r \in RoleNames, SetRole(a, d, r)
  PROVE  RightsInv'
<1>1. /\ AssertMayGrantRole(a, r) /\ Gives(session[a], roles[r]) /\ d \in Members
      /\ member' = [member EXCEPT ![d] = r] /\ UNCHANGED <<roles, codes, tokens>> /\ session' = WithRole(d, r)
  BY DEF SetRole
<1>2. Outside' \subseteq Outside \cup {r}
  BY <1>1 DEF Outside, RightsInv, RightsShape
<1>3. RolesAreGiven' /\ AdminIsGiven'
  BY <1>1, <1>2, PointingKeeps
<1>4. RightsShape'
  BY <1>1 DEF RightsInv, RightsShape, Online, WithRole
<1>5. RightsCurrent'
  BY <1>1 DEF RightsInv, RightsShape, RightsCurrent, Online, WithRole, AssertMayGrantRole
<1> QED
  BY <1>3, <1>4, <1>5 DEF RightsInv

LEMMA MintingKeeps ==
  ASSUME RightsInv, NEW a \in Online, NEW r \in RoleNames, CreateCode(a, r) \/ CreateIngestToken(a, r)
  PROVE  RightsInv'
<1>1. /\ AssertMayGrantRole(a, r) /\ Gives(session[a], roles[r])
      /\ UNCHANGED <<roles, member, session>>
      /\ codes' \subseteq codes \cup {r} /\ tokens' \subseteq tokens \cup {r}
  BY DEF CreateCode, CreateIngestToken
<1>2. Outside' \subseteq Outside \cup {r}
  BY <1>1 DEF Outside
<1>3. RolesAreGiven' /\ AdminIsGiven'
  BY <1>1, <1>2, PointingKeeps
<1> QED
  BY <1>1, <1>3 DEF RightsInv, RightsShape, RightsCurrent, Online

\* Pairing turns a code into a device; what was outside stays outside.
LEMMA PairKeeps ==
  ASSUME RightsInv, NEW d \in Devices, NEW r \in RoleNames, Pair(d, r)
  PROVE  RightsInv'
<1>1. /\ d \notin Members /\ r \in codes /\ r \in DOMAIN roles /\ codes' = codes \ {r}
      /\ member' = [member EXCEPT ![d] = r] /\ session' = Put(session, d, roles[r])
      /\ UNCHANGED <<roles, tokens, given>>
  BY DEF Pair
<1>2. /\ Online' = Online \cup {d} /\ session'[d] = roles[r]
      /\ \A x \in Online \ {d} : session'[x] = session[x]
  BY <1>1 DEF Online, Put
<1>3. Outside' \subseteq Outside
  BY <1>1 DEF Outside, RightsInv, RightsShape
<1>4. RightsShape'
  BY <1>1, <1>2 DEF RightsInv, RightsShape
<1>5. RightsCurrent'
  BY <1>1, <1>2 DEF RightsInv, RightsShape, RightsCurrent
<1> QED
  BY <1>1, <1>3, <1>4, <1>5 DEF RightsInv, RolesAreGiven, AdminIsGiven

LEMMA RightsStepKeeps == RightsInv /\ [RightsNext]_rightsVars => RightsInv'
<1> SUFFICES ASSUME RightsInv, [RightsNext]_rightsVars PROVE RightsInv'
  OBVIOUS
<1> USE DEF RightsInv
<1>1. CASE UNCHANGED rightsVars
  BY <1>1 DEF rightsVars, RightsShape, RightsCurrent, RolesAreGiven, AdminIsGiven, Online, Outside
<1>2. ASSUME NEW d \in Devices, NEW r \in RoleNames, Pair(d, r) PROVE RightsInv'
  BY <1>2, PairKeeps
<1>3. ASSUME NEW d \in Devices, Auth(d) PROVE RightsInv'
  <2>1. /\ Online' = Online \cup {d} /\ session'[d] = roles[member[d]]
        /\ \A x \in Online \ {d} : session'[x] = session[x]
    BY <1>3 DEF Auth, Online, Put
  <2> QED
    BY <1>3, <2>1 DEF Auth, RightsShape, RightsCurrent, RolesAreGiven, AdminIsGiven, Outside
<1>4. ASSUME NEW d \in Devices, Leave(d) PROVE RightsInv'
  BY <1>4 DEF Leave, RightsShape, RightsCurrent, RolesAreGiven, AdminIsGiven, Online, Outside
<1>5. ASSUME NEW r \in RoleNames, NEW caps \in SUBSET Caps, ApplicationUpserts(r, caps) PROVE RightsInv'
  <2>1. /\ roles' = Put(roles, r, caps) /\ given \subseteq given' /\ Priv(caps) \subseteq given'
        /\ session' = Refreshed(r) /\ UNCHANGED <<member, codes, tokens>>
    BY <1>5 DEF ApplicationUpserts, Priv
  <2> QED
    BY <2>1, WritingKeeps
<1>6. ASSUME NEW a \in Online, NEW r \in RoleNames, DeleteRole(a, r) PROVE RightsInv'
  <2>1. \A d \in Online : member[d] # r
    BY <1>6, AdminIsPrivileged DEF DeleteRole, RightsShape, RightsCurrent, Members
  <2> QED
    BY <1>6, <2>1 DEF DeleteRole, RightsShape, RightsCurrent, RolesAreGiven, AdminIsGiven, Online, Outside
<1>7. ASSUME NEW a \in Online, NEW r \in RoleNames, CreateCode(a, r) \/ CreateIngestToken(a, r) PROVE RightsInv'
  BY <1>7, MintingKeeps
<1>8. ASSUME NEW a \in Online, NEW r \in RoleNames, DropCode(a, r) \/ RevokeIngestToken(a, r) PROVE RightsInv'
  BY <1>8 DEF DropCode, RevokeIngestToken, RightsShape, RightsCurrent, RolesAreGiven, AdminIsGiven, Online, Outside
<1>9. ASSUME NEW a \in Online, NEW r \in RoleNames, NEW caps \in SUBSET Caps, Upsert(a, r, caps) PROVE RightsInv'
  BY <1>9, UpsertKeeps
<1>10. ASSUME NEW a \in Online, NEW d \in Devices, NEW r \in RoleNames, SetRole(a, d, r) PROVE RightsInv'
  BY <1>10, SetRoleKeeps
<1>11. ASSUME NEW a \in Online, NEW d \in Devices, Revoke(a, d) PROVE RightsInv'
  <2>1. member' = [member EXCEPT ![d] = NoRole] /\ session' = [x \in Online \ {d} |-> session[x]]
        /\ UNCHANGED <<roles, codes, tokens, given>>
    BY <1>11 DEF Revoke
  <2>2. Outside' \subseteq Outside \cup {NoRole} /\ NoRole \notin DOMAIN roles
    BY <2>1, AdminIsPrivileged DEF Outside, RightsShape
  <2> QED
    BY <2>1, <2>2 DEF RightsShape, RightsCurrent, RolesAreGiven, AdminIsGiven, Online
<1> QED
  BY <1>1, <1>2, <1>3, <1>4, <1>5, <1>6, <1>7, <1>8, <1>9, <1>10, <1>11 DEF RightsNext

LEMMA GivenIsEnough == RightsInv => NoEscalation
<1> SUFFICES ASSUME RightsInv, NEW S \in Reachable \cup {session[d] : d \in Online \ {Boss}},
                    NEW c \in S, Privileged(c)
             PROVE  c \in given
  BY DEF NoEscalation
<1>1. PICK r \in DOMAIN roles \cap Outside : S = roles[r]
  <2>1. CASE S \in Reachable
    BY <2>1 DEF Reachable, Outside, Members
  <2>2. CASE S \in {session[d] : d \in Online \ {Boss}}
    BY <2>2 DEF RightsInv, RightsShape, RightsCurrent, Outside
  <2> QED
    BY <2>1, <2>2
<1> QED
  BY <1>1 DEF RightsInv, RolesAreGiven, AdminIsGiven, Priv

\* No chain of delegated operations adds up to a privileged capability that nobody with `admin`
\* handed out (sanitizeRole, assertMayGrantRole, roles.upsert, devices.setRole, pair.create,
\* ingest.create).
THEOREM NothingIsEscalated == RightsSpec => []NoEscalation
<1> QED
  BY RightsStart, RightsStepKeeps, GivenIsEnough, PTL DEF RightsSpec

\* A live session's role is its device's, as it is now (upsertRole, setDeviceRole, deleteRole).
THEOREM SessionsAreCurrent == RightsSpec => []RightsCurrent
<1>1. RightsInv => RightsCurrent
  BY DEF RightsInv
<1> QED
  BY <1>1, RightsStart, RightsStepKeeps, PTL DEF RightsSpec

----------------------------------------------------------------------------
(* Publishing over HTTP, for any number of tokens and of requests at once:   *)
(* the record of a token that was revoked is written to again by requests    *)
(* that were waiting for their bodies, and stays revoked.                    *)

Token == [there : BOOLEAN, revoked : BOOLEAN, usedLately : BOOLEAN]
Judged == [at : {"body", "calling"}, token : Tokens, kind : Kinds, usedLately : BOOLEAN, late : BOOLEAN]
Request == {Nowhere} \cup [at : {"refusing"}] \cup Judged

IngestShape ==
  /\ records \in [Tokens -> Token] /\ recordsOnDisk \in [Tokens -> Token]
  /\ request \in [Requests -> Request] /\ dead \subseteq Tokens

\* A request that got past the check keeps what its token said then, which is why the record of
\* a dead token, and not only the check, has to be looked at.
IngestInv == IngestShape /\ RevokedIsFinal

LEMMA RequestCases ==
  ASSUME NEW q \in Request
  PROVE  /\ q.at \in {"body", "calling"} => q \in Judged
         /\ q \in Judged => q.at \in {"body", "calling"}
BY DEF Request, Judged, Nowhere

LEMMA IngestStarts == IngestInit => IngestInv
BY RequestCases DEF IngestInit, IngestInv, IngestShape, RevokedIsFinal, Token, NoToken, Request, Nowhere

\* Only a live token's request is let in, and a dead token is not live.
LEMMA ArriveKeeps ==
  ASSUME IngestInv, NEW r \in Requests, NEW t \in Tokens, NEW k \in Kinds, ArriveWithToken(r, t, k)
  PROVE  IngestInv'
<1> DEFINE q == [at |-> "body", token |-> t, kind |-> k, usedLately |-> records[t].usedLately, late |-> t \in dead]
<1> USE DEF IngestInv, IngestShape
<1>1. t \notin dead
  BY DEF ArriveWithToken, Live, RevokedIsFinal
<1>2. q \in Judged /\ ~q.late
  <2>1. (t \in dead) = FALSE
    BY <1>1
  <2>2. records[t].usedLately \in BOOLEAN
    BY DEF Token
  <2> QED
    BY <2>1, <2>2 DEF Judged
<1>3. request' = request \/ request' = [request EXCEPT ![r] = q]
  BY DEF ArriveWithToken, Waits
<1>4. IngestShape'
  BY <1>2, <1>3 DEF ArriveWithToken, Request
<1>5. RevokedIsFinal'
  BY <1>2, <1>3 DEF ArriveWithToken, RevokedIsFinal
<1> QED
  BY <1>4, <1>5

\* The use is written into the record as it is by then, whatever the request was told.
LEMMA BodyKeeps ==
  ASSUME IngestInv, NEW r \in Requests, BodyArrives(r)
  PROVE  IngestInv'
<1> USE DEF IngestInv, IngestShape
<1>1. request[r] \in Judged
  BY RequestCases DEF BodyArrives
<1>2. request[r].token \in Tokens
  BY <1>1 DEF Judged
<1>3. /\ records' \in [Tokens -> Token]
      /\ \A t \in Tokens : records'[t].revoked = records[t].revoked
  <2>1. CASE records' = records
    BY <2>1
  <2>2. CASE records' = Stamped(request[r].token)
    <3> DEFINE x == request[r].token
               s == [records[x] EXCEPT !.usedLately = TRUE]
    <3>0. records[x] \in Token
      BY <1>2
    <3>1. s \in Token /\ s.revoked = records[x].revoked
      BY <3>0 DEF Token
    <3>2. records' = [records EXCEPT ![x] = s]
      BY <2>2 DEF Stamped
    <3> HIDE DEF s
    <3> QED
      BY <1>2, <3>1, <3>2
  <2> QED
    BY <2>1, <2>2 DEF BodyArrives
<1>4. /\ request' \in [Requests -> Request]
      /\ \A x \in Requests : request'[x].at \in {"body", "calling"} => 
           request[x].at \in {"body", "calling"} /\ request'[x].late = request[x].late
  <2>1. CASE request' = [request EXCEPT ![r] = Nowhere]
    BY <2>1 DEF Request, Nowhere
  <2>2. CASE request' = [request EXCEPT ![r].at = "calling"]
    <3>1. [request[r] EXCEPT !.at = "calling"] \in Judged
      BY <1>1 DEF Judged
    <3> QED
      BY <1>1, <2>2, <3>1 DEF Request, Judged, BodyArrives
  <2> QED
    BY <2>1, <2>2 DEF BodyArrives
<1> QED
  BY <1>3, <1>4 DEF BodyArrives, RevokedIsFinal

LEMMA MinuteKeeps ==
  ASSUME IngestInv, NEW t \in Tokens, MinuteRunsOut(t)
  PROVE  IngestInv'
<1> USE DEF IngestInv, IngestShape
<1>1. /\ records' \in [Tokens -> Token]
      /\ \A x \in Tokens : records'[x].revoked = records[x].revoked
  BY DEF MinuteRunsOut, Token
<1>2. ASSUME NEW r \in Requests, request[r].at = "body"
      PROVE  /\ [request[r] EXCEPT !.usedLately = FALSE] \in Judged
             /\ [request[r] EXCEPT !.usedLately = FALSE].at = "body"
             /\ [request[r] EXCEPT !.usedLately = FALSE].late = request[r].late
  <2>1. request[r] \in Judged
    BY <1>2, RequestCases
  <2> QED
    BY <2>1, <1>2 DEF Judged
<1>3. ASSUME NEW r \in Requests
      PROVE  /\ request'[r] \in Request
             /\ request'[r].at = request[r].at
             /\ request[r].at \in {"body", "calling"} => request'[r].late = request[r].late
  BY <1>2 DEF MinuteRunsOut, Request
<1>4. request' \in [Requests -> Request]
  BY <1>3 DEF MinuteRunsOut
<1> QED
  BY <1>1, <1>3, <1>4 DEF MinuteRunsOut, RevokedIsFinal

LEMMA IngestStepKeeps == IngestInv /\ [IngestNext]_ingestVars => IngestInv'
<1> SUFFICES ASSUME IngestInv, [IngestNext]_ingestVars PROVE IngestInv'
  OBVIOUS
<1> USE DEF IngestInv, IngestShape, RevokedIsFinal
<1>1. CASE UNCHANGED ingestVars
  BY <1>1 DEF ingestVars
<1>2. ASSUME NEW r \in Requests, NEW t \in Tokens, NEW k \in Kinds, ArriveWithToken(r, t, k) PROVE IngestInv'
  BY <1>2, ArriveKeeps
<1>3. ASSUME NEW r \in Requests, ArriveUnknown(r) PROVE IngestInv'
  BY <1>3 DEF ArriveUnknown, Request
<1>4. ASSUME NEW r \in Requests, RefusedAtLast(r) \/ BodyFails(r) \/ CallSettles(r) PROVE IngestInv'
  BY <1>4 DEF RefusedAtLast, BodyFails, CallSettles, Request, Nowhere
<1>5. ASSUME NEW r \in Requests, BodyArrives(r) PROVE IngestInv'
  BY <1>5, BodyKeeps
<1>6. ASSUME NEW t \in Tokens, MintToken(t) PROVE IngestInv'
  BY <1>6 DEF MintToken, NoToken, Token
<1>7. ASSUME NEW t \in Tokens, RevokeToken(t) PROVE IngestInv'
  BY <1>7 DEF RevokeToken, Token
<1>8. ASSUME NEW t \in Tokens, MinuteRunsOut(t) PROVE IngestInv'
  BY <1>8, MinuteKeeps
<1>9. ASSUME NEW t \in Tokens, SetPowers(t) \/ WindowRunsOut(t) PROVE IngestInv'
  BY <1>9 DEF SetPowers, WindowRunsOut
<1>10. CASE BanExpires \/ SaveTokens
  BY <1>10 DEF BanExpires, SaveTokens
<1>11. CASE StopIngest
  BY <1>11 DEF StopIngest, Request, Nowhere
<1>12. CASE CrashIngest
  BY <1>12 DEF CrashIngest, Request, Nowhere
<1> QED
  BY <1>1, <1>2, <1>3, <1>4, <1>5, <1>6, <1>7, <1>8, <1>9, <1>10, <1>11, <1>12 DEF IngestNext

\* A revoked token stays revoked, in the store and at the check, whatever requests of it were under
\* way, and through every stop and every crash after the revocation was written
\* (revokeIngestToken, findIngestToken, handleIngest).
THEOREM RevocationIsFinal == IngestSpec => []RevokedIsFinal
<1>1. IngestInv => RevokedIsFinal
  BY DEF IngestInv
<1> QED
  BY <1>1, IngestStarts, IngestStepKeeps, PTL DEF IngestSpec
============================================================================
