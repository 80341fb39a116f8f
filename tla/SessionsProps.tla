--------------------------- MODULE SessionsProps ---------------------------
(* What sockets, slots, codes and bans promise, stated over Sessions.        *)
EXTENDS Sessions

TypeOK ==
  /\ started \in BOOLEAN
  /\ tracked \subseteq Slots
  /\ state \in [Slots -> {"handshake", "ready", "closed"}]
  /\ socket \in [Slots -> {"none", "open", "silent", "closing"}]
  /\ nonce \in [Slots -> BOOLEAN] /\ promoted \in [Slots -> BOOLEAN]
  /\ alive \in [Slots -> BOOLEAN]
  /\ device \in [Slots -> Devices \cup {NoDevice}]
  /\ byDevice \in [Devices -> SUBSET Slots]
  /\ slots \in [Addresses -> 0..MaxPerAddress] /\ unauth \in 0..MaxUnauth
  /\ ban \in [Addresses -> [running : BOOLEAN, level : 0..MaxLevel, failures : 0..MaxFailures - 1]]
  /\ code \in [Codes -> [there : BOOLEAN, left : 0..CodeUses, expired : BOOLEAN, minted : BOOLEAN]]
  /\ status \in [Devices -> {"none", "active", "revoked"}]
  /\ failing \in [Slots -> 0..MaxPending]
  /\ enrolled \in [Codes -> 0..CodeUses]

\* Every slot the guard has charged belongs to a session that is there, and the
\* other way round: nothing leaks until honest devices are refused, nothing is
\* given back twice (server.ts handleUpgrade, closeSession and stop; Guard.release).
SlotsAddUp ==
  /\ \A i \in Addresses : slots[i] = Cardinality({s \in tracked : AddressOf[s] = i})
  /\ unauth = Cardinality({s \in tracked : ~promoted[s]})

\* A device is online through exactly its live sessions (server.ts promote,
\* closeSession, stop): no session outlives its socket in byDevice.
PresenceIsReal ==
  \A d \in Devices : byDevice[d] = {s \in tracked : device[s] = d}

\* The guard's counts, the sessions and the presence of devices are one story, told by three
\* places that every way of opening and ending a session must keep in step.
SessionsAddUp == SlotsAddUp /\ PresenceIsReal

\* A use of a code is either unspent or a device: a pairing that is refused after
\* reserving one gives it back, once (reserveCode, releaseCode).
CodeUsesAddUp ==
  \A c \in Codes :
    /\ enrolled[c] <= CodeUses
    /\ code[c].there => enrolled[c] + code[c].left = CodeUses

\* A revoked or deleted device has no session that is served (revokeDevice: "Revokes
\* a device and disconnects it").
RevokedStaysOut ==
  \A s \in Slots : state[s] = "ready" => status[device[s]] = "active"

\* A ban ends when its time is up, whatever succeeds meanwhile on the sockets that
\* were open, and the next one is no shorter until the record goes stale (Guard.fail,
\* succeed and sweep).
BanStep ==
  \A i \in Addresses :
    /\ ban[i].running /\ ~ban'[i].running => BanRunsOut(i)
    /\ ban'[i].level < ban[i].level => SweepBan(i)
BansRunTheirCourse == [][BanStep]_vars

\* Nothing lingers: a connection that never authenticates gives its slots back, whether it
\* stays silent, fails, or vanishes (the handshake timer, fail(), the close event); and a
\* half-open socket is found out, so that its session does not stay in the way
\* (sweepDeadSockets).
HandshakeEnds(s) == s \in tracked /\ ~promoted[s] ~> s \notin tracked \/ promoted[s]
DeadSocketGoes(s) == socket[s] = "silent" ~> socket[s] # "silent"
NothingLingers == \A s \in Slots : HandshakeEnds(s) /\ DeadSocketGoes(s)
=============================================================================
