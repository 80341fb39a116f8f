------------------------------ MODULE Sessions ------------------------------
(* Sockets on the hub: admission and bans (guard.ts), the handshake, pairing *)
(* and authentication, promotion, revocation, closing, and the hub's own     *)
(* stop and start (server.ts, session.ts).  A session slot stands for one    *)
(* connection at a time; a device stands for the key it was paired with.     *)
(* Operators named X_Fault are faults of X the properties must reveal.       *)
EXTENDS Integers, FiniteSets

CONSTANTS
  Slots,          \* connections that may exist at the same time
  Addresses,
  AddressOf,      \* where the peer of a slot connects from
  Devices,        \* identities, by public key
  NoDevice,
  Codes,          \* pairing codes
  CodeUses,       \* uses a code is minted with
  MaxPerAddress,  \* security.maxConnectionsPerIp
  MaxUnauth,      \* security.maxUnauthenticated
  MaxDevices,     \* role.maxDevices
  MaxFailures,    \* security.maxFailuresBeforeBan
  MaxLevel,       \* bound: the ban level saturates here (banMaxMs)
  MaxPending,     \* bound: rejected frames of one session in flight
  ErrorsInFlight  \* a socket may fail between a frame and its verified signature

ASSUME SessionConstants ==
  /\ AddressOf \in [Slots -> Addresses]
  /\ NoDevice \notin Devices
  /\ {CodeUses, MaxPerAddress, MaxUnauth, MaxDevices, MaxFailures} \subseteq Nat \ {0}
  /\ MaxLevel \in Nat /\ MaxPending \in Nat \ {0, 1}
  /\ ErrorsInFlight \in BOOLEAN

VARIABLES
  started,    \* the hub is listening
  tracked,    \* the keys of `sessions`
  state,      \* Session.state
  socket,     \* the ws: none, open, closing (close event to come), or silent (half-open)
  nonce,      \* the challenge is unspent
  promoted,
  device,     \* Session.device
  alive,      \* a pong came since the last ping
  byDevice,
  slots,      \* Guard: concurrent connections of an address
  unauth,     \* Guard: sessions that have not authenticated
  ban,        \* Store: the ban record of an address
  code,       \* Store: the pairing codes
  status,     \* Store: each device's record
  failing,    \* rejections waiting out uniformDelay
  enrolled    \* history: devices each code let in
sessionVars == <<tracked, state, socket, nonce, promoted, device, alive, failing>>
storeVars == <<ban, code, status, enrolled>>
vars == <<started, sessionVars, byDevice, slots, unauth, storeVars>>

NoBan == [running |-> FALSE, level |-> 0, failures |-> 0]
NoCode == [there |-> FALSE, left |-> 0, expired |-> FALSE, minted |-> FALSE]

Init ==
  /\ started = FALSE
  /\ tracked = {}
  /\ state = [s \in Slots |-> "closed"]
  /\ socket = [s \in Slots |-> "none"]
  /\ nonce = [s \in Slots |-> FALSE]
  /\ promoted = [s \in Slots |-> FALSE]
  /\ device = [s \in Slots |-> NoDevice]
  /\ alive = [s \in Slots |-> TRUE]
  /\ failing = [s \in Slots |-> 0]
  /\ byDevice = [d \in Devices |-> {}]
  /\ slots = [i \in Addresses |-> 0] /\ unauth = 0
  /\ ban = [i \in Addresses |-> NoBan]
  /\ code = [c \in Codes |-> NoCode]
  /\ status = [d \in Devices |-> "none"]
  /\ enrolled = [c \in Codes |-> 0]

Less(n) == IF n = 0 THEN 0 ELSE n - 1
Smaller(a, b) == IF a < b THEN a ELSE b

-----------------------------------------------------------------------------
(* Guard *)

Admits(i) == ~ban[i].running /\ unauth < MaxUnauth /\ slots[i] < MaxPerAddress

\* Guard.release, for a set of sessions
Released(S) ==
  /\ slots' = [i \in Addresses |->
                 slots[i] - Smaller(slots[i], Cardinality({s \in S : AddressOf[s] = i}))]
  /\ unauth' = unauth - Smaller(unauth, Cardinality({s \in S : ~promoted[s]}))

Failed(b) ==
  IF b.failures + 1 >= MaxFailures
    THEN [running |-> TRUE, level |-> Smaller(b.level + 1, MaxLevel), failures |-> 0]
    ELSE [b EXCEPT !.failures = @ + 1]

Succeeded_Pardons(b) ==
  IF b.level = 0 THEN NoBan ELSE [b EXCEPT !.running = FALSE, !.failures = 0]
Succeeded(b) ==
  IF b.running THEN [b EXCEPT !.failures = 0]
  ELSE IF b.level = 0 THEN NoBan
  ELSE [b EXCEPT !.failures = 0]

\* Date.now() passes a ban's `until`, or failureWindowMs since the last failure, after
\* which fail() counts from nothing.
BanRunsOut(i) == ban[i].running /\ ban' = [ban EXCEPT ![i].running = FALSE]
WindowPasses(i) == ban[i].failures > 0 /\ ban' = [ban EXCEPT ![i].failures = 0]
\* Guard.sweep forgets a ban long over.
SweepBan(i) ==
  /\ started /\ ban[i] # NoBan /\ ~ban[i].running /\ ban[i].failures = 0
  /\ ban' = [ban EXCEPT ![i] = NoBan]
BanTime ==
  /\ \E i \in Addresses : BanRunsOut(i) \/ WindowPasses(i) \/ SweepBan(i)
  /\ UNCHANGED <<started, sessionVars, byDevice, slots, unauth, code, status, enrolled>>

-----------------------------------------------------------------------------
(* Pairing codes *)

Live(c) == code[c].there /\ ~code[c].expired /\ code[c].left > 0
Pruned == [c \in Codes |-> IF Live(c) THEN code[c] ELSE [code[c] EXCEPT !.there = FALSE]]

CreatePairingCode(c) ==
  /\ ~code[c].minted
  /\ code' = [Pruned EXCEPT ![c] = [there |-> TRUE, left |-> CodeUses, expired |-> FALSE, minted |-> TRUE]]
  /\ UNCHANGED <<started, sessionVars, byDevice, slots, unauth, ban, status, enrolled>>

CodeExpires(c) ==
  /\ code[c].there /\ ~code[c].expired
  /\ code' = [code EXCEPT ![c].expired = TRUE]
  /\ UNCHANGED <<started, sessionVars, byDevice, slots, unauth, ban, status, enrolled>>

\* revokePairingCode; pairingCodes() prunes before it lists
RevokeCode(c) ==
  /\ code[c].there
  /\ code' = [code EXCEPT ![c].there = FALSE]
  /\ UNCHANGED <<started, sessionVars, byDevice, slots, unauth, ban, status, enrolled>>
ListCodes ==
  /\ code # Pruned
  /\ code' = Pruned
  /\ UNCHANGED <<started, sessionVars, byDevice, slots, unauth, ban, status, enrolled>>

-----------------------------------------------------------------------------
(* Opening, closing, liveness *)

\* openSession: a new Session for the slot
Opened(s) ==
  /\ tracked' = tracked \cup {s}
  /\ state' = [state EXCEPT ![s] = "handshake"]
  /\ socket' = [socket EXCEPT ![s] = "open"]
  /\ nonce' = [nonce EXCEPT ![s] = TRUE]
  /\ promoted' = [promoted EXCEPT ![s] = FALSE]
  /\ device' = [device EXCEPT ![s] = NoDevice]
  /\ alive' = [alive EXCEPT ![s] = TRUE]

\* handleUpgrade.  An upgrade `ws` gives up on releases what admit() took, in the same
\* turn, and one that is refused changes nothing: no step.  The token bucket of an
\* address refuses at moments of its own and is left out.
Upgrade(s) ==
  /\ started /\ socket[s] = "none" /\ s \notin tracked /\ failing[s] = 0
  /\ Admits(AddressOf[s])
  /\ slots' = [slots EXCEPT ![AddressOf[s]] = @ + 1]
  /\ unauth' = unauth + 1
  /\ Opened(s)
  /\ UNCHANGED <<started, failing, byDevice, storeVars>>

\* Session.close and Session.destroy: the ws's close event is still to come.
Closed(S) ==
  /\ state' = [s \in Slots |-> IF s \in S THEN "closed" ELSE state[s]]
  /\ socket' = [s \in Slots |-> IF s \in S /\ socket[s] # "none" THEN "closing" ELSE socket[s]]

CloseSession_Twice(s) ==
  /\ tracked' = tracked \ {s}
  /\ state' = [state EXCEPT ![s] = "closed"]
  /\ Released({s})
  /\ byDevice' = [d \in Devices |-> IF d = device[s] THEN byDevice[d] \ {s} ELSE byDevice[d]]
\* closeSession, which returns at its `delete` guard for a session no longer tracked.
CloseSession(s) ==
  IF s \notin tracked THEN UNCHANGED <<tracked, state, slots, unauth, byDevice>>
  ELSE /\ tracked' = tracked \ {s}
       /\ state' = [state EXCEPT ![s] = "closed"]
       /\ Released({s})
       /\ byDevice' = [d \in Devices |-> IF d = device[s] THEN byDevice[d] \ {s} ELSE byDevice[d]]

\* The ws has closed: after the hub closed it, because the peer did, or by an error.
SocketGone(s) ==
  /\ socket[s] = "closing"
  /\ socket' = [socket EXCEPT ![s] = "none"]
  /\ CloseSession(s)
  /\ UNCHANGED <<started, nonce, promoted, device, alive, failing, storeVars>>
PeerLeaves(s) ==
  /\ socket[s] = "open"
  /\ socket' = [socket EXCEPT ![s] = "none"]
  /\ CloseSession(s)
  /\ UNCHANGED <<started, nonce, promoted, device, alive, failing, storeVars>>

\* The peer is gone without a word; the hub cannot tell.
PeerVanishes(s) ==
  /\ socket[s] = "open"
  /\ socket' = [socket EXCEPT ![s] = "silent"]
  /\ UNCHANGED <<started, tracked, state, nonce, promoted, device, alive, failing,
                 byDevice, slots, unauth, storeVars>>

HandshakeTimeout(s) ==
  /\ s \in tracked /\ state[s] = "handshake"
  /\ Closed({s})
  /\ UNCHANGED <<started, tracked, nonce, promoted, device, alive, failing,
                 byDevice, slots, unauth, storeVars>>

\* A frame that is binary, too large or one too many, and a peer that stops reading.
Destroy(s) ==
  /\ socket[s] = "open" /\ state[s] # "closed"
  /\ Closed({s})
  /\ UNCHANGED <<started, tracked, nonce, promoted, device, alive, failing,
                 byDevice, slots, unauth, storeVars>>

SweepDeadSockets_Unmarked ==
  LET ready == {s \in tracked : state[s] = "ready"} IN
  /\ started /\ ready # {}
  /\ Closed({s \in ready : ~alive[s]})
  /\ UNCHANGED <<started, tracked, nonce, promoted, device, alive, failing,
                 byDevice, slots, unauth, storeVars>>
SweepDeadSockets ==
  LET ready == {s \in tracked : state[s] = "ready"}
      dead == {s \in ready : ~alive[s]} IN
  /\ started /\ ready # {}
  /\ Closed(dead)
  /\ alive' = [s \in Slots |-> alive[s] /\ s \notin ready]
  /\ UNCHANGED <<started, tracked, nonce, promoted, device, failing,
                 byDevice, slots, unauth, storeVars>>

\* touchDevice, here, only moves timestamps.
Pong(s) ==
  /\ socket[s] = "open" /\ ~alive[s]
  /\ alive' = [alive EXCEPT ![s] = TRUE]
  /\ UNCHANGED <<started, tracked, state, socket, nonce, promoted, device, failing,
                 byDevice, slots, unauth, storeVars>>

-----------------------------------------------------------------------------
(* Handshake *)

Hears(s) == socket[s] = "open" /\ state[s] = "handshake"

\* fail(): the answer, the count and the close come after uniformDelay.
FailLands(s) ==
  /\ failing[s] > 0
  /\ failing' = [failing EXCEPT ![s] = @ - 1]
  /\ ban' = [ban EXCEPT ![AddressOf[s]] = Failed(@)]
  /\ Closed({s})
  /\ UNCHANGED <<started, tracked, nonce, promoted, device, alive,
                 byDevice, slots, unauth, code, status, enrolled>>

\* A pair or auth frame whose challenge is spent, by an earlier frame of the session.
HandleSpent(s) ==
  /\ Hears(s) /\ ~nonce[s] /\ failing[s] < MaxPending
  /\ failing' = [failing EXCEPT ![s] = @ + 1]
  /\ UNCHANGED <<started, tracked, state, socket, nonce, promoted, device, alive,
                 byDevice, slots, unauth, storeVars>>

\* verify() is synchronous inside its promise, so what can come between a frame and
\* the rest of its handler is what shares its turn of the event loop: a second frame
\* of the same chunk, whose challenge is spent or which gets the socket destroyed, or
\* an error of the socket, which closes the session.
Company == {"none", "spent", "destroy"} \cup (IF ErrorsInFlight THEN {"error"} ELSE {})

Meanwhile(s, with) ==
  /\ socket' = [socket EXCEPT ![s] = IF with = "error" THEN "none"
                                     ELSE IF with = "destroy" THEN "closing" ELSE @]
  /\ tracked' = IF with = "error" THEN tracked \ {s} ELSE tracked
  /\ slots' = IF with = "error" THEN [slots EXCEPT ![AddressOf[s]] = Less(@)] ELSE slots

\* promote(), which does not ask what became of the session meanwhile.
Promote(s, d, with) ==
  /\ state' = [state EXCEPT ![s] = "ready"]
  /\ device' = [device EXCEPT ![s] = d]
  /\ promoted' = [promoted EXCEPT ![s] = TRUE]
  /\ unauth' = IF with = "error" THEN Less(Less(unauth)) ELSE Less(unauth)
  /\ byDevice' = [byDevice EXCEPT ![d] = @ \cup {s}]
  /\ ban' = [ban EXCEPT ![AddressOf[s]] = Succeeded(@)]
  /\ failing' = [failing EXCEPT ![s] = IF with = "spent" THEN 1 ELSE 0]

\* fail(): the answer, the count and the close come later.
Reject(s, with) ==
  /\ state' = [state EXCEPT ![s] = IF with \in {"destroy", "error"} THEN "closed" ELSE @]
  /\ unauth' = IF with = "error" THEN Less(unauth) ELSE unauth
  /\ failing' = [failing EXCEPT ![s] = IF with = "spent" THEN 2 ELSE 1]
  /\ UNCHANGED <<device, promoted, byDevice, ban>>

\* handlePair.  NoDevice stands for a code that is malformed or unknown; a use is
\* reserved before the checks and given back by every one that fails after it.
RoleFull == Cardinality({d \in Devices : status[d] = "active"}) >= MaxDevices
Reserve(k) == [k EXCEPT !.left = @ - 1]
Release_Forgotten(k) == k
Release(k) == [k EXCEPT !.left = @ + 1]
Usable(c) == IF c = NoDevice THEN FALSE ELSE Live(c)
HandlePair(s, d, c, signed, with) ==
  /\ Hears(s) /\ nonce[s]
  /\ nonce' = [nonce EXCEPT ![s] = FALSE]
  /\ Meanwhile(s, with)
  /\ \/ /\ ~Usable(c)
        /\ code' = IF c = NoDevice THEN code ELSE [code EXCEPT ![c].there = FALSE]
        /\ Reject(s, with)
        /\ UNCHANGED <<status, enrolled>>
     \/ /\ Usable(c)
        /\ ~(~RoleFull /\ signed /\ status[d] = "none")
        /\ code' = [code EXCEPT ![c] = Release(Reserve(@))]
        /\ Reject(s, with)
        /\ UNCHANGED <<status, enrolled>>
     \/ /\ Usable(c)
        /\ ~RoleFull /\ signed /\ status[d] = "none"
        /\ code' = [code EXCEPT ![c] = Reserve(@)]
        /\ status' = [status EXCEPT ![d] = "active"]
        /\ enrolled' = [enrolled EXCEPT ![c] = @ + 1]
        /\ Promote(s, d, with)
  /\ UNCHANGED <<started, alive>>

HandleAuth_AnyStatus(s, d, signed, with) ==
  /\ Hears(s) /\ nonce[s]
  /\ nonce' = [nonce EXCEPT ![s] = FALSE]
  /\ Meanwhile(s, with)
  /\ \/ signed /\ status[d] # "none" /\ Promote(s, d, with)
     \/ ~(signed /\ status[d] # "none") /\ Reject(s, with)
  /\ UNCHANGED <<started, alive, code, status, enrolled>>
\* handleAuth.  A malformed frame and a skewed clock fail as an unsigned one does.
HandleAuth(s, d, signed, with) ==
  /\ Hears(s) /\ nonce[s]
  /\ nonce' = [nonce EXCEPT ![s] = FALSE]
  /\ Meanwhile(s, with)
  /\ \/ signed /\ status[d] = "active" /\ Promote(s, d, with)
     \/ ~(signed /\ status[d] = "active") /\ Reject(s, with)
  /\ UNCHANGED <<started, alive, code, status, enrolled>>

-----------------------------------------------------------------------------
(* Operators and the hub's own life *)

RevokeDevice(d) ==
  /\ status[d] = "active"
  /\ status' = [status EXCEPT ![d] = "revoked"]
  /\ Closed(byDevice[d])
  /\ UNCHANGED <<started, tracked, nonce, promoted, device, alive, failing,
                 byDevice, slots, unauth, ban, code, enrolled>>

\* deleteDevice revokes first.
DeleteDevice(d) ==
  /\ status[d] # "none"
  /\ status' = [status EXCEPT ![d] = "none"]
  /\ Closed(byDevice[d])
  /\ UNCHANGED <<started, tracked, nonce, promoted, device, alive, failing,
                 byDevice, slots, unauth, ban, code, enrolled>>

\* start(), until bringUp() is listening.  One that fails is undone completely, and a
\* stop() meanwhile waits for it: neither is seen from here.
Start ==
  /\ ~started /\ started' = TRUE
  /\ UNCHANGED <<sessionVars, byDevice, slots, unauth, storeVars>>

\* stop() empties byDevice first, so that closing the sessions is nobody's absence;
\* their close events come later, perhaps after the next start().
Stop ==
  /\ started /\ started' = FALSE
  /\ byDevice' = [d \in Devices |-> {}]
  /\ Closed(tracked)
  /\ Released(tracked)
  /\ tracked' = {}
  /\ UNCHANGED <<nonce, promoted, device, alive, failing, storeVars>>

-----------------------------------------------------------------------------
Next ==
  \/ Start \/ Stop
  \/ BanTime \/ ListCodes \/ SweepDeadSockets
  \/ \E c \in Codes : CreatePairingCode(c) \/ CodeExpires(c) \/ RevokeCode(c)
  \/ \E d \in Devices : RevokeDevice(d) \/ DeleteDevice(d)
  \/ \E s \in Slots :
       \/ Upgrade(s) \/ SocketGone(s) \/ PeerLeaves(s) \/ PeerVanishes(s)
       \/ HandshakeTimeout(s) \/ Destroy(s) \/ Pong(s) \/ HandleSpent(s) \/ FailLands(s)
       \/ \E d \in Devices, signed \in BOOLEAN, with \in Company :
            \/ \E c \in Codes \cup {NoDevice} : HandlePair(s, d, c, signed, with)
            \/ HandleAuth(s, d, signed, with)

\* Timers fire and a closed socket says so.
Fairness ==
  /\ WF_vars(SweepDeadSockets)
  /\ \A s \in Slots :
       WF_vars(SocketGone(s)) /\ WF_vars(HandshakeTimeout(s)) /\ WF_vars(FailLands(s))

Spec == Init /\ [][Next]_vars
FairSpec == Spec /\ Fairness
=============================================================================
