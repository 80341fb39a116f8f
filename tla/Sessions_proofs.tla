-------------------------- MODULE Sessions_proofs --------------------------
(* Slots, presence, revocation, the uses of codes and bans, for any          *)
(* connections, addresses, devices, codes and limits; the first three on a   *)
(* hub where no socket fails in the turn that verifies its signature.        *)
EXTENDS SessionsProps, FiniteSetTheorems, TLAPS

SessionsShape ==
  /\ tracked \in SUBSET Slots /\ IsFiniteSet(tracked)
  /\ state \in [Slots -> {"handshake", "ready", "closed"}]
  /\ promoted \in [Slots -> BOOLEAN] /\ device \in [Slots -> Devices \cup {NoDevice}]
  /\ byDevice \in [Devices -> SUBSET Slots] /\ status \in [Devices -> {"none", "active", "revoked"}]
  /\ slots \in [Addresses -> Nat] /\ unauth \in Nat

\* Whoever is still talked to is counted, as one who has authenticated or as one who has not.
Standing ==
  \A s \in Slots :
    /\ state[s] = "handshake" => s \in tracked /\ promoted[s] = FALSE /\ device[s] = NoDevice
    /\ state[s] = "ready" => s \in tracked /\ device[s] \in Devices
SessionsInv == SessionsShape /\ Standing /\ SlotsAddUp /\ PresenceIsReal /\ RevokedStaysOut

\* A code that was never handed out has let nobody in.
CodeRecord == [there : BOOLEAN, left : Nat, expired : BOOLEAN, minted : BOOLEAN]
Unminted == \A c \in Codes : code[c].minted = FALSE => code[c].there = FALSE /\ enrolled[c] = 0
CodesInv ==
  /\ code \in [Codes -> CodeRecord] /\ enrolled \in [Codes -> Nat]
  /\ Unminted /\ CodeUsesAddUp

From(T, i) == {s \in T : AddressOf[s] = i}
Unproven(T, p) == {s \in T : ~p[s]}

LEMMA SessionsStart == Init => SessionsInv
<1> SUFFICES ASSUME Init PROVE SessionsInv
  OBVIOUS
<1> USE SessionConstants DEF Init, SessionConstants
<1>1. SessionsShape
  BY FS_EmptySet DEF SessionsShape
<1>2. Standing /\ PresenceIsReal /\ RevokedStaysOut
  BY DEF Standing, PresenceIsReal, RevokedStaysOut
<1>3. SlotsAddUp
  <2>1. Cardinality({}) = 0
    BY FS_EmptySet
  <2>2. {s \in tracked : ~promoted[s]} = {} /\ \A i \in Addresses : {s \in tracked : AddressOf[s] = i} = {}
    OBVIOUS
  <2> QED
    BY <2>1, <2>2 DEF SlotsAddUp
<1> QED
  BY <1>1, <1>2, <1>3 DEF SessionsInv

LEMMA CodesStart == Init => CodesInv
BY SessionConstants DEF SessionConstants, Init, CodesInv, NoCode, CodeRecord, Unminted, CodeUsesAddUp

-----------------------------------------------------------------------------
(* Counting *)

\* One more, one less
LEMMA OneMore ==
  ASSUME NEW T, IsFiniteSet(T), NEW x, x \notin T
  PROVE  IsFiniteSet(T \cup {x}) /\ Cardinality(T \cup {x}) = Cardinality(T) + 1 /\ Cardinality(T) \in Nat
BY FS_AddElement, FS_CardinalityType
LEMMA OneLess ==
  ASSUME NEW T, IsFiniteSet(T), NEW x \in T
  PROVE  /\ IsFiniteSet(T \ {x}) /\ Cardinality(T \ {x}) = Cardinality(T) - 1
         /\ Cardinality(T) \in Nat /\ Cardinality(T) >= 1
<1>1. x \notin T \ {x} /\ (T \ {x}) \cup {x} = T /\ IsFiniteSet(T \ {x})
  BY FS_RemoveElement
<1> QED
  BY <1>1, OneMore

\* What admit() takes for a session, and what release() gives back for it
LEMMA Counted ==
  ASSUME SessionsShape, SlotsAddUp, NEW s \in Slots, s \notin tracked,
         tracked' = tracked \cup {s}, promoted' = [promoted EXCEPT ![s] = FALSE],
         slots' = [slots EXCEPT ![AddressOf[s]] = @ + 1], unauth' = unauth + 1
  PROVE  SlotsAddUp' /\ IsFiniteSet(tracked')
<1> USE SessionConstants DEF SessionConstants, SessionsShape
<1>1. ASSUME NEW T, T \subseteq tracked PROVE IsFiniteSet(T) /\ s \notin T
  BY <1>1, FS_Subset
<1>2. ASSUME NEW i \in Addresses PROVE slots'[i] = Cardinality({t \in tracked' : AddressOf[t] = i})
  <2>1. slots[i] = Cardinality(From(tracked, i)) /\ From(tracked, i) \subseteq tracked
    BY DEF SlotsAddUp, From
  <2>2. CASE AddressOf[s] = i
    <3>1. {t \in tracked' : AddressOf[t] = i} = From(tracked, i) \cup {s}
      BY <2>2 DEF From
    <3> QED
      BY <1>1, <2>1, <2>2, <3>1, OneMore
  <2>3. CASE AddressOf[s] # i
    <3>1. {t \in tracked' : AddressOf[t] = i} = From(tracked, i)
      BY <2>3 DEF From
    <3> QED
      BY <2>1, <2>3, <3>1
  <2> QED
    BY <2>2, <2>3
<1>3. unauth' = Cardinality({t \in tracked' : ~promoted'[t]})
  <2>1. unauth = Cardinality(Unproven(tracked, promoted)) /\ Unproven(tracked, promoted) \subseteq tracked
    BY DEF SlotsAddUp, Unproven
  <2>2. {t \in tracked' : ~promoted'[t]} = Unproven(tracked, promoted) \cup {s}
    BY DEF Unproven
  <2> QED
    BY <1>1, <2>1, <2>2, OneMore
<1> QED
  BY <1>1, <1>2, <1>3, OneMore DEF SlotsAddUp

LEMMA Uncounted ==
  ASSUME SessionsShape, SlotsAddUp, NEW s \in tracked, tracked' = tracked \ {s}, Released({s}), UNCHANGED promoted
  PROVE  SlotsAddUp' /\ IsFiniteSet(tracked') /\ slots' \in [Addresses -> Nat] /\ unauth' \in Nat
<1> USE SessionConstants DEF SessionConstants, SessionsShape
<1>1. ASSUME NEW T, T \subseteq tracked PROVE IsFiniteSet(T) /\ Cardinality(T) \in Nat
  BY <1>1, FS_Subset, FS_CardinalityType
<1>2. Cardinality({}) = 0 /\ Cardinality({s}) = 1
  BY FS_EmptySet, FS_Singleton
<1>3. ASSUME NEW i \in Addresses
      PROVE  slots'[i] = Cardinality({t \in tracked' : AddressOf[t] = i}) /\ slots'[i] \in Nat
  <2>1. /\ slots[i] = Cardinality(From(tracked, i)) /\ From(tracked, i) \subseteq tracked
        /\ slots'[i] = slots[i] - Smaller(slots[i], Cardinality(From({s}, i)))
    BY DEF SlotsAddUp, From, Released
  <2>2. CASE AddressOf[s] = i
    <3>1. /\ {t \in tracked' : AddressOf[t] = i} = From(tracked, i) \ {s}
          /\ s \in From(tracked, i) /\ From({s}, i) = {s}
      BY <2>2 DEF From
    <3>2. Cardinality(From(tracked, i) \ {s}) = slots[i] - 1 /\ slots[i] >= 1 /\ slots[i] \in Nat
      BY <1>1, <2>1, <3>1, OneLess
    <3>3. slots'[i] = slots[i] - Smaller(slots[i], 1)
      BY <1>2, <2>1, <3>1
    <3>4. slots'[i] = slots[i] - 1
      BY <3>2, <3>3 DEF Smaller
    <3>5. Cardinality({t \in tracked' : AddressOf[t] = i}) = Cardinality(From(tracked, i) \ {s})
      BY <3>1
    <3>6. slots[i] - 1 \in Nat
      BY <3>2
    <3> QED
      BY <3>2, <3>4, <3>5, <3>6
  <2>3. CASE AddressOf[s] # i
    <3>1. {t \in tracked' : AddressOf[t] = i} = From(tracked, i) /\ From({s}, i) = {}
      BY <2>3 DEF From
    <3>2. Cardinality(From({s}, i)) = 0 /\ slots[i] \in Nat
      BY <1>2, <3>1
    <3>4. slots'[i] = slots[i] - Smaller(slots[i], 0)
      BY <2>1, <3>2
    <3>3. slots'[i] = slots[i]
      BY <3>2, <3>4 DEF Smaller
    <3> QED
      BY <2>1, <3>1, <3>2, <3>3
  <2> QED
    BY <2>2, <2>3
<1>4. unauth' = Cardinality({t \in tracked' : ~promoted'[t]}) /\ unauth' \in Nat
  <2>1. /\ unauth = Cardinality(Unproven(tracked, promoted)) /\ Unproven(tracked, promoted) \subseteq tracked
        /\ unauth' = unauth - Smaller(unauth, Cardinality(Unproven({s}, promoted)))
    BY DEF SlotsAddUp, Unproven, Released
  <2>2. CASE ~promoted[s]
    <3>1. /\ {t \in tracked' : ~promoted'[t]} = Unproven(tracked, promoted) \ {s}
          /\ s \in Unproven(tracked, promoted) /\ Unproven({s}, promoted) = {s}
      BY <2>2 DEF Unproven
    <3>2. Cardinality(Unproven(tracked, promoted) \ {s}) = unauth - 1 /\ unauth >= 1 /\ unauth \in Nat
      BY <1>1, <2>1, <3>1, OneLess
    <3>3. unauth' = unauth - Smaller(unauth, 1)
      BY <1>2, <2>1, <3>1
    <3>4. unauth' = unauth - 1
      BY <3>2, <3>3 DEF Smaller
    <3>5. Cardinality({t \in tracked' : ~promoted'[t]}) = Cardinality(Unproven(tracked, promoted) \ {s})
      BY <3>1
    <3>6. unauth - 1 \in Nat
      BY <3>2
    <3> QED
      BY <3>2, <3>4, <3>5, <3>6
  <2>3. CASE promoted[s]
    <3>1. {t \in tracked' : ~promoted'[t]} = Unproven(tracked, promoted) /\ Unproven({s}, promoted) = {}
      BY <2>3 DEF Unproven
    <3>2. Cardinality(Unproven({s}, promoted)) = 0 /\ unauth \in Nat
      BY <1>2, <3>1
    <3>4. unauth' = unauth - Smaller(unauth, 0)
      BY <2>1, <3>2
    <3>3. unauth' = unauth
      BY <3>2, <3>4 DEF Smaller
    <3> QED
      BY <2>1, <3>1, <3>2, <3>3
  <2> QED
    BY <2>2, <2>3
<1>5. slots' \in [Addresses -> Nat]
  BY <1>3 DEF Released
<1> QED
  BY <1>1, <1>3, <1>4, <1>5 DEF SlotsAddUp

\* stop() gives back what every session took.
LEMMA AllUncounted ==
  ASSUME SessionsShape, SlotsAddUp, tracked' = {}, Released(tracked)
  PROVE  SlotsAddUp' /\ IsFiniteSet(tracked') /\ slots' \in [Addresses -> Nat] /\ unauth' \in Nat
<1>1. Cardinality({}) = 0 /\ IsFiniteSet({})
  BY FS_EmptySet
<1>2. /\ {t \in tracked' : ~promoted'[t]} = {}
      /\ \A i \in Addresses : {t \in tracked' : AddressOf[t] = i} = {}
  OBVIOUS
<1>3. slots' = [i \in Addresses |-> 0] /\ unauth' = 0
  BY DEF SlotsAddUp, Released, Smaller, SessionsShape
<1> QED
  BY <1>1, <1>2, <1>3 DEF SlotsAddUp

\* A session that authenticates counts as one that has.
LEMMA Proven ==
  ASSUME SessionsShape, SlotsAddUp, NEW s \in tracked, ~promoted[s],
         promoted' = [promoted EXCEPT ![s] = TRUE], unauth' = Less(unauth), UNCHANGED <<tracked, slots>>
  PROVE  SlotsAddUp' /\ unauth' \in Nat
<1> USE DEF SessionsShape
<1>1. IsFiniteSet(Unproven(tracked, promoted)) /\ unauth = Cardinality(Unproven(tracked, promoted))
  BY FS_Subset DEF Unproven, SlotsAddUp
<1>2. s \in Unproven(tracked, promoted)
      /\ {t \in tracked' : ~promoted'[t]} = Unproven(tracked, promoted) \ {s}
  BY DEF Unproven
<1>3. Cardinality(Unproven(tracked, promoted) \ {s}) = unauth - 1 /\ unauth >= 1
  BY <1>1, <1>2, OneLess
<1>4. unauth' = unauth - 1 /\ unauth' \in Nat
  BY <1>3 DEF Less
<1>5. \A i \in Addresses : slots'[i] = Cardinality({t \in tracked' : AddressOf[t] = i})
  BY DEF SlotsAddUp
<1> QED
  BY <1>2, <1>3, <1>4, <1>5 DEF SlotsAddUp

-----------------------------------------------------------------------------
(* The steps of sessions *)

LEMMA SlotsSame ==
  ASSUME SlotsAddUp, UNCHANGED <<tracked, promoted, slots, unauth>>
  PROVE  SlotsAddUp'
BY DEF SlotsAddUp

\* Whatever is closed, nothing is counted otherwise before the close event.
LEMMA ClosingKeeps ==
  ASSUME SessionsInv, UNCHANGED <<tracked, promoted, device, byDevice, slots, unauth>>,
         state' \in [Slots -> {"handshake", "ready", "closed"}],
         \A s \in Slots : state'[s] \in {state[s], "closed"},
         status' \in [Devices -> {"none", "active", "revoked"}],
         \A s \in Slots : state'[s] = "ready" => status'[device[s]] = "active"
  PROVE  SessionsInv'
<1> USE DEF SessionsInv
<1>1. SessionsShape' /\ Standing'
  BY DEF SessionsShape, Standing
<1>2. SlotsAddUp'
  BY SlotsSame
<1>3. PresenceIsReal' /\ RevokedStaysOut'
  BY DEF PresenceIsReal, RevokedStaysOut
<1> QED
  BY <1>1, <1>2, <1>3

LEMMA ClosedStates ==
  ASSUME SessionsShape, NEW S, Closed(S)
  PROVE  /\ state' \in [Slots -> {"handshake", "ready", "closed"}]
         /\ \A s \in Slots : state'[s] \in {state[s], "closed"}
         /\ \A s \in Slots \cap S : state'[s] = "closed"
BY DEF SessionsShape, Closed

LEMMA HubClosesStep ==
  ASSUME SessionsInv,
         \/ SweepDeadSockets
         \/ \E s \in Slots : HandshakeTimeout(s) \/ Destroy(s) \/ FailLands(s)
  PROVE  SessionsInv'
<1>1. /\ \E S : Closed(S)
      /\ UNCHANGED <<tracked, promoted, device, byDevice, slots, unauth, status>>
  <2>1. CASE SweepDeadSockets
    <3>1. Closed({s \in {t \in tracked : state[t] = "ready"} : ~alive[s]})
      BY <2>1 DEF SweepDeadSockets
    <3> QED
      BY <2>1, <3>1 DEF SweepDeadSockets, storeVars
  <2>2. ASSUME NEW s \in Slots, HandshakeTimeout(s) \/ Destroy(s) \/ FailLands(s)
        PROVE  Closed({s}) /\ UNCHANGED <<tracked, promoted, device, byDevice, slots, unauth, status>>
    BY <2>2 DEF HandshakeTimeout, Destroy, FailLands, storeVars
  <2> QED
    BY <2>1, <2>2
<1>2. /\ state' \in [Slots -> {"handshake", "ready", "closed"}]
      /\ \A s \in Slots : state'[s] \in {state[s], "closed"}
  BY <1>1, ClosedStates DEF SessionsInv
<1>3. \A s \in Slots : state'[s] = "ready" => status'[device[s]] = "active"
  BY <1>1, <1>2 DEF SessionsInv, RevokedStaysOut
<1> QED
  BY <1>1, <1>2, <1>3, ClosingKeeps DEF SessionsInv, SessionsShape

\* What sessions have no part in
LEMMA ElsewhereStep ==
  ASSUME SessionsInv,
         \/ Start \/ BanTime \/ ListCodes
         \/ \E c \in Codes : CreatePairingCode(c) \/ CodeExpires(c) \/ RevokeCode(c)
         \/ \E s \in Slots : PeerVanishes(s) \/ Pong(s) \/ HandleSpent(s)
         \/ UNCHANGED vars
  PROVE  SessionsInv'
<1>1. UNCHANGED <<tracked, state, promoted, device, byDevice, slots, unauth, status>>
  BY DEF Start, BanTime, ListCodes, CreatePairingCode, CodeExpires, RevokeCode, PeerVanishes, Pong,
         HandleSpent, sessionVars, storeVars, vars
<1> QED
  BY <1>1, ClosingKeeps DEF SessionsInv, SessionsShape, RevokedStaysOut

LEMMA RevokeStep ==
  ASSUME SessionsInv, NEW d \in Devices, RevokeDevice(d) \/ DeleteDevice(d)
  PROVE  SessionsInv'
<1> USE DEF SessionsInv
<1>1. PICK w \in {"revoked", "none"} :
        /\ status' = [status EXCEPT ![d] = w] /\ Closed(byDevice[d])
        /\ UNCHANGED <<tracked, promoted, device, byDevice, slots, unauth>>
  BY DEF RevokeDevice, DeleteDevice
<1>2. /\ state' \in [Slots -> {"handshake", "ready", "closed"}]
      /\ \A s \in Slots : state'[s] \in {state[s], "closed"}
      /\ \A s \in Slots \cap byDevice[d] : state'[s] = "closed"
  BY <1>1, ClosedStates
<1>3. ASSUME NEW s \in Slots, state'[s] = "ready" PROVE status'[device[s]] = "active"
  <2>1. state[s] = "ready" /\ s \in tracked /\ device[s] \in Devices
    BY <1>2, <1>3 DEF Standing
  <2>2. device[s] # d
    BY <1>2, <1>3, <2>1 DEF PresenceIsReal
  <2> QED
    BY <1>1, <2>1, <2>2 DEF RevokedStaysOut, SessionsShape
<1> QED
  BY <1>1, <1>2, <1>3, ClosingKeeps DEF SessionsShape

LEMMA CloseEventStep ==
  ASSUME SessionsInv, NEW s \in Slots, SocketGone(s) \/ PeerLeaves(s)
  PROVE  SessionsInv'
<1> USE DEF SessionsInv
<1>1. CloseSession(s) /\ UNCHANGED <<promoted, device, status>>
  BY DEF SocketGone, PeerLeaves, storeVars
<1>2. CASE s \notin tracked
  BY <1>1, <1>2, ClosingKeeps DEF CloseSession, SessionsShape, RevokedStaysOut
<1>3. CASE s \in tracked
  <2>1. /\ tracked' = tracked \ {s} /\ state' = [state EXCEPT ![s] = "closed"] /\ Released({s})
        /\ byDevice' = [d \in Devices |-> IF d = device[s] THEN byDevice[d] \ {s} ELSE byDevice[d]]
    BY <1>1, <1>3 DEF CloseSession
  <2>2. SlotsAddUp' /\ IsFiniteSet(tracked') /\ slots' \in [Addresses -> Nat] /\ unauth' \in Nat
    BY <1>1, <1>3, <2>1, Uncounted
  <2>3. SessionsShape'
    BY <1>1, <2>1, <2>2 DEF SessionsShape
  <2>4. Standing'
    BY <1>1, <2>1 DEF Standing, SessionsShape
  <2>5. PresenceIsReal'
    BY <1>1, <2>1 DEF PresenceIsReal, SessionsShape
  <2>6. RevokedStaysOut'
    BY <1>1, <2>1 DEF RevokedStaysOut, SessionsShape
  <2> QED
    BY <2>2, <2>3, <2>4, <2>5, <2>6
<1> QED
  BY <1>2, <1>3

LEMMA UpgradeStep ==
  ASSUME SessionsInv, NEW s \in Slots, Upgrade(s)
  PROVE  SessionsInv'
<1> USE SessionConstants DEF SessionConstants, SessionsInv
<1>1. /\ s \notin tracked /\ tracked' = tracked \cup {s} /\ state' = [state EXCEPT ![s] = "handshake"]
      /\ promoted' = [promoted EXCEPT ![s] = FALSE] /\ device' = [device EXCEPT ![s] = NoDevice]
      /\ slots' = [slots EXCEPT ![AddressOf[s]] = @ + 1] /\ unauth' = unauth + 1
      /\ UNCHANGED <<byDevice, status>>
  BY DEF Upgrade, Opened, storeVars
<1>2. SlotsAddUp' /\ IsFiniteSet(tracked')
  BY <1>1, Counted
<1>3. SessionsShape'
  BY <1>1, <1>2 DEF SessionsShape
<1>4. Standing' /\ RevokedStaysOut'
  BY <1>1 DEF Standing, RevokedStaysOut, SessionsShape
<1>5. PresenceIsReal'
  BY <1>1 DEF PresenceIsReal, SessionsShape
<1> QED
  BY <1>2, <1>3, <1>4, <1>5

LEMMA StopStep == SessionsInv /\ Stop => SessionsInv'
<1> SUFFICES ASSUME SessionsInv, Stop PROVE SessionsInv'
  OBVIOUS
<1> USE DEF SessionsInv
<1>1. /\ byDevice' = [d \in Devices |-> {}] /\ Closed(tracked) /\ Released(tracked) /\ tracked' = {}
      /\ UNCHANGED <<promoted, device, status>>
  BY DEF Stop, storeVars
<1>2. SlotsAddUp' /\ IsFiniteSet(tracked') /\ slots' \in [Addresses -> Nat] /\ unauth' \in Nat
  BY <1>1, AllUncounted
<1>3. /\ state' \in [Slots -> {"handshake", "ready", "closed"}]
      /\ \A s \in Slots : state'[s] \in {state[s], "closed"} /\ (s \in tracked => state'[s] = "closed")
  BY <1>1, ClosedStates
<1>4. \A s \in Slots : state'[s] = "closed"
  BY <1>3 DEF Standing, SessionsShape
<1>5. SessionsShape'
  BY <1>1, <1>2, <1>3 DEF SessionsShape
<1>6. Standing' /\ RevokedStaysOut' /\ PresenceIsReal'
  BY <1>1, <1>4 DEF Standing, RevokedStaysOut, PresenceIsReal
<1> QED
  BY <1>2, <1>5, <1>6

\* An answer to a challenge: the session is promoted, or it is refused later.
LEMMA PromoteKeeps ==
  ASSUME SessionsInv, NEW s \in Slots, Hears(s), NEW d \in Devices, NEW with, with # "error",
         Promote(s, d, with), Meanwhile(s, with),
         status' \in [Devices -> {"none", "active", "revoked"}], status'[d] = "active",
         \A b \in Devices : status[b] = "active" => status'[b] = "active"
  PROVE  SessionsInv'
<1> USE SessionConstants DEF SessionConstants, SessionsInv
<1>1. /\ state' = [state EXCEPT ![s] = "ready"] /\ device' = [device EXCEPT ![s] = d]
      /\ promoted' = [promoted EXCEPT ![s] = TRUE] /\ unauth' = Less(unauth)
      /\ byDevice' = [byDevice EXCEPT ![d] = @ \cup {s}] /\ UNCHANGED <<tracked, slots>>
  BY DEF Promote, Meanwhile
<1>2. s \in tracked /\ promoted[s] = FALSE /\ device[s] = NoDevice
  BY DEF Hears, Standing
<1>3. SlotsAddUp' /\ unauth' \in Nat
  BY <1>1, <1>2, Proven
<1>4. SessionsShape'
  BY <1>1, <1>3 DEF SessionsShape
<1>5. Standing'
  BY <1>1, <1>2 DEF Standing, SessionsShape
<1>6. PresenceIsReal'
  BY <1>1, <1>2 DEF PresenceIsReal, SessionsShape
<1>7. RevokedStaysOut'
  BY <1>1 DEF RevokedStaysOut, Standing, SessionsShape
<1> QED
  BY <1>3, <1>4, <1>5, <1>6, <1>7

LEMMA RejectKeeps ==
  ASSUME SessionsInv, NEW s \in Slots, NEW with, with # "error", Reject(s, with), Meanwhile(s, with),
         UNCHANGED status
  PROVE  SessionsInv'
<1>1. /\ UNCHANGED <<tracked, promoted, device, byDevice, slots, unauth>>
      /\ state' \in {state, [state EXCEPT ![s] = "closed"]}
  BY DEF Reject, Meanwhile, SessionsInv, SessionsShape
<1>2. /\ state' \in [Slots -> {"handshake", "ready", "closed"}]
      /\ \A t \in Slots : state'[t] \in {state[t], "closed"}
  BY <1>1 DEF SessionsInv, SessionsShape
<1> QED
  BY <1>1, <1>2, ClosingKeeps DEF SessionsInv, SessionsShape, RevokedStaysOut

LEMMA HandshakeStep ==
  ASSUME ErrorsInFlight = FALSE, SessionsInv,
         NEW s \in Slots, NEW d \in Devices, NEW signed \in BOOLEAN, NEW with \in Company,
         HandleAuth(s, d, signed, with) \/ \E c \in Codes \cup {NoDevice} : HandlePair(s, d, c, signed, with)
  PROVE  SessionsInv'
<1>1. with # "error"
  BY DEF Company
<1>2. CASE Reject(s, with) /\ UNCHANGED status
  BY <1>1, <1>2, RejectKeeps DEF HandleAuth, HandlePair
<1>3. CASE Promote(s, d, with) /\ (status' = status \/ status' = [status EXCEPT ![d] = "active"])
           /\ status'[d] = "active"
  BY <1>1, <1>3, PromoteKeeps DEF HandleAuth, HandlePair, SessionsInv, SessionsShape
<1> QED
  BY <1>2, <1>3 DEF HandleAuth, HandlePair, SessionsInv, SessionsShape

LEMMA SessionsStepKeeps ==
  ASSUME ErrorsInFlight = FALSE
  PROVE  SessionsInv /\ [Next]_vars => SessionsInv'
BY ElsewhereStep, HubClosesStep, RevokeStep, CloseEventStep, UpgradeStep, StopStep, HandshakeStep DEF Next

-----------------------------------------------------------------------------
(* The steps of codes *)

\* A step that hands out, ends or prunes codes
LEMMA CodesEnd ==
  ASSUME CodesInv, UNCHANGED enrolled, code' \in [Codes -> CodeRecord],
         \A c \in Codes :
           \/ /\ code'[c].minted = code[c].minted
              /\ code'[c].there = TRUE => code[c].there = TRUE /\ code'[c].left = code[c].left
           \/ code[c].minted = FALSE /\ code'[c].left = CodeUses /\ code'[c].minted = TRUE
  PROVE  CodesInv'
BY SessionConstants DEF SessionConstants, CodesInv, CodeRecord, Unminted, CodeUsesAddUp

LEMMA PrunedCodes ==
  ASSUME CodesInv
  PROVE  /\ Pruned \in [Codes -> CodeRecord]
         /\ \A c \in Codes : /\ Pruned[c].minted = code[c].minted /\ Pruned[c].left = code[c].left
                             /\ Pruned[c].there = TRUE => code[c].there = TRUE
<1>1. ASSUME NEW c \in Codes
      PROVE  /\ [code[c] EXCEPT !.there = FALSE] \in CodeRecord
             /\ [code[c] EXCEPT !.there = FALSE].minted = code[c].minted
             /\ [code[c] EXCEPT !.there = FALSE].left = code[c].left
             /\ [code[c] EXCEPT !.there = FALSE].there = FALSE
  BY DEF CodesInv, CodeRecord
<1> QED
  BY <1>1 DEF Pruned, CodesInv

\* What one code becomes
LEMMA CodeBecomes ==
  ASSUME CodesInv, NEW c \in Codes
  PROVE  /\ [code[c] EXCEPT !.there = FALSE] \in CodeRecord
         /\ [code[c] EXCEPT !.there = FALSE].minted = code[c].minted
         /\ [code[c] EXCEPT !.there = FALSE].there = FALSE
         /\ [code[c] EXCEPT !.expired = TRUE] \in CodeRecord
         /\ [code[c] EXCEPT !.expired = TRUE].minted = code[c].minted
         /\ [code[c] EXCEPT !.expired = TRUE].there = code[c].there
         /\ [code[c] EXCEPT !.expired = TRUE].left = code[c].left
BY DEF CodesInv, CodeRecord

LEMMA UseBecomes ==
  ASSUME CodesInv, NEW c \in Codes, Live(c)
  PROVE  /\ Reserve(code[c]) \in CodeRecord /\ Reserve(code[c]).left = code[c].left - 1
         /\ Reserve(code[c]).minted = code[c].minted /\ Reserve(code[c]).there = code[c].there
         /\ Release(Reserve(code[c])) = code[c]
<1>1. code[c] \in CodeRecord /\ code[c].left > 0
  BY DEF CodesInv, Live
<1>2. code[c].left - 1 \in Nat /\ (code[c].left - 1) + 1 = code[c].left
  BY <1>1 DEF CodeRecord
<1>3. Reserve(code[c]) \in CodeRecord /\ Reserve(code[c]).left = code[c].left - 1
      /\ Reserve(code[c]).minted = code[c].minted /\ Reserve(code[c]).there = code[c].there
      /\ Reserve(code[c]).expired = code[c].expired
  BY <1>1, <1>2 DEF Reserve, CodeRecord
<1>4. Release(Reserve(code[c])) \in CodeRecord /\ Release(Reserve(code[c])).left = code[c].left
      /\ Release(Reserve(code[c])).minted = code[c].minted /\ Release(Reserve(code[c])).there = code[c].there
      /\ Release(Reserve(code[c])).expired = code[c].expired
  BY <1>2, <1>3 DEF Release, CodeRecord
<1>5. Release(Reserve(code[c])) = code[c]
  BY <1>1, <1>4 DEF CodeRecord
<1> QED
  BY <1>3, <1>5

LEMMA CodesListed ==
  ASSUME CodesInv,
         ListCodes \/ \E c \in Codes : CreatePairingCode(c) \/ CodeExpires(c) \/ RevokeCode(c)
  PROVE  CodesInv'
<1>1. CASE ListCodes
  <2>1. code' = Pruned /\ enrolled' = enrolled
    BY <1>1 DEF ListCodes
  <2> QED
    BY <2>1, PrunedCodes, CodesEnd
<1>2. ASSUME NEW c \in Codes, CreatePairingCode(c) PROVE CodesInv'
  <2> DEFINE new == [there |-> TRUE, left |-> CodeUses, expired |-> FALSE, minted |-> TRUE]
  <2>1. new \in CodeRecord /\ new.left = CodeUses /\ new.minted = TRUE
    BY SessionConstants DEF SessionConstants, CodeRecord
  <2>2. code' = [Pruned EXCEPT ![c] = new] /\ enrolled' = enrolled /\ code[c].minted = FALSE
    BY <1>2 DEF CreatePairingCode, CodesInv, CodeRecord
  <2> HIDE DEF new
  <2> QED
    BY <2>1, <2>2, PrunedCodes, CodesEnd
<1>3. ASSUME NEW c \in Codes, CodeExpires(c) PROVE CodesInv'
  <2> DEFINE new == [code[c] EXCEPT !.expired = TRUE]
  <2>1. code' = [code EXCEPT ![c] = new] /\ enrolled' = enrolled
    BY <1>3 DEF CodeExpires, CodesInv
  <2>2. new \in CodeRecord /\ new.minted = code[c].minted /\ new.there = code[c].there /\ new.left = code[c].left
    BY CodeBecomes
  <2> HIDE DEF new
  <2> QED
    BY <2>1, <2>2, CodesEnd DEF CodesInv
<1>4. ASSUME NEW c \in Codes, RevokeCode(c) PROVE CodesInv'
  <2> DEFINE new == [code[c] EXCEPT !.there = FALSE]
  <2>1. code' = [code EXCEPT ![c] = new] /\ enrolled' = enrolled
    BY <1>4 DEF RevokeCode, CodesInv
  <2>2. new \in CodeRecord /\ new.minted = code[c].minted /\ new.there = FALSE
    BY CodeBecomes
  <2> HIDE DEF new
  <2> QED
    BY <2>1, <2>2, CodesEnd DEF CodesInv
<1> QED
  BY <1>1, <1>2, <1>3, <1>4

\* Pairing: a use is spent on a device, or it was given back.
LEMMA PairKeepsCodes ==
  ASSUME CodesInv, NEW s \in Slots, NEW d \in Devices, NEW c \in Codes \cup {NoDevice},
         NEW signed \in BOOLEAN, NEW with, HandlePair(s, d, c, signed, with)
  PROVE  CodesInv'
<1>1. CASE UNCHANGED <<code, enrolled>>
  BY <1>1 DEF CodesInv, Unminted, CodeUsesAddUp
<1>2. CASE c \in Codes /\ code' = [code EXCEPT ![c].there = FALSE] /\ enrolled' = enrolled
  <2> DEFINE new == [code[c] EXCEPT !.there = FALSE]
  <2>1. code' = [code EXCEPT ![c] = new] /\ enrolled' = enrolled
    BY <1>2 DEF CodesInv
  <2>2. new \in CodeRecord /\ new.minted = code[c].minted /\ new.there = FALSE
    BY <1>2, CodeBecomes
  <2> HIDE DEF new
  <2> QED
    BY <1>2, <2>1, <2>2, CodesEnd DEF CodesInv
<1>3. CASE c \in Codes /\ Live(c) /\ code' = [code EXCEPT ![c] = Release(Reserve(@))] /\ enrolled' = enrolled
  <2>1. code' = code
    BY <1>3, UseBecomes DEF CodesInv
  <2> QED
    BY <1>1, <1>3, <2>1
<1>4. CASE /\ c \in Codes /\ Live(c) /\ code' = [code EXCEPT ![c] = Reserve(@)]
           /\ enrolled' = [enrolled EXCEPT ![c] = @ + 1]
  <2> DEFINE new == Reserve(code[c])
  <2>1. code' = [code EXCEPT ![c] = new] /\ enrolled' = [enrolled EXCEPT ![c] = @ + 1]
    BY <1>4 DEF CodesInv
  <2>2. /\ new \in CodeRecord /\ new.left = code[c].left - 1 /\ new.minted = code[c].minted
        /\ new.there = code[c].there
    BY <1>4, UseBecomes
  <2>3. code[c] \in CodeRecord /\ (code[c].there) = TRUE /\ code[c].left > 0
    BY <1>4 DEF Live, CodesInv, CodeRecord
  <2> HIDE DEF new
  <2>4. code' \in [Codes -> CodeRecord] /\ enrolled' \in [Codes -> Nat]
    BY <1>4, <2>1, <2>2 DEF CodesInv
  <2>5. Unminted'
    BY <1>4, <2>1, <2>2, <2>3 DEF CodesInv, Unminted, CodeRecord
  <2>6. enrolled[c] + code[c].left = CodeUses
    BY <1>4, <2>3 DEF CodesInv, CodeUsesAddUp
  <2>7. ASSUME NEW b \in Codes
        PROVE  enrolled'[b] <= CodeUses /\ (code'[b].there => enrolled'[b] + code'[b].left = CodeUses)
    <3>1. CASE b = c
      <4>1. code'[b] = new /\ enrolled'[b] = enrolled[c] + 1
        BY <1>4, <2>1, <3>1 DEF CodesInv
      <4>2. enrolled[c] \in Nat /\ code[c].left \in Nat /\ CodeUses \in Nat
        BY <1>4, <2>3, SessionConstants DEF SessionConstants, CodesInv, CodeRecord
      <4> QED
        BY <2>2, <2>3, <2>6, <4>1, <4>2
    <3>2. CASE b # c
      BY <2>1, <3>2 DEF CodesInv, CodeUsesAddUp
    <3> QED
      BY <3>1, <3>2
  <2>8. CodeUsesAddUp'
    BY <2>7 DEF CodeUsesAddUp
  <2> QED
    BY <2>4, <2>5, <2>8 DEF CodesInv
<1> QED
  BY <1>1, <1>2, <1>3, <1>4 DEF HandlePair, Usable

LEMMA CodesStepKeep == CodesInv /\ [Next]_vars => CodesInv'
<1> SUFFICES ASSUME CodesInv, [Next]_vars PROVE CodesInv'
  OBVIOUS
<1>1. ASSUME UNCHANGED <<code, enrolled>> PROVE CodesInv'
  BY <1>1 DEF CodesInv, Unminted, CodeUsesAddUp
<1>2. CASE \/ ListCodes \/ \E c \in Codes : CreatePairingCode(c) \/ CodeExpires(c) \/ RevokeCode(c)
  BY <1>2, CodesListed
<1>3. ASSUME NEW s \in Slots, NEW d \in Devices, NEW c \in Codes \cup {NoDevice},
             NEW signed \in BOOLEAN, NEW with \in Company, HandlePair(s, d, c, signed, with)
      PROVE  CodesInv'
  BY <1>3, PairKeepsCodes
<1>4. CASE \/ Start \/ Stop \/ BanTime \/ SweepDeadSockets \/ UNCHANGED vars
           \/ \E d \in Devices : RevokeDevice(d) \/ DeleteDevice(d)
           \/ \E s \in Slots : Upgrade(s) \/ SocketGone(s) \/ PeerLeaves(s) \/ PeerVanishes(s)
           \/ \E s \in Slots : HandshakeTimeout(s) \/ Destroy(s) \/ Pong(s) \/ HandleSpent(s) \/ FailLands(s)
           \/ \E s \in Slots, d \in Devices, signed \in BOOLEAN, with \in Company : HandleAuth(s, d, signed, with)
  BY <1>1, <1>4 DEF Start, Stop, BanTime, SweepDeadSockets, RevokeDevice, DeleteDevice, Upgrade, SocketGone,
     PeerLeaves, PeerVanishes, HandshakeTimeout, Destroy, Pong, HandleSpent, FailLands, HandleAuth, vars, storeVars
<1> QED
  BY <1>2, <1>3, <1>4 DEF Next

-----------------------------------------------------------------------------
\* Every use of a pairing code is unspent or one device, however pairings are refused, interrupted
\* or repeated (reserveCode and releaseCode in handlePair).
THEOREM NoUseIsLost == Spec => []CodeUsesAddUp
<1>1. CodesInv => CodeUsesAddUp
  BY DEF CodesInv
<1> QED
  BY <1>1, CodesStart, CodesStepKeep, PTL DEF Spec

\* Where no socket fails in the turn that verifies its signature: the guard's counts are exactly
\* the sessions that are there, and a device is online through exactly its live ones (Guard.admit
\* and release, promote, closeSession, stop), ...
THEOREM SessionsAreCounted ==
  ASSUME ErrorsInFlight = FALSE
  PROVE  Spec => []SessionsAddUp
<1>1. SessionsInv => SessionsAddUp
  BY DEF SessionsInv, SessionsAddUp
<1>2. SessionsInv /\ [Next]_vars => SessionsInv'
  BY SessionsStepKeeps
<1> QED
  BY <1>1, <1>2, SessionsStart, PTL DEF Spec

\* ... and none that is revoked or deleted is served (revokeDevice, deleteDevice, handleAuth).
THEOREM RevokedAreOut ==
  ASSUME ErrorsInFlight = FALSE
  PROVE  Spec => []RevokedStaysOut
<1>1. SessionsInv => RevokedStaysOut
  BY DEF SessionsInv
<1>2. SessionsInv /\ [Next]_vars => SessionsInv'
  BY SessionsStepKeeps
<1> QED
  BY <1>1, <1>2, SessionsStart, PTL DEF Spec

-----------------------------------------------------------------------------
(* Bans.  What failed makes one longer or leaves it as it is, and what succeeded clears no more  *)
(* than its count of failures.                                                                   *)
BanRecord == [running : BOOLEAN, level : 0..MaxLevel, failures : Nat]
BansInv == ban \in [Addresses -> BanRecord]

LEMMA BansStart == Init => BansInv
BY SessionConstants DEF SessionConstants, Init, BansInv, BanRecord, NoBan

LEMMA OneBan ==
  ASSUME BansInv, NEW i \in Addresses, NEW b \in BanRecord, ban' = [ban EXCEPT ![i] = b],
         ban[i].running /\ ~b.running => BanRunsOut(i), b.level < ban[i].level => SweepBan(i)
  PROVE  BansInv' /\ BanStep
<1>1. ban' \in [Addresses -> BanRecord] /\ ban'[i] = b /\ \A k \in Addresses : k # i => ban'[k] = ban[k]
  BY DEF BansInv
<1>2. ASSUME NEW k \in Addresses
      PROVE  (ban[k].running /\ ~ban'[k].running => BanRunsOut(k)) /\ (ban'[k].level < ban[k].level => SweepBan(k))
  <2>1. CASE k = i
    BY <1>1, <2>1
  <2>2. CASE k # i
    <3>1. ban[k] \in BanRecord /\ ban'[k] = ban[k]
      BY <1>1, <2>2 DEF BansInv
    <3>2. ban[k].level \in Int
      BY <3>1, SessionConstants DEF BanRecord, SessionConstants
    <3>3. QED
      BY <3>1, <3>2
  <2>3. QED
    BY <2>1, <2>2
<1>3. QED
  BY <1>1, <1>2 DEF BansInv, BanStep

LEMMA BansStepKeep == BansInv /\ [Next]_vars => BansInv' /\ BanStep
<1> SUFFICES ASSUME BansInv, [Next]_vars PROVE BansInv' /\ BanStep
  OBVIOUS
<1> USE SessionConstants DEF SessionConstants
<1>1. \A i \in Addresses : ban[i] \in BanRecord
  BY DEF BansInv
<1>2. ASSUME ban' = ban PROVE BansInv' /\ BanStep
  <2>1. \A i \in Addresses : ban[i].level \in Int
    BY <1>1 DEF BanRecord
  <2>2. QED
    BY <1>2, <2>1 DEF BansInv, BanStep
<1>3. ASSUME NEW i \in Addresses, BanRunsOut(i) \/ WindowPasses(i) \/ SweepBan(i) PROVE BansInv' /\ BanStep
  <2>1. CASE BanRunsOut(i)
    <3> DEFINE b == [ban[i] EXCEPT !.running = FALSE]
    <3>1. ban' = [ban EXCEPT ![i] = b]
      BY <2>1 DEF BanRunsOut
    <3>2. b \in BanRecord /\ b.level = ban[i].level
      BY <1>1 DEF BanRecord
    <3>3. ~(b.level < ban[i].level)
      BY <1>1, <3>2 DEF BanRecord
    <3> HIDE DEF b
    <3>4. QED
      BY <2>1, <3>1, <3>2, <3>3, OneBan
  <2>2. CASE WindowPasses(i)
    <3> DEFINE b == [ban[i] EXCEPT !.failures = 0]
    <3>1. ban' = [ban EXCEPT ![i] = b]
      BY <2>2 DEF WindowPasses
    <3>2. b \in BanRecord /\ ~(b.level < ban[i].level) /\ b.running = ban[i].running
      BY <1>1 DEF BanRecord
    <3>3. QED
      BY <3>1, <3>2, OneBan
  <2>3. CASE SweepBan(i)
    <3>1. ban' = [ban EXCEPT ![i] = NoBan] /\ ~ban[i].running
      BY <2>3 DEF SweepBan
    <3>2. NoBan \in BanRecord
      BY DEF BanRecord, NoBan
    <3>3. QED
      BY <2>3, <3>1, <3>2, OneBan
  <2>4. QED
    BY <1>3, <2>1, <2>2, <2>3
<1>4. ASSUME NEW i \in Addresses, ban' = [ban EXCEPT ![i] = Failed(@)] PROVE BansInv' /\ BanStep
  <2> DEFINE b == Failed(ban[i])
  <2>1. ban[i].level \in 0..MaxLevel /\ ban[i].failures \in Nat /\ ban[i].running \in BOOLEAN
    BY <1>1 DEF BanRecord
  <2>2. Smaller(ban[i].level + 1, MaxLevel) \in 0..MaxLevel /\ ~(Smaller(ban[i].level + 1, MaxLevel) < ban[i].level)
    BY <2>1 DEF Smaller
  <2>3. b \in BanRecord /\ ~(b.level < ban[i].level) /\ (ban[i].running => b.running)
    <3>1. CASE ban[i].failures + 1 >= MaxFailures
      <4>1. b = [running |-> TRUE, level |-> Smaller(ban[i].level + 1, MaxLevel), failures |-> 0]
        BY <3>1 DEF Failed
      <4>2. QED
        BY <2>2, <4>1 DEF BanRecord
    <3>2. CASE ~(ban[i].failures + 1 >= MaxFailures)
      <4>1. b = [ban[i] EXCEPT !.failures = ban[i].failures + 1]
        BY <3>2 DEF Failed
      <4>2. QED
        BY <1>1, <2>1, <4>1 DEF BanRecord
    <3>3. QED
      BY <3>1, <3>2
  <2> HIDE DEF b
  <2>4. ban' = [ban EXCEPT ![i] = b]
    BY <1>4 DEF b
  <2>5. QED
    BY <2>3, <2>4, OneBan
<1>5. ASSUME NEW i \in Addresses, ban' = [ban EXCEPT ![i] = Succeeded(@)] PROVE BansInv' /\ BanStep
  <2> DEFINE b == Succeeded(ban[i])
  <2>1. ban[i].level \in 0..MaxLevel /\ ban[i] \in BanRecord
    BY <1>1 DEF BanRecord
  <2>2. b \in BanRecord /\ ~(b.level < ban[i].level) /\ (ban[i].running => b.running)
    <3>1. CASE b = NoBan
      <4>1. ~ban[i].running /\ ban[i].level = 0
        BY <2>1, <3>1 DEF Succeeded, NoBan, BanRecord
      <4>2. QED
        BY <3>1, <4>1 DEF NoBan, BanRecord
    <3>2. CASE b = [ban[i] EXCEPT !.failures = 0]
      BY <2>1, <3>2 DEF BanRecord
    <3>3. QED
      BY <3>1, <3>2 DEF Succeeded
  <2> HIDE DEF b
  <2>3. ban' = [ban EXCEPT ![i] = b]
    BY <1>5 DEF b
  <2>4. QED
    BY <2>2, <2>3, OneBan
<1>6. \A s \in Slots : AddressOf[s] \in Addresses
  OBVIOUS
<1>7. CASE BanTime
  BY <1>3, <1>7 DEF BanTime
<1>8. CASE \E s \in Slots : FailLands(s)
  BY <1>4, <1>6, <1>8 DEF FailLands
<1>9. ASSUME NEW s \in Slots, NEW d, NEW with, Promote(s, d, with) PROVE BansInv' /\ BanStep
  BY <1>5, <1>6, <1>9 DEF Promote
<1>10. ASSUME NEW s, NEW with, Reject(s, with) PROVE BansInv' /\ BanStep
  BY <1>2, <1>10 DEF Reject
<1>11. CASE \E s \in Slots, d \in Devices, signed \in BOOLEAN, with \in Company :
              HandleAuth(s, d, signed, with) \/ \E c \in Codes \cup {NoDevice} : HandlePair(s, d, c, signed, with)
  BY <1>9, <1>10, <1>11 DEF HandleAuth, HandlePair
<1>12. CASE \/ Start \/ Stop \/ ListCodes \/ SweepDeadSockets \/ UNCHANGED vars
            \/ \E c \in Codes : CreatePairingCode(c) \/ CodeExpires(c) \/ RevokeCode(c)
            \/ \E d \in Devices : RevokeDevice(d) \/ DeleteDevice(d)
            \/ \E s \in Slots : Upgrade(s) \/ SocketGone(s) \/ PeerLeaves(s) \/ PeerVanishes(s)
            \/ \E s \in Slots : HandshakeTimeout(s) \/ Destroy(s) \/ Pong(s) \/ HandleSpent(s)
  BY <1>2, <1>12 DEF Start, Stop, ListCodes, SweepDeadSockets, CreatePairingCode, CodeExpires, RevokeCode, RevokeDevice,
     DeleteDevice, Upgrade, SocketGone, PeerLeaves, PeerVanishes, HandshakeTimeout, Destroy, Pong, HandleSpent, vars, storeVars
<1>13. QED
  BY <1>7, <1>8, <1>11, <1>12 DEF Next

\* A ban ends when its time is up, whatever succeeds meanwhile on the sockets that were open, and
\* the next one is no shorter until the record goes stale (Guard.fail, succeed and sweep), for any
\* addresses, levels and limits, and with the sockets that fail in flight as well.
THEOREM BansAreServed == Spec => BansRunTheirCourse
<1>1. BansInv /\ [Next]_vars => [BanStep]_vars
  BY BansStepKeep
<1>2. BansInv /\ [Next]_vars => BansInv'
  BY BansStepKeep
<1>3. QED
  BY <1>1, <1>2, BansStart, PTL DEF Spec, BansRunTheirCourse
=============================================================================
