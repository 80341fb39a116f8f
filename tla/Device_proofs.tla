--------------------------- MODULE Device_proofs ---------------------------
(* Proofs about the other ends of the wire: a client's connection and its     *)
(* alarm, the list of hubs, the calls of a dashboard, and the private seeds.  *)
EXTENDS Client, Sources, WebCall, Credentials, SequenceTheorems, TLAPS

----------------------------------------------------------------------------
(* One client, for any deadlines: its way back to the hub, and its alarm.    *)

-----------------------------------------------------------------------------
(* The alarm *)

Clocks == watch \in Off..Deadline /\ silent \in 0..Patience /\ hold \in 0..Farewell
Asked == probing \in Nat /\ stirred \in Nat /\ stirred <= probing
Says ==
  /\ spec \in BOOLEAN /\ wanted \in BOOLEAN /\ missing \in BOOLEAN /\ probes \in BOOLEAN
  /\ spurious \in BOOLEAN /\ Asked
\* A watch that runs will not ring before the hub has been silent for the deadline; and nothing
\* has been heard since a question that is not stirred was asked.
Warranted == silent >= Deadline /\ hold = 0
Fair == /\ watch # Off => silent + watch >= Deadline
        /\ stirred < probing => Warranted
AlarmInv == Clocks /\ Says /\ Fair /\ AlarmIsTrue

LEMMA Spans ==
  /\ Deadline \in Nat /\ Deadline > 0 /\ Farewell \in Nat /\ Farewell > 0 /\ Patience \in Nat
  /\ Deadline < Patience /\ Backoff \in Nat /\ Off = -1
BY ClientConstants DEF ClientConstants, Off

LEMMA AlarmStarts == ClientInit => AlarmInv
<1> SUFFICES ASSUME ClientInit PROVE AlarmInv
  OBVIOUS
<1>1. watch = Off /\ silent = 0 /\ hold = 0 /\ missing = FALSE /\ probing = 0 /\ stirred = 0
  BY DEF ClientInit
<1>2. Clocks
  BY <1>1, Spans DEF Clocks
<1>3. Says
  <2>1. Asked
    BY <1>1 DEF Asked
  <2>2. QED
    BY <2>1 DEF ClientInit, Says
<1>4. Fair /\ AlarmIsTrue
  BY <1>1 DEF Fair, Warranted, AlarmIsTrue
<1>5. QED
  BY <1>2, <1>3, <1>4 DEF AlarmInv

\* A watch that is set anew has the whole deadline before it.
LEMMA Armed ==
  ASSUME NEW s \in BOOLEAN, NEW w \in BOOLEAN
  PROVE  Watching(s, w) \in Off..Deadline /\ (Watching(s, w) # Off => Watching(s, w) = Deadline)
BY Spans DEF Watching

LEMMA HeardKeeps ==
  ASSUME AlarmInv, NEW s \in BOOLEAN, Heard(s), wanted' \in BOOLEAN,
         spec' \in BOOLEAN, probes' = probes, probing' = probing
  PROVE  AlarmInv'
<1>1. /\ missing' = FALSE /\ hold' = 0 /\ silent' = 0 /\ watch' = Watching(s, wanted)
      /\ spurious' = FALSE /\ stirred' = probing
  BY DEF Heard, Stirs
<1>2. wanted \in BOOLEAN /\ probes \in BOOLEAN /\ probing \in Nat
  BY DEF AlarmInv, Says, Asked
<1>3. watch' \in Off..Deadline /\ (watch' # Off => watch' = Deadline)
  BY <1>1, <1>2, Armed
<1>4. Clocks'
  BY <1>1, <1>3, Spans DEF Clocks
<1>5. Says'
  <2>1. Asked'
    BY <1>1, <1>2 DEF Asked
  <2>2. QED
    BY <1>1, <1>2, <2>1 DEF Says
<1>6. Fair'
  BY <1>1, <1>2, <1>3, Spans DEF Fair, Warranted
<1>7. AlarmIsTrue'
  BY <1>1 DEF AlarmIsTrue
<1>8. QED
  BY <1>4, <1>5, <1>6, <1>7 DEF AlarmInv

\* Whoever has left has no watch and no alarm; a reconnect does not touch them.
LEMMA AlarmRests ==
  ASSUME AlarmInv, wanted' \in BOOLEAN, probes' = probes,
         \/ /\ spec' \in BOOLEAN /\ UNCHANGED <<probing, stirred, spurious, watch, hold, missing>>
            /\ silent' = silent \/ (~missing /\ watch = Off /\ ~(probing > 0) /\ silent' = 0)
         \/ UNCHANGED <<spec, probing, hold, silent>> /\ watch' = Off /\ Stirs
         \/ /\ spec' = FALSE /\ probing' = 0 /\ stirred' = 0 /\ spurious' = FALSE
            /\ watch' = Off /\ missing' = FALSE /\ hold' = 0 /\ silent' = 0
  PROVE  AlarmInv'
<1> USE Spans
<1>1. Clocks /\ Says /\ Fair /\ AlarmIsTrue
  BY DEF AlarmInv
<1>2. CASE /\ spec' \in BOOLEAN /\ UNCHANGED <<probing, stirred, spurious, watch, hold, missing>>
           /\ silent' = silent \/ (~missing /\ watch = Off /\ ~(probing > 0) /\ silent' = 0)
  <2>1. Clocks' /\ Says'
    BY <1>1, <1>2 DEF Clocks, Says, Asked
  <2>2. CASE silent' = silent
    BY <1>1, <1>2, <2>1, <2>2 DEF AlarmInv, Fair, Warranted, AlarmIsTrue
  <2>3. CASE ~missing /\ watch = Off /\ ~(probing > 0)
    <3>1. ~(stirred' < probing')
      BY <1>1, <1>2, <2>3 DEF Says, Asked
    <3>2. Fair' /\ AlarmIsTrue'
      BY <1>2, <2>3, <3>1 DEF Fair, AlarmIsTrue
    <3>3. QED
      BY <2>1, <3>2 DEF AlarmInv
  <2>4. QED
    BY <1>2, <2>2, <2>3
<1>3. CASE UNCHANGED <<spec, probing, hold, silent>> /\ watch' = Off /\ Stirs
  <2>1. /\ missing' = FALSE /\ spurious' = FALSE /\ stirred' = probing /\ probing' = probing
        /\ probing \in Nat /\ watch' = Off /\ spec' = spec /\ hold' = hold /\ silent' = silent
    BY <1>1, <1>3 DEF Stirs, Says, Asked
  <2>a. Asked'
    BY <2>1 DEF Asked
  <2>c. Clocks'
    BY <1>1, <2>1 DEF Clocks
  <2>s. Says'
    BY <1>1, <2>1, <2>a DEF Says
  <2>2. Clocks' /\ Says'
    BY <2>c, <2>s
  <2>3. Fair' /\ AlarmIsTrue'
    BY <2>1 DEF Fair, Warranted, AlarmIsTrue
  <2>4. QED
    BY <2>2, <2>3 DEF AlarmInv
<1>4. CASE /\ spec' = FALSE /\ probing' = 0 /\ stirred' = 0 /\ spurious' = FALSE
           /\ watch' = Off /\ missing' = FALSE /\ hold' = 0 /\ silent' = 0
  <2>a. Asked'
    BY <1>4 DEF Asked
  <2>c. Clocks'
    BY <1>1, <1>4 DEF Clocks
  <2>s. Says'
    BY <1>1, <1>4, <2>a DEF Says
  <2>1. Clocks' /\ Says'
    BY <2>c, <2>s
  <2>2. Fair' /\ AlarmIsTrue'
    BY <1>4 DEF Fair, Warranted, AlarmIsTrue
  <2>3. QED
    BY <2>1, <2>2 DEF AlarmInv
<1>5. QED
  BY <1>2, <1>3, <1>4

LEMMA AlarmSteps == AlarmInv /\ [ClientNext]_clientVars => AlarmInv'
<1> SUFFICES ASSUME AlarmInv, [ClientNext]_clientVars PROVE AlarmInv'
  OBVIOUS
<1> USE Spans
<1>1. /\ wanted \in BOOLEAN /\ spec \in BOOLEAN /\ missing \in BOOLEAN /\ probes \in BOOLEAN
      /\ spurious \in BOOLEAN /\ probing \in Nat /\ stirred \in Nat /\ stirred <= probing
  BY DEF AlarmInv, Says, Asked
<1>2. CASE Connect \/ Pair
  BY <1>1, <1>2, AlarmRests DEF Connect, Pair, contract
<1>3. CASE \/ Loaded \/ KeysMade \/ Disconnect \/ Resume \/ Restart \/ ReconnectFires \/ KeepaliveFires
           \/ DeadlineFires
  BY <1>1, <1>3, AlarmRests DEF Loaded, KeysMade, Disconnect, Resume, Restart, ReconnectFires, KeepaliveFires,
       DeadlineFires, contract, watchVars, ReconnectsNow
<1>4. CASE HubEnrols \/ UNCHANGED clientVars \/ (\E x \in signing : Signed(x)) \/ \E b \in BOOLEAN : StrayCloses(b)
  <2>1. /\ wanted' = wanted /\ probes' = probes
        /\ UNCHANGED <<spec, probing, stirred, spurious, watch, hold, missing, silent>>
    BY <1>4 DEF HubEnrols, Signed, StrayCloses, clientVars, linkVars, contract, watchVars
  <2>2. QED
    BY <1>1, <2>1, AlarmRests
<1>5. CASE Hello \/ WrongHub \/ Enrolled \/ Authenticated \/ Refused \/ Frame \/ WatchdogSpec
  <2>1. Heard(spec) \/ Heard(TRUE)
    BY <1>5 DEF Hello, WrongHub, Enrolled, Authenticated, Refused, Frame, WatchdogSpec, GetsReady
  <2>2. wanted' \in BOOLEAN /\ spec' \in BOOLEAN /\ probes' = probes /\ probing' = probing
    BY <1>1, <1>5 DEF Hello, WrongHub, Enrolled, Authenticated, Refused, Frame, WatchdogSpec, contract, linkVars
  <2>3. QED
    BY <1>1, <2>1, <2>2, HeardKeeps
<1>6. CASE Bye \/ Revoked
  <2>1. /\ missing' = FALSE /\ silent' = 0 /\ watch' = Off /\ hold' \in {Farewell, 0}
        /\ wanted' = wanted /\ spec' \in {spec, FALSE} /\ probes' = probes /\ probing' = probing
        /\ spurious' = FALSE /\ stirred' = probing
    BY <1>6 DEF Bye, Revoked, Stirs, contract, linkVars
  <2>2. Clocks'
    BY <2>1 DEF Clocks
  <2>a. Asked'
    BY <1>1, <2>1 DEF Asked
  <2>3. Says'
    BY <1>1, <2>1, <2>a DEF Says
  <2>4. Fair' /\ AlarmIsTrue'
    BY <1>1, <2>1 DEF Fair, Warranted, AlarmIsTrue
  <2>5. QED
    BY <2>2, <2>3, <2>4 DEF AlarmInv
<1>7. CASE Silence
  <2> DEFINE keeps == hold > 0 /\ ~missing
  <2>1. /\ watch = 0
        /\ watch' = (IF keeps THEN Watching(spec, wanted) ELSE Off)
        /\ missing' = (missing \/ (~keeps /\ ~probes))
        /\ probing' = IF probes /\ (~keeps /\ ~missing) THEN probing + 1 ELSE probing
        /\ wanted' = wanted /\ spec' = spec /\ probes' = probes /\ hold' = hold /\ silent' = silent
        /\ stirred' = stirred /\ spurious' = spurious
    BY <1>7 DEF Silence, Asks, linkVars
  <2>2. Watching(spec, wanted) \in Off..Deadline /\ (Watching(spec, wanted) # Off => Watching(spec, wanted) = Deadline)
    BY <1>1, Armed
  <2>3. silent >= Deadline /\ silent \in Nat /\ hold \in Nat
    BY <2>1 DEF AlarmInv, Clocks, Fair
  <2>4. watch' \in Off..Deadline /\ (watch' # Off => watch' = Deadline)
    BY <2>1, <2>2
  <2>k. ~keeps /\ ~missing => Warranted
    BY <2>3 DEF Warranted
  <2>w. missing' => missing \/ ~keeps
    BY <2>1
  <2>p. probing' = probing \/ (probing' = probing + 1 /\ ~keeps /\ ~missing)
    BY <2>1
  <2>h. silent' = silent /\ hold' = hold /\ stirred' = stirred /\ spurious' = spurious
    BY <2>1
  <2>6. Clocks'
    BY <2>1, <2>4 DEF AlarmInv, Clocks
  <2>7. Says'
    <3>1. Asked'
      BY <1>1, <2>1, <2>p DEF Asked
    <3>2. missing' \in BOOLEAN
      BY <1>1, <2>1
    <3>3. QED
      BY <1>1, <2>1, <3>1, <3>2 DEF Says
  <2> HIDE DEF keeps
  <2>8. stirred' < probing' => Warranted'
    <3>1. Warranted' <=> Warranted
      BY <2>h DEF Warranted
    <3>2. CASE probing' = probing
      BY <3>1, <3>2, <2>h DEF AlarmInv, Fair
    <3>3. CASE ~keeps /\ ~missing
      BY <3>1, <3>3, <2>k
    <3>4. QED
      BY <2>p, <3>2, <3>3
  <2>9. watch' # Off => silent' + watch' >= Deadline
    BY <2>3, <2>4, <2>h
  <2>10. AlarmIsTrue'
    <3>1. SUFFICES ASSUME missing', ~spurious' PROVE Warranted'
      BY DEF AlarmIsTrue, Warranted
    <3>2. Warranted' <=> Warranted
      BY <2>h DEF Warranted
    <3>3. CASE missing
      BY <3>1, <3>2, <3>3, <2>h DEF AlarmInv, AlarmIsTrue, Warranted
    <3>4. CASE ~missing
      BY <3>1, <3>2, <3>4, <2>k, <2>w
    <3>5. QED
      BY <3>3, <3>4
  <2>11. QED
    BY <2>6, <2>7, <2>8, <2>9, <2>10 DEF AlarmInv, Fair
<1>8. CASE ClientTick
  <2>1. /\ watch # 0 /\ watch' = (IF watch > 0 THEN watch - 1 ELSE watch)
        /\ hold' = (IF hold > 0 THEN hold - 1 ELSE hold)
        /\ silent' = (IF silent < Patience THEN silent + 1 ELSE silent)
        /\ wanted' = wanted /\ spec' = spec /\ probes' = probes /\ probing' = probing /\ missing' = missing
        /\ stirred' = stirred /\ spurious' = spurious
    BY <1>8 DEF ClientTick, Less, linkVars, contract
  <2>2. Clocks'
    BY <2>1 DEF AlarmInv, Clocks
  <2>3. (watch' # Off => silent' + watch' >= Deadline) /\ (Warranted => Warranted')
    BY <2>1 DEF AlarmInv, Clocks, Fair, Warranted
  <2>4. Fair' /\ AlarmIsTrue'
    <3>1. Fair /\ AlarmIsTrue
      BY DEF AlarmInv
    <3>2. QED
      BY <2>1, <2>3, <3>1 DEF Fair, AlarmIsTrue, Warranted
  <2>5. Says'
    BY <1>1, <2>1 DEF Says, Asked
  <2>6. QED
    BY <2>2, <2>4, <2>5 DEF AlarmInv
<1>9. ASSUME NEW b \in BOOLEAN, SocketCloses(b) PROVE AlarmInv'
  <2>1. /\ watch' = watch \/ watch' = Watching(spec, wanted)
        /\ UNCHANGED <<wanted, spec, probes, probing, stirred, spurious, hold, missing, silent>>
    BY <1>9 DEF SocketCloses, contract
  <2>2. Watching(spec, wanted) \in Off..Deadline /\ (Watching(spec, wanted) # Off => Watching(spec, wanted) = Deadline)
    BY <1>1, Armed
  <2>3. Clocks' /\ AlarmIsTrue'
    BY <2>1, <2>2 DEF AlarmInv, Clocks, AlarmIsTrue
  <2>4. Says'
    BY <1>1, <2>1 DEF Says, Asked
  <2>5. Fair'
    BY <2>1, <2>2 DEF AlarmInv, Clocks, Fair, Warranted
  <2>6. QED
    BY <2>3, <2>4, <2>5 DEF AlarmInv
<1>10. ASSUME NEW b \in BOOLEAN, NEW l \in BOOLEAN, Probed(b, l) PROVE AlarmInv'
  <2>1. /\ probing > 0 /\ probing' = probing - 1
        /\ \/ l = TRUE /\ stirred > 0 /\ stirred' = stirred - 1
           \/ l = FALSE /\ stirred < probing /\ stirred' = stirred
        /\ missing' = (missing \/ b) /\ spurious' = (spurious \/ (b /\ l /\ ~missing))
        /\ watch' = watch \/ watch' = Watching(spec, wanted)
        /\ UNCHANGED <<wanted, spec, probes, hold, silent>>
    BY <1>10 DEF Probed, linkVars
  <2>2. Watching(spec, wanted) \in Off..Deadline /\ (Watching(spec, wanted) # Off => Watching(spec, wanted) = Deadline)
    BY <1>1, Armed
  <2>3. Clocks'
    BY <2>1, <2>2 DEF AlarmInv, Clocks
  <2>4. probing' \in Nat /\ stirred' \in Nat /\ stirred' <= probing' /\ (stirred' < probing' => stirred < probing)
    BY <1>1, <2>1
  <2>5. Says'
    <3>1. Asked'
      BY <2>4 DEF Asked
    <3>2. QED
      BY <1>1, <2>1, <3>1 DEF Says
  <2>6. Warranted' <=> Warranted
    BY <2>1 DEF Warranted
  <2>7. AlarmIsTrue'
    <3>1. SUFFICES ASSUME missing', ~spurious' PROVE Warranted'
      BY DEF AlarmIsTrue, Warranted
    <3>2. CASE missing
      BY <3>1, <3>2, <2>1, <2>6 DEF AlarmInv, AlarmIsTrue, Warranted
    <3>3. CASE ~missing
      <4>1. b /\ ~l
        BY <3>1, <3>3, <2>1
      <4>2. stirred < probing
        BY <4>1, <2>1
      <4>3. QED
        BY <4>2, <2>6 DEF AlarmInv, Fair
    <3>4. QED
      BY <3>2, <3>3
  <2>8. Fair'
    <3>1. watch' # Off => silent' + watch' >= Deadline
      BY <2>1, <2>2 DEF AlarmInv, Clocks, Fair
    <3>2. QED
      BY <2>4, <2>6, <3>1 DEF AlarmInv, Fair
  <2>9. QED
    BY <2>3, <2>5, <2>7, <2>8 DEF AlarmInv
<1>11. QED
  BY <1>2, <1>3, <1>4, <1>5, <1>6, <1>7, <1>8, <1>9, <1>10 DEF ClientNext

\* The alarm means that the hub was silent for the whole deadline, and had not said it would be,
\* unless it was raised on an answer of isOnline() that something overtook: a frame, a farewell
\* or the application's leaving (client.ts: armWatchdog, onSilence, noteHeardFrom).
THEOREM AlarmsTellOfSilence == ClientSpec => []AlarmIsTrue
<1>1. AlarmInv => AlarmIsTrue
  BY DEF AlarmInv
<1>2. QED
  BY <1>1, AlarmStarts, AlarmSteps, PTL DEF ClientSpec

-----------------------------------------------------------------------------
(* The way back *)

Signature == [pair : BOOLEAN, fresh : BOOLEAN]
LinkShape ==
  /\ wanted \in BOOLEAN /\ stored \in BOOLEAN /\ creds \in BOOLEAN /\ rejected \in BOOLEAN
  /\ deadline \in BOOLEAN /\ keepalive \in BOOLEAN /\ cast \in BOOLEAN /\ signing \subseteq Signature
Delay == retry \in Off..Backoff
\* One socket of its own at most; the others are closing, and a client that met a wrong hub was
\* enrolled by another.
OneSocket == orphans \in Nat /\ live = orphans + (IF sock = "none" THEN 0 ELSE 1)

\* One signature at most is for the present hello, and the earlier ones come before it.
OfThisSocket == {x \in signing : x.fresh}
Signatures ==
  /\ \A x, y \in OfThisSocket : x = y
  /\ sock \in {"none", "dialled"} => OfThisSocket = {}
  /\ sock \in {"asked", "enrolled"} => signing = {}
\* Who is enrolled has no pairing under way, nor the signature of one; who got anywhere without
\* a code is enrolled; who is told to pair has nothing to come back with.
Enrolments ==
  /\ creds => stored
  /\ orphans > 0 => creds
  /\ status = "revoked" => cast
  /\ stored => code = "none" /\ status # "pairing" /\ \A x \in signing : ~x.pair
  /\ sock \in {"hello", "asked", "stale"} /\ code = "none" => stored
  /\ sock = "session" => stored
  /\ status = "unpaired" /\ opening = {} => ~creds /\ code = "none"

Settled == wanted /\ opening = {}
Connectable == Settled /\ (creds \/ code # "none") /\ ~rejected
Way ==
  \/ retry # Off \/ keepalive
  \/ sock # "none" /\ deadline
  \/ sock = "none" /\ (cast \/ ~AutoReconnect)
Ways ==
  /\ Settled /\ ~rejected /\ status = "ready" => keepalive
  /\ Connectable => Way
LinkInv == LinkShape /\ Delay /\ OneSocket /\ Signatures /\ Enrolments /\ Ways

LEMMA LinkStarts == ClientInit => LinkInv
<1> SUFFICES ASSUME ClientInit PROVE LinkInv
  OBVIOUS
<1>1. Delay /\ OneSocket
  BY ClientConstants DEF ClientInit, Delay, OneSocket, Off, ClientConstants
<1>2. ~(orphans > 0)
  BY DEF ClientInit
<1>3. LinkShape /\ Signatures /\ Ways
  BY DEF ClientInit, LinkShape, Signatures, OfThisSocket, Ways, Settled, Connectable
<1>4. Enrolments
  BY <1>2 DEF ClientInit, Enrolments
<1>5. QED
  BY <1>1, <1>3, <1>4 DEF LinkInv

LEMMA Ageing ==
  ASSUME LinkShape
  PROVE  /\ Aged \subseteq Signature /\ \A x \in Aged : x.fresh = FALSE
         /\ (\A x \in signing : ~x.pair) => \A x \in Aged : ~x.pair
         /\ signing = {} => Aged = {}
<1>1. \A x \in signing : LET y == [x EXCEPT !.fresh = FALSE] IN y \in Signature /\ y.fresh = FALSE /\ y.pair = x.pair
  BY DEF LinkShape, Signature
<1>2. QED
  BY <1>1 DEF Aged

LEMMA OpensKeeps ==
  ASSUME LinkInv, Opens, stored' = stored, code' = code, wanted' = wanted,
         orphans' = orphans, creds' = creds \/ creds' = (creds \/ stored)
  PROVE  LinkInv'
<1>1. /\ retry' = Off /\ keepalive' = FALSE /\ rejected' = FALSE /\ status' \in {"connecting", "reconnecting"}
      /\ sock' = "dialled" /\ deadline' = TRUE /\ cast' = FALSE /\ live' = live - (IF sock = "none" THEN 0 ELSE 1) + 1
      /\ signing' = Aged
  BY DEF Opens
<1>2. /\ Aged \subseteq Signature /\ \A x \in Aged : x.fresh = FALSE
      /\ (\A x \in signing : ~x.pair) => \A x \in Aged : ~x.pair
  BY Ageing DEF LinkInv
<1>3. LinkShape'
  BY <1>1, <1>2 DEF LinkInv, LinkShape
<1>4. live' = orphans + 1
  BY <1>1 DEF LinkInv, OneSocket
<1>5. OneSocket' /\ Delay'
  BY <1>1, <1>4, ClientConstants DEF LinkInv, OneSocket, Delay, Off, ClientConstants
<1>6. OfThisSocket' = {}
  BY <1>1, <1>2 DEF OfThisSocket
<1>7. Signatures'
  BY <1>1, <1>6 DEF Signatures
<1>8. Enrolments'
  BY <1>1, <1>2 DEF LinkInv, LinkShape, Enrolments
<1>9. Ways'
  BY <1>1 DEF Ways, Way
<1>10. QED
  BY <1>3, <1>5, <1>7, <1>8, <1>9 DEF LinkInv

\* An application that calls connect() or pair() waits before anything is opened.
LEMMA AsksKeeps == LinkInv /\ (Connect \/ Pair) => LinkInv'
<1> SUFFICES ASSUME LinkInv, Connect \/ Pair PROVE LinkInv'
  OBVIOUS
<1>1. /\ wanted' = TRUE /\ opening' # {} /\ UNCHANGED <<status, stored, creds, rejected, sock, live, signing, timerVars>>
      /\ orphans' = orphans /\ cast' = cast
      /\ code' = code \/ (code' = "fresh" /\ ~stored)
  BY DEF Connect, Pair
<1>2. LinkShape' /\ Delay' /\ OneSocket' /\ Signatures'
  BY <1>1 DEF LinkInv, LinkShape, Delay, OneSocket, Signatures, OfThisSocket, timerVars
<1>3. Enrolments'
  BY <1>1 DEF LinkInv, LinkShape, Enrolments
<1>4. Ways'
  BY <1>1 DEF LinkInv, Ways, Settled, Connectable
<1>5. QED
  BY <1>2, <1>3, <1>4 DEF LinkInv

\* A client that leaves, or is started again, is not one that should be connected.
LEMMA LeavesKeeps == LinkInv /\ (Disconnect \/ WrongHub \/ Restart) => LinkInv'
<1> SUFFICES ASSUME LinkInv, Disconnect \/ WrongHub \/ Restart PROVE LinkInv'
  OBVIOUS
<1>1. /\ sock' = "none" /\ OneSocket' /\ Delay' /\ stored' = stored /\ status' \in {"idle", "error"}
      /\ wanted' = FALSE \/ (wanted' = TRUE /\ creds' = FALSE /\ code' = "none")
      /\ cast' \in BOOLEAN /\ (orphans' > 0 => creds')
      /\ signing' = Aged \/ signing' = {}
      /\ code' = code \/ code' = "none"
      /\ creds' = creds \/ creds' = FALSE
      /\ rejected' \in BOOLEAN /\ deadline' \in BOOLEAN /\ keepalive' \in BOOLEAN
  <2>1. /\ sock' = "none" /\ stored' = stored /\ status' \in {"idle", "error"}
        /\ wanted' = FALSE \/ (wanted' = TRUE /\ creds' = FALSE /\ code' = "none")
        /\ signing' = Aged \/ signing' = {}
        /\ code' = code \/ code' = "none"
        /\ creds' = creds \/ creds' = FALSE
    BY DEF Disconnect, WrongHub, Restart
  <2>2. rejected' \in BOOLEAN /\ deadline' \in BOOLEAN /\ keepalive' \in BOOLEAN /\ cast' \in BOOLEAN
    BY DEF Disconnect, WrongHub, Restart, LinkInv, LinkShape, timerVars
  <2>3. retry' = retry \/ retry' = Off
    BY DEF Disconnect, WrongHub, Restart, timerVars
  <2>4. \/ live' = 0 /\ orphans' = 0
        \/ live' = live - (IF sock = "none" THEN 0 ELSE 1) /\ orphans' = orphans /\ creds' = creds
        \/ sock = "dialled" /\ creds' = creds /\ creds /\ live' = live /\ orphans' = orphans + 1
    BY DEF Disconnect, WrongHub, Restart
  <2>5. OneSocket'
    BY <2>1, <2>4 DEF LinkInv, OneSocket
  <2>o. orphans' > 0 => creds'
    BY <2>4 DEF LinkInv, Enrolments
  <2>6. retry' \in Off..Backoff
    BY <2>3, ClientConstants DEF LinkInv, Delay, Off, ClientConstants
  <2>7. QED
    BY <2>1, <2>2, <2>5, <2>6, <2>o DEF Delay
<1>2. /\ signing' \subseteq Signature /\ \A x \in signing' : x.fresh = FALSE
      /\ (\A x \in signing : ~x.pair) => \A x \in signing' : ~x.pair
  BY <1>1, Ageing DEF LinkInv
<1>3. LinkShape'
  BY <1>1, <1>2 DEF LinkInv, LinkShape
<1>5. Signatures'
  BY <1>1, <1>2 DEF Signatures, OfThisSocket
<1>6. Enrolments'
  BY <1>1, <1>2 DEF LinkInv, LinkShape, Enrolments
<1>7. Ways'
  BY <1>1 DEF Ways, Settled, Connectable
<1>8. QED
  BY <1>1, <1>3, <1>5, <1>6, <1>7 DEF LinkInv

\* scheduleReconnect(), of a client that reconnects, or is told not to
LEMMA Retrying ==
  ASSUME NEW at, Retries(at)
  PROVE  \/ (at = "unpaired" \/ rejected) /\ status' = at /\ retry' = retry
         \/ ~AutoReconnect /\ status' = "idle" /\ retry' = retry
         \/ status' = "reconnecting" /\ retry' \in 0..Backoff
BY ClientConstants DEF ClientConstants, Retries, GivesUp, Off

LEMMA ClosesKeeps ==
  ASSUME LinkInv, NEW b \in BOOLEAN, SocketCloses(b)
  PROVE  LinkInv'
<1> DEFINE at == IF b THEN "error" ELSE status
<1>1. /\ sock # "none" /\ sock' = "none" /\ live' = live - 1 /\ keepalive' = FALSE /\ signing' = Aged
      /\ UNCHANGED <<wanted, stored, creds, code, rejected, opening, orphans, cast, deadline>>
      /\ \/ (~wanted \/ at = "revoked") /\ status' = at /\ retry' = retry
         \/ at # "revoked" /\ Retries(at)
  BY DEF SocketCloses
<1>2. /\ Aged \subseteq Signature /\ \A x \in Aged : x.fresh = FALSE
      /\ (\A x \in signing : ~x.pair) => \A x \in Aged : ~x.pair
  BY Ageing DEF LinkInv
<1> HIDE DEF at
<1>3. \/ (~wanted \/ at = "revoked") /\ status' = at /\ retry' = retry
      \/ (at = "unpaired" \/ rejected) /\ status' = at /\ retry' = retry
      \/ ~AutoReconnect /\ status' = "idle" /\ retry' = retry
      \/ status' = "reconnecting" /\ retry' \in 0..Backoff
  BY <1>1, Retrying
<1>4. status' = status \/ status' \in {"error", "idle", "reconnecting"}
  BY <1>3 DEF at
<1>5. LinkShape' /\ Delay' /\ OneSocket' /\ Signatures'
  <2>2. OneSocket'
    BY <1>1 DEF LinkInv, OneSocket
  <2>3. Delay'
    BY <1>3, ClientConstants DEF LinkInv, Delay, Off, ClientConstants
  <2>4. LinkShape'
    BY <1>1, <1>2 DEF LinkInv, LinkShape
  <2>5. Signatures'
    BY <1>1, <1>2 DEF Signatures, OfThisSocket
  <2>6. QED
    BY <2>2, <2>3, <2>4, <2>5
<1>6. Enrolments'
  BY <1>1, <1>2, <1>4 DEF LinkInv, LinkShape, Enrolments
<1>7. Connectable' => Way'
  <2> SUFFICES ASSUME Connectable' PROVE Way'
    OBVIOUS
  <2>1. wanted /\ ~rejected /\ opening = {} /\ (creds \/ code # "none") /\ sock' = "none" /\ cast' = cast
    BY <1>1 DEF Connectable, Settled
  <2>2. ~(at = "unpaired")
    BY <2>1 DEF at, LinkInv, Enrolments
  <2>3. CASE at = "revoked"
    <3>1. status = "revoked"
      BY <2>3 DEF at
    <3>2. QED
      BY <3>1, <2>1 DEF LinkInv, Enrolments, Way
  <2>4. CASE ~AutoReconnect
    BY <2>1, <2>4 DEF Way
  <2>5. CASE retry' \in 0..Backoff
    BY <2>5 DEF Way, Off
  <2>6. QED
    BY <1>3, <2>1, <2>2, <2>3, <2>4, <2>5
<1>8. Ways'
  <2>1. Settled' /\ ~rejected' => status' # "ready"
    <3>1. ASSUME Settled', ~rejected', status' = "ready" PROVE FALSE
      <4>1. wanted /\ ~rejected
        BY <1>1, <3>1 DEF Settled
      <4>2. QED
        BY <1>3, <3>1, <4>1
    <3>2. QED
      BY <3>1
  <2>2. QED
    BY <1>7, <2>1 DEF Ways
<1>9. QED
  BY <1>5, <1>6, <1>8 DEF LinkInv

LEMMA DeadlineKeeps ==
  ASSUME LinkInv, DeadlineFires
  PROVE  LinkInv'
<1>1. /\ deadline' = FALSE /\ UNCHANGED <<wanted, stored, creds, rejected, opening, orphans, cast>>
  BY DEF DeadlineFires
<1>2. CASE sock = "none" \/ ~wanted \/ status = "ready"
  <2>1. UNCHANGED <<status, code, sock, live, signing, keepalive, retry>>
    BY <1>2 DEF DeadlineFires
  <2>2. LinkShape' /\ Delay' /\ OneSocket' /\ Signatures' /\ Enrolments'
    BY <1>1, <2>1 DEF LinkInv, LinkShape, Delay, OneSocket, Signatures, OfThisSocket, Enrolments
  <2>3. Connectable' => Way'
    BY <1>1, <1>2, <2>1 DEF LinkInv, Ways, Connectable, Settled, Way
  <2>4. Ways'
    BY <1>1, <2>1, <2>3 DEF LinkInv, Ways, Settled
  <2>5. QED
    BY <2>2, <2>4 DEF LinkInv
<1>3. CASE ~(sock = "none" \/ ~wanted \/ status = "ready")
  <2>1. /\ sock # "none" /\ sock' = "none" /\ live' = live - 1 /\ signing' = Aged /\ keepalive' = FALSE
        /\ \/ status = "pairing" /\ status' = "error" /\ code' = "none"
           \/ status # "pairing" /\ Retries(status) /\ code' = code
    BY <1>3 DEF DeadlineFires
  <2>2. /\ Aged \subseteq Signature /\ \A x \in Aged : x.fresh = FALSE
        /\ (\A x \in signing : ~x.pair) => \A x \in Aged : ~x.pair
    BY Ageing DEF LinkInv
  <2>3. \/ status = "pairing" /\ status' = "error" /\ code' = "none"
        \/ /\ code' = code
           /\ \/ (status = "unpaired" \/ rejected) /\ status' = status /\ retry' = retry
              \/ ~AutoReconnect /\ status' = "idle" /\ retry' = retry
              \/ status' = "reconnecting" /\ retry' \in 0..Backoff
    BY <2>1, Retrying
  <2>4. LinkShape' /\ Delay' /\ OneSocket' /\ Signatures'
    <3>2. OneSocket'
      BY <1>1, <2>1 DEF LinkInv, OneSocket
    <3>3. retry' = retry \/ retry' \in 0..Backoff
      BY <1>3, <2>3 DEF DeadlineFires
    <3>4. Delay'
      BY <3>3, ClientConstants DEF LinkInv, Delay, Off, ClientConstants
    <3>5. LinkShape'
      BY <1>1, <2>1, <2>2 DEF LinkInv, LinkShape
    <3>6. Signatures'
      BY <2>1, <2>2 DEF Signatures, OfThisSocket
    <3>7. QED
      BY <3>2, <3>4, <3>5, <3>6
  <2>5. Enrolments'
    BY <1>1, <2>1, <2>2, <2>3 DEF LinkInv, LinkShape, Enrolments
  <2>6. Connectable' => Way'
    <3> SUFFICES ASSUME Connectable' PROVE Way'
      OBVIOUS
    <3>1. opening = {} /\ (creds \/ code' # "none") /\ ~rejected
      BY <1>1 DEF Connectable, Settled
    <3>2. CASE status = "pairing" /\ code' = "none"
      BY <3>1, <3>2 DEF LinkInv, Enrolments
    <3>3. CASE status = "unpaired" /\ code' = code
      BY <3>1, <3>3 DEF LinkInv, Enrolments
    <3>4. CASE retry' \in 0..Backoff
      BY <3>4 DEF Way, Off
    <3>5. CASE ~AutoReconnect
      BY <2>1, <3>5 DEF Way
    <3>6. QED
      BY <2>3, <3>1, <3>2, <3>3, <3>4, <3>5
  <2>7. Settled' /\ ~rejected' => status' # "ready"
    BY <1>1, <1>3, <2>3
  <2>9. Ways'
    BY <2>6, <2>7 DEF Ways
  <2>10. QED
    BY <2>4, <2>5, <2>9 DEF LinkInv
<1>4. QED
  BY <1>2, <1>3

\* What leaves the link alone, and forgets no reconnect that is due, leaves the way back.
LEMMA Untouched ==
  ASSUME LinkInv, UNCHANGED linkVars, UNCHANGED <<deadline, keepalive>>, Delay', (retry # Off) => (retry' # Off)
  PROVE  LinkInv'
<1>1. LinkShape' /\ OneSocket' /\ Signatures' /\ Enrolments'
  BY DEF LinkInv, LinkShape, OneSocket, Signatures, OfThisSocket, Enrolments, linkVars
<1>2. Ways'
  BY DEF LinkInv, Ways, Connectable, Settled, Way, linkVars
<1>3. QED
  BY <1>1, <1>2 DEF LinkInv

\* The watchdog's own business, a frame and the passing of time
LEMMA WatchKeeps ==
  ASSUME LinkInv,
         \/ Frame \/ WatchdogSpec \/ Bye \/ Silence \/ ClientTick
         \/ \E b, l \in BOOLEAN : Probed(b, l)
  PROVE  LinkInv'
<1>1. UNCHANGED linkVars /\ UNCHANGED <<deadline, keepalive>> /\ (retry' = retry \/ retry' = Less(retry))
  BY DEF Frame, WatchdogSpec, Bye, Silence, ClientTick, Probed, timerVars
<1>2. Delay' /\ ((retry # Off) => (retry' # Off))
  BY <1>1, ClientConstants DEF LinkInv, Delay, Less, Off, ClientConstants
<1>3. QED
  BY <1>1, <1>2, Untouched

LEMMA OpenersKeep ==
  ASSUME LinkInv, Loaded \/ KeysMade \/ Resume \/ ReconnectFires \/ KeepaliveFires
  PROVE  LinkInv'
<1>1. /\ Opens /\ stored' = stored /\ code' = code /\ wanted' = wanted /\ orphans' = orphans
      /\ creds' = creds \/ creds' = (creds \/ stored)
  BY DEF Loaded, KeysMade, Resume, ReconnectFires, KeepaliveFires, ReconnectsNow
<1>2. QED
  BY <1>1, OpensKeeps

LEMMA HelloKeeps == ASSUME LinkInv, Hello PROVE LinkInv'
<1>1. /\ sock = "dialled" /\ UNCHANGED <<wanted, stored, creds, code, rejected, opening, live, orphans, cast, deadline, keepalive, retry>>
      /\ OfThisSocket = {}
  BY DEF Hello, timerVars, LinkInv, Signatures
<1>2. Delay'
  BY <1>1 DEF LinkInv, Delay
<1>3. CASE code = "none" /\ ~creds
  <2>1. status' = "unpaired" /\ sock' = "closing" /\ signing' = signing
    BY <1>3 DEF Hello
  <2>2. OneSocket'
    BY <1>1, <2>1 DEF LinkInv, OneSocket
  <2>3. LinkShape' /\ Signatures' /\ Enrolments'
    BY <1>1, <1>3, <2>1 DEF LinkInv, LinkShape, Signatures, OfThisSocket, Enrolments
  <2>4. Ways'
    BY <1>1, <1>3, <2>1 DEF Ways, Settled, Connectable
  <2>5. QED
    BY <1>2, <2>2, <2>3, <2>4 DEF LinkInv
<1>4. CASE ~(code = "none" /\ ~creds)
  <2> DEFINE new == [pair |-> code # "none", fresh |-> TRUE]
  <2>1. sock' = "hello" /\ status' = status /\ signing' = signing \cup {new}
    BY <1>4 DEF Hello
  <2>2. new \in Signature /\ new.fresh /\ (new.pair <=> code # "none")
    BY DEF Signature
  <2> HIDE DEF new
  <2>3. OneSocket'
    BY <1>1, <2>1 DEF LinkInv, OneSocket
  <2>4. LinkShape'
    BY <1>1, <2>1, <2>2 DEF LinkInv, LinkShape
  <2>5. \A x \in OfThisSocket' : x = new
    BY <1>1, <2>1 DEF OfThisSocket
  <2>6. Signatures'
    BY <2>1, <2>5 DEF Signatures
  <2>7. Enrolments'
    BY <1>1, <1>4, <2>1, <2>2 DEF LinkInv, LinkShape, Enrolments
  <2>8. Ways'
    BY <1>1, <2>1 DEF LinkInv, Ways, Settled, Connectable, Way
  <2>9. QED
    BY <1>2, <2>3, <2>4, <2>6, <2>7, <2>8 DEF LinkInv
<1>5. QED
  BY <1>3, <1>4

\* Whatever socket a signature is written to, it leaves the way back; of one enrolled, none is
\* of a pairing.
LEMMA SignedKeeps == ASSUME LinkInv, NEW x \in signing, Signed(x) PROVE LinkInv'
<1>1. /\ signing' = signing \ {x} /\ (x.fresh => \A y \in signing : y.fresh)
      /\ status' = IF x.pair THEN "pairing" ELSE status
      /\ sock' = IF sock \notin {"hello", "asked"} THEN sock
                 ELSE IF x.fresh /\ sock = "hello" THEN "asked"
                 ELSE IF ~x.fresh /\ sock = "hello" THEN "stale" ELSE sock
      /\ UNCHANGED <<wanted, stored, creds, code, rejected, opening, live, orphans, cast, deadline, keepalive,
                     retry>>
  BY DEF Signed, timerVars
<1>2. Delay' /\ LinkShape'
  BY <1>1 DEF LinkInv, Delay, LinkShape
<1>3. (sock = "none" <=> sock' = "none") /\ (sock = "session" <=> sock' = "session")
  BY <1>1
<1>4. OneSocket'
  BY <1>1, <1>3 DEF LinkInv, OneSocket
<1>5. sock \notin {"asked", "enrolled"}
  BY DEF LinkInv, Signatures
<1>6. sock' = "asked" => signing' = {}
  <2>1. ASSUME sock' = "asked" PROVE signing' = {}
    <3>1. x.fresh
      BY <1>1, <1>5, <2>1
    <3>2. \A y \in signing : y \in OfThisSocket
      BY <1>1, <3>1 DEF OfThisSocket
    <3>3. \A y \in signing : y = x
      BY <3>2 DEF LinkInv, Signatures
    <3>4. QED
      BY <1>1, <3>3
  <2>2. QED
    BY <2>1
<1>7. Signatures'
  <2>1. OfThisSocket' \subseteq OfThisSocket
    BY <1>1 DEF OfThisSocket
  <2>2. sock' # "enrolled" /\ (sock' \in {"none", "dialled"} => sock' = sock)
    BY <1>1, <1>5
  <2>3. QED
    BY <1>6, <2>1, <2>2 DEF LinkInv, Signatures
<1>8. stored => status' = status
  BY <1>1 DEF LinkInv, Enrolments
<1>9. sock' \in {"hello", "asked", "stale"} => sock \in {"hello", "asked", "stale"}
  BY <1>1
<1>10. Enrolments'
  BY <1>1, <1>3, <1>8, <1>9 DEF LinkInv, Enrolments
<1>11. status' \in {"pairing", status}
  BY <1>1
<1>12. Ways'
  BY <1>1, <1>3, <1>11 DEF LinkInv, Ways, Settled, Connectable, Way
<1>13. QED
  BY <1>2, <1>4, <1>7, <1>10, <1>12 DEF LinkInv

\* What the hub says to a socket whose frame it has
LEMMA AnswersKeep ==
  ASSUME LinkInv, HubEnrols \/ Enrolled \/ Authenticated \/ Refused \/ Revoked,
         sock # "none", sock' # "none", sock' # "dialled", sock' # sock
  PROVE  LinkInv'
<1>1. live' = live /\ UNCHANGED <<wanted, opening, signing, retry, orphans>>
  BY DEF HubEnrols, Enrolled, Authenticated, GetsReady, Refused, Revoked, timerVars
<1>2. Delay' /\ OneSocket'
  BY <1>1 DEF LinkInv, Delay, OneSocket
<1>3. LinkShape'
  BY <1>1 DEF HubEnrols, Enrolled, Authenticated, GetsReady, Refused, Revoked, timerVars, LinkInv, LinkShape
<1>4. Signatures'
  BY <1>1 DEF HubEnrols, Enrolled, Authenticated, GetsReady, Refused, Revoked, LinkInv, Signatures, OfThisSocket
<1>5. Enrolments' /\ Ways'
  <2>1. CASE HubEnrols
    BY <1>1, <2>1 DEF HubEnrols, timerVars, LinkInv, Enrolments, Ways, Settled, Connectable, Way
  <2>2. CASE Enrolled
    BY <1>1, <2>2 DEF Enrolled, GetsReady, LinkInv, Signatures, Enrolments, Ways, Settled, Connectable, Way
  <2>3. CASE Authenticated
    BY <1>1, <2>3 DEF Authenticated, GetsReady, LinkInv, Signatures, Enrolments, Ways, Settled, Connectable, Way
  <2>4. CASE Refused
    BY <1>1, <2>4 DEF Refused, timerVars, LinkInv, Enrolments, Ways, Settled, Connectable, Way
  <2>5. CASE Revoked
    BY <1>1, <2>5 DEF Revoked, timerVars, LinkInv, Enrolments, Ways, Settled, Connectable, Way
  <2>6. QED
    BY <2>1, <2>2, <2>3, <2>4, <2>5
<1>6. QED
  BY <1>2, <1>3, <1>4, <1>5 DEF LinkInv

\* What is heard from the socket of a wrong hub, of a client that is enrolled elsewhere, is taken
\* for the current hub's: its `ready` starts the keepalive, its refusal and its `revoked` count.
LEMMA StraysKeep ==
  ASSUME LinkInv, Authenticated \/ Refused \/ Revoked, orphans > 0, sock' = sock
  PROVE  LinkInv'
<1>1. /\ creds = TRUE /\ stored = TRUE /\ code = "none"
      /\ status # "pairing" /\ \A x \in signing : ~x.pair
  BY DEF LinkInv, LinkShape, Enrolments
<1>2. /\ live' = live /\ UNCHANGED <<wanted, stored, creds, opening, signing, retry, orphans>> /\ code' = "none"
      /\ \/ /\ status' = "ready" /\ deadline' = FALSE /\ keepalive' = TRUE
            /\ rejected' = rejected /\ cast' = cast
         \/ /\ status' = "error" /\ rejected' = TRUE
            /\ deadline' = deadline /\ keepalive' = keepalive /\ cast' = cast
         \/ /\ status' = "revoked" /\ cast' = TRUE
            /\ deadline' = deadline /\ keepalive' = keepalive /\ rejected' = rejected
  BY <1>1 DEF Authenticated, GetsReady, Refused, Revoked, timerVars
<1>3. Delay' /\ OneSocket' /\ LinkShape' /\ Signatures'
  <2>1. Delay'
    BY <1>2 DEF LinkInv, Delay
  <2>2. OneSocket'
    BY <1>2 DEF LinkInv, OneSocket
  <2>3. LinkShape'
    BY <1>2 DEF LinkInv, LinkShape
  <2>4. Signatures'
    BY <1>2 DEF LinkInv, Signatures, OfThisSocket
  <2>5. QED
    BY <2>1, <2>2, <2>3, <2>4
<1>4. Enrolments'
  BY <1>1, <1>2 DEF Enrolments
<1>5. Ways'
  BY <1>1, <1>2 DEF LinkInv, Ways, Settled, Connectable, Way
<1>6. QED
  BY <1>3, <1>4, <1>5 DEF LinkInv

LEMMA FramesKeep ==
  ASSUME LinkInv, HubEnrols \/ Enrolled \/ Authenticated \/ Refused \/ Revoked
  PROVE  LinkInv'
<1>1. \/ sock # "none" /\ sock' # "none" /\ sock' # "dialled" /\ sock' # sock
      \/ (Authenticated \/ Refused \/ Revoked) /\ orphans > 0 /\ sock' = sock
  BY DEF HubEnrols, Enrolled, Authenticated, Refused, Revoked
<1>2. QED
  BY <1>1, AnswersKeep, StraysKeep

LEMMA OrphansKeep == ASSUME LinkInv, NEW b \in BOOLEAN, StrayCloses(b) PROVE LinkInv'
<1>1. /\ orphans > 0 /\ orphans' = orphans - 1 /\ live' = live - 1 /\ status' \in {"error", status}
      /\ UNCHANGED <<wanted, stored, creds, code, rejected, opening, sock, cast, signing, timerVars>>
  BY DEF StrayCloses
<1>2. OneSocket'
  BY <1>1 DEF LinkInv, OneSocket
<1>3. LinkShape' /\ Delay' /\ Signatures'
  BY <1>1 DEF LinkInv, LinkShape, Delay, Signatures, OfThisSocket, timerVars
<1>4. orphans' > 0 => creds'
  BY <1>1 DEF LinkInv, Enrolments
<1>5. Enrolments'
  BY <1>1, <1>4 DEF LinkInv, Enrolments
<1>6. Ways'
  BY <1>1 DEF LinkInv, Ways, Settled, Connectable, Way, timerVars
<1>7. QED
  BY <1>2, <1>3, <1>5, <1>6 DEF LinkInv

LEMMA LinkSteps == LinkInv /\ [ClientNext]_clientVars => LinkInv'
<1> SUFFICES ASSUME LinkInv, [ClientNext]_clientVars PROVE LinkInv'
  OBVIOUS
<1>1. CASE UNCHANGED clientVars
  <2>1. UNCHANGED linkVars /\ UNCHANGED <<deadline, keepalive>> /\ Delay' /\ ((retry # Off) => (retry' # Off))
    BY <1>1 DEF clientVars, timerVars, LinkInv, Delay
  <2>2. QED
    BY <2>1, Untouched
<1>2. CASE Connect \/ Pair
  BY <1>2, AsksKeeps
<1>3. CASE Loaded \/ KeysMade \/ Resume \/ ReconnectFires \/ KeepaliveFires
  BY <1>3, OpenersKeep
<1>4. CASE Disconnect \/ WrongHub \/ Restart
  BY <1>4, LeavesKeeps
<1>5. CASE DeadlineFires
  BY <1>5, DeadlineKeeps
<1>6. CASE Hello
  BY <1>6, HelloKeeps
<1>7. CASE HubEnrols \/ Enrolled \/ Authenticated \/ Refused \/ Revoked
  BY <1>7, FramesKeep
<1>8. CASE \/ Frame \/ WatchdogSpec \/ Bye \/ Silence \/ ClientTick
           \/ \E b, l \in BOOLEAN : Probed(b, l)
  BY <1>8, WatchKeeps
<1>9. CASE \E b \in BOOLEAN : SocketCloses(b) \/ StrayCloses(b)
  BY <1>9, ClosesKeeps, OrphansKeep
<1>10. CASE \E x \in signing : Signed(x)
  BY <1>10, SignedKeeps
<1>11. QED
  BY <1>1, <1>2, <1>3, <1>4, <1>5, <1>6, <1>7, <1>8, <1>9, <1>10 DEF ClientNext

\* A client that should be connected has a reconnect that is due, a socket that a deadline will
\* replace, or a keepalive; it never has two sockets of its own, and handlers stay on none but those
\* of wrong hubs (client.ts: open, onclose, armConnectDeadline, scheduleReconnect, startKeepalive,
\* resume, receive).  It waits for its application where it was made not to reconnect by itself,
\* and after a refusal or a `revoked`, from whatever socket and for whatever signature.
THEOREM ThereIsAWayBack == ClientSpec => []WayBack
<1>1. LinkInv => WayBack
  BY DEF LinkInv, OneSocket, Ways, Connectable, Settled, Way, WayBack
<1>2. LinkInv /\ [ClientNext]_clientVars => LinkInv'
  BY LinkSteps
<1>3. QED
  BY <1>1, <1>2, LinkStarts, PTL DEF ClientSpec

----------------------------------------------------------------------------
(* The list of hubs of a device, for any number of them: what is stored is   *)
(* what is held, from the moment that it was read.                           *)

InStep ==
  /\ sources \in [Ids -> {"absent", "on", "off"}] /\ index \in [Ids -> {"absent", "on", "off"}]
  /\ loaded \in {"no", "restoring", "done"}
  /\ loaded = "no" => todo = {} /\ \A i \in Ids : sources[i] = "absent"
  /\ loaded # "no" => index = sources
KeptStep ==
  \A i \in Ids : index[i] # "absent" /\ index'[i] = "absent" =>
    {Task("remove", i), Task("ready", i)} \cap todo # {}

LEMMA ListStarts == SourcesInit => InStep
BY DEF SourcesInit, InStep

LEMMA ListSteps == InStep /\ [SourcesNext]_sourcesVars => InStep' /\ KeptStep
<1> SUFFICES ASSUME InStep, [SourcesNext]_sourcesVars PROVE InStep' /\ KeptStep
  OBVIOUS
<1>1. ASSUME UNCHANGED <<loaded, sources, index>>, loaded = "no" => todo' = {} PROVE InStep' /\ KeptStep
  BY <1>1 DEF InStep, KeptStep
<1>2. ASSUME loaded # "no", loaded' = loaded, NEW i \in Ids, NEW a \in {"absent", "on", "off"},
             sources' = [sources EXCEPT ![i] = a], index' = sources',
             a = "absent" => Task("remove", i) \in todo \/ Task("ready", i) \in todo
      PROVE  InStep' /\ KeptStep
  BY <1>2 DEF InStep, KeptStep
<1>3. CASE Load
  BY <1>3 DEF Load, InStep, KeptStep
<1>4. CASE Relaunch
  BY <1>4 DEF Relaunch, InStep, KeptStep
<1>5. CASE Restored
  BY <1>5 DEF Restored, InStep, KeptStep
<1>6. CASE DisconnectAll \/ UNCHANGED sourcesVars \/ \E i \in Ids : RestoreOne(i) \/ Opened(i)
  BY <1>1, <1>6 DEF DisconnectAll, RestoreOne, Opened, sourcesVars, InStep
<1>7. ASSUME todo # {} PROVE loaded # "no"
  BY <1>7 DEF InStep
<1>8. ASSUME NEW i \in Ids, AddConnects(i) \/ AddPaired(i) \/ AddReady(i) \/ Unmuted(i) \/ Muted(i) \/ Remove(i)
      PROVE  InStep' /\ KeptStep
  BY <1>1, <1>7, <1>8 DEF AddConnects, AddPaired, AddReady, Unmuted, Muted, Remove
<1>9. ASSUME NEW i \in Ids, Add(i) \/ Toggle(i) PROVE InStep' /\ KeptStep
  BY <1>2, <1>9 DEF Add, Toggle
<1>10. ASSUME NEW i \in Ids, AddFails(i) \/ RemoveDone(i) PROVE InStep' /\ KeptStep
  BY <1>2, <1>7, <1>10 DEF AddFails, RemoveDone
<1>11. QED
  BY <1>3, <1>4, <1>5, <1>6, <1>8, <1>9, <1>10 DEF SourcesNext

\* The stored list loses a hub only by its removal, or by a pairing that failed: not by what is
\* added while the list is still being read, nor by operations that overlap, nor by a relaunch
\* (sources.ts load(), add(), remove(), setEnabled()).
THEOREM TheListIsKept == SourcesSpec => ListIsKept
<1>1. InStep /\ [SourcesNext]_sourcesVars => InStep'
  BY ListSteps
<1>2. InStep /\ [SourcesNext]_sourcesVars => [KeptStep]_sourcesVars
  BY ListSteps
<1>3. QED
  BY <1>1, <1>2, ListStarts, PTL DEF SourcesSpec, ListIsKept, KeptStep

----------------------------------------------------------------------------
(* Calls in a tab of the dashboard, for any number of calls and of frames on  *)
(* their way: a tab shows and rings for the call it is rung for.              *)

TabFrame == [is : {"call", "cancel", "revoked"}, call : WebCalls \cup {NoWebCall}]
HubFrame == [is : {"answered", "declined", "ended"}, call : WebCalls]
Places == {"none", "ringing", "answered", "over"}

TabShape ==
  /\ placing \in [WebCalls -> Places]
  /\ toTab \in Seq(TabFrame) /\ toHub \in Seq(HubFrame)
  /\ webCall \in WebCalls \cup {NoWebCall} /\ reading \in WebCalls \cup {NoWebCall}
  /\ stale \subseteq WebCalls /\ pickedUp \in BOOLEAN /\ sound \in BOOLEAN
TabQuiet == webCall = NoWebCall => tone = "off" /\ reading = NoWebCall

\* Frames on their way
Carries(q, is, c) == \E n \in DOMAIN q : q[n] = WebFrame(is, c)
Spoken(c, r, s) == c = r \/ c \in s

\* A session that is not open has no call, and a tab without a connection none to answer.
Sessions ==
  /\ session # "open" => \A c \in WebCalls : placing[c] \notin {"ringing", "answered"}
  /\ \A n \in DOMAIN toTab : toTab[n].is = "revoked" => session = "refused"
  /\ tab # "up" => webCall = NoWebCall \/ pickedUp
\* Nothing was made yet of a call that is to come, or that waits on the screen.
Unused(c, r, s, q) == ~Spoken(c, r, s) /\ \A n \in DOMAIN q : q[n].call # c
Novel(c, w, r, s, q) == w # c /\ Unused(c, r, s, q)
Firsts ==
  /\ \A c \in WebCalls : placing[c] = "none" => Novel(c, webCall, reading, stale, toHub) /\ \A n \in DOMAIN toTab : toTab[n].call # c
  /\ \A c \in WebCalls : Carries(toTab, "call", c) => Novel(c, webCall, reading, stale, toHub)
  /\ \A m, n \in DOMAIN toTab : toTab[m].is = "call" /\ toTab[m] = toTab[n] => m = n
  /\ webCall # NoWebCall /\ ~pickedUp => Unused(webCall, reading, stale, toHub)
  /\ \A n \in DOMAIN toTab : toTab[n].is # "revoked" => toTab[n].call \in WebCalls
\* A cancel follows the call it is of, and the call is over.
Cancels ==
  /\ \A c \in WebCalls : Carries(toTab, "cancel", c) => placing[c] = "over"
  /\ session = "open" /\ tab = "up" =>
       /\ \A n \in DOMAIN toTab : toTab[n].is = "call" =>
            \/ placing[toTab[n].call] = "ringing"
            \/ \E m \in DOMAIN toTab : m > n /\ toTab[m] = WebFrame("cancel", toTab[n].call)
       /\ webCall # NoWebCall /\ ~pickedUp => placing[webCall] = "ringing" \/ Carries(toTab, "cancel", webCall)
\* What rings has not come yet, is on the screen, or is answered; what is answered is read out
\* until the hub is told that it ended.
Sounding(c) == webCall = c /\ ~pickedUp /\ (sound => tone # "off")
Rings ==
  tab = "up" => \A c \in WebCalls \ covered : placing[c] = "ringing" =>
    Carries(toTab, "call", c) \/ Sounding(c) \/ Carries(toHub, "answered", c) \/ Carries(toHub, "declined", c)
Answers ==
  tab = "up" => \A c \in WebCalls \ covered :
    /\ placing[c] = "answered" => Spoken(c, reading, stale) \/ Carries(toHub, "ended", c)
    /\ \A n \in DOMAIN toHub : toHub[n] = WebFrame("answered", c) =>
         Spoken(c, reading, stale) \/ \E m \in DOMAIN toHub : m > n /\ toHub[m] = WebFrame("ended", c)
TabInv == TabShape /\ TabQuiet /\ Sessions /\ Firsts /\ Cancels /\ Rings /\ Answers

LEMMA TabStarts == WebCallInit => TabInv
<1> SUFFICES ASSUME WebCallInit PROVE TabInv
  OBVIOUS
<1>1. <<>> \in Seq(TabFrame) /\ <<>> \in Seq(HubFrame)
  OBVIOUS
<1>2. TabShape
  BY <1>1 DEF WebCallInit, TabShape, Places
<1>3. toTab = <<>> /\ toHub = <<>> /\ webCall = NoWebCall /\ reading = NoWebCall /\ stale = {}
      /\ \A c \in WebCalls : placing[c] = "none"
  BY DEF WebCallInit
<1>4. TabQuiet /\ Sessions /\ Firsts /\ Cancels /\ Rings /\ Answers
  BY <1>3, WebCallConstants DEF WebCallInit, TabQuiet, Sessions, Firsts, Cancels, Rings, Answers, Novel, Unused, Spoken,
              Carries, WebCallConstants
<1>5. QED
  BY <1>2, <1>4 DEF TabInv

\* The invariant says what TabRings asks.
LEMMA TabTells == TabInv => TabRings
<1> SUFFICES ASSUME TabInv PROVE TabRings
  OBVIOUS
<1>1. webCall = NoWebCall => tone = "off" /\ reading = NoWebCall
  BY DEF TabInv, TabQuiet
<1>2. ASSUME TabCaughtUp PROVE \A is, c : ~Carries(toTab, is, c) /\ ~Carries(toHub, is, c)
  BY <1>2 DEF TabCaughtUp, Carries
<1>3. ASSUME TabCaughtUp, webCall # NoWebCall, ~pickedUp PROVE placing[webCall] = "ringing"
  BY <1>2, <1>3 DEF TabCaughtUp, TabInv, Cancels
<1>4. ASSUME TabCaughtUp, NEW c \in WebCalls \ covered
      PROVE  /\ placing[c] = "ringing" => webCall = c /\ ~pickedUp /\ (sound => tone # "off")
             /\ placing[c] = "answered" => c = reading \/ c \in stale
  <2>1. tab = "up"
    BY <1>4 DEF TabCaughtUp
  <2>2. placing[c] = "ringing" => Sounding(c)
    BY <1>2, <1>4, <2>1 DEF TabInv, Rings
  <2>3. placing[c] = "answered" => Spoken(c, reading, stale)
    BY <1>2, <1>4, <2>1 DEF TabInv, Answers
  <2>4. QED
    BY <2>2, <2>3 DEF Sounding, Spoken
<1>5. QED
  BY <1>1, <1>3, <1>4 DEF TabRings

-----------------------------------------------------------------------------
(* Frames *)

LEMMA TabSent ==
  ASSUME toTab \in Seq(TabFrame), NEW f \in TabFrame, toTab' = Append(toTab, f)
  PROVE  /\ toTab' \in Seq(TabFrame)
         /\ \A n \in DOMAIN toTab : n \in DOMAIN toTab' /\ toTab'[n] = toTab[n]
         /\ Len(toTab) + 1 \in DOMAIN toTab' /\ toTab'[Len(toTab) + 1] = f
         /\ \A n \in DOMAIN toTab' : n \in DOMAIN toTab \/ n = Len(toTab) + 1
         /\ \A n \in DOMAIN toTab : n < Len(toTab) + 1
OBVIOUS

LEMMA TabRead ==
  ASSUME toTab \in Seq(TabFrame), toTab # <<>>, toTab' = Tail(toTab)
  PROVE  /\ toTab' \in Seq(TabFrame) /\ 1 \in DOMAIN toTab /\ Head(toTab) = toTab[1] /\ toTab[1] \in TabFrame
         /\ \A n \in DOMAIN toTab' : n \in Nat /\ n + 1 \in DOMAIN toTab /\ toTab'[n] = toTab[n + 1] /\ n + 1 # 1
         /\ \A n \in DOMAIN toTab : n \in Nat /\ (n # 1 => n - 1 \in DOMAIN toTab' /\ toTab'[n - 1] = toTab[n] /\ n > 1)
OBVIOUS

LEMMA HubRead ==
  ASSUME toHub \in Seq(HubFrame), toHub # <<>>, toHub' = Tail(toHub)
  PROVE  /\ toHub' \in Seq(HubFrame) /\ 1 \in DOMAIN toHub /\ Head(toHub) = toHub[1] /\ toHub[1] \in HubFrame
         /\ \A n \in DOMAIN toHub' : n \in Nat /\ n + 1 \in DOMAIN toHub /\ toHub'[n] = toHub[n + 1] /\ n + 1 # 1
         /\ \A n \in DOMAIN toHub : n \in Nat /\ (n # 1 => n - 1 \in DOMAIN toHub' /\ toHub'[n - 1] = toHub[n] /\ n > 1)
OBVIOUS

LEMMA HubSent ==
  ASSUME toHub \in Seq(HubFrame), NEW s \in Seq(HubFrame), toHub' = toHub \o s
  PROVE  /\ toHub' \in Seq(HubFrame)
         /\ \A n \in DOMAIN toHub : n \in DOMAIN toHub' /\ toHub'[n] = toHub[n]
         /\ \A n \in DOMAIN s : /\ Len(toHub) + n \in DOMAIN toHub' /\ toHub'[Len(toHub) + n] = s[n]
                                /\ \A m \in DOMAIN toHub : m < Len(toHub) + n
         /\ \A n \in DOMAIN toHub' : n \notin DOMAIN toHub =>
              \E m \in DOMAIN s : n = Len(toHub) + m /\ toHub'[n] = s[m]
<1>1. /\ Len(toHub) \in Nat /\ Len(s) \in Nat /\ DOMAIN toHub = 1..Len(toHub) /\ DOMAIN s = 1..Len(s)
      /\ toHub' \in Seq(HubFrame) /\ Len(toHub') = Len(toHub) + Len(s) /\ DOMAIN toHub' = 1..Len(toHub')
  OBVIOUS
<1>2. \A n \in 1..Len(toHub') : toHub'[n] = IF n <= Len(toHub) THEN toHub[n] ELSE s[n - Len(toHub)]
  BY <1>1
<1>3. ASSUME NEW n \in DOMAIN toHub', n \notin DOMAIN toHub
      PROVE  \E m \in DOMAIN s : n = Len(toHub) + m /\ toHub'[n] = s[m]
  <2>1. n - Len(toHub) \in DOMAIN s /\ n = Len(toHub) + (n - Len(toHub)) /\ toHub'[n] = s[n - Len(toHub)]
    BY <1>1, <1>2, <1>3
  <2>2. QED
    BY <2>1
<1>4. QED
  BY <1>1, <1>2, <1>3

-----------------------------------------------------------------------------
(* The hub *)

LEMMA RingingKeeps == ASSUME TabInv, NEW c \in WebCalls, HubRingsTab(c) PROVE TabInv'
<1> DEFINE f == WebFrame("call", c)
<1>1. /\ session = "open" /\ placing[c] = "none" /\ placing' = [placing EXCEPT ![c] = "ringing"]
      /\ toTab' = Append(toTab, f)
      /\ UNCHANGED <<session, toHub, tab, tone, webCall, pickedUp, reading, stale, sound, covered>>
  BY DEF HubRingsTab, ToTab, tabVars
<1>2. /\ f \in TabFrame /\ f.is = "call" /\ f.call = c
      /\ \A d : f = WebFrame("call", d) => d = c
      /\ \A d : f # WebFrame("cancel", d)
  BY DEF WebFrame, TabFrame
<1>3. /\ \A d \in WebCalls : d # c => placing'[d] = placing[d]
      /\ placing'[c] = "ringing" /\ placing' \in [WebCalls -> Places]
  BY <1>1 DEF TabInv, TabShape, Places
<1>4. /\ Novel(c, webCall, reading, stale, toHub) /\ \A n \in DOMAIN toTab : toTab[n].call # c
  BY <1>1 DEF TabInv, Firsts
<1> HIDE DEF f
<1>5. /\ toTab' \in Seq(TabFrame)
      /\ \A n \in DOMAIN toTab : n \in DOMAIN toTab' /\ toTab'[n] = toTab[n]
      /\ Len(toTab) + 1 \in DOMAIN toTab' /\ toTab'[Len(toTab) + 1] = f
      /\ \A n \in DOMAIN toTab' : n \in DOMAIN toTab \/ n = Len(toTab) + 1
  BY <1>1, <1>2, TabSent DEF TabInv, TabShape
<1>6. TabShape' /\ TabQuiet'
  BY <1>1, <1>3, <1>5 DEF TabInv, TabShape, TabQuiet
<1>7. Sessions'
  BY <1>1, <1>2, <1>5 DEF TabInv, Sessions
<1>8. \A d : Novel(d, webCall', reading', stale', toHub') <=> Novel(d, webCall, reading, stale, toHub)
  BY <1>1 DEF Novel, Unused, Spoken
<1>9. \A d : /\ Carries(toTab', "call", d) => d = c \/ Carries(toTab, "call", d)
             /\ Carries(toTab, "call", d) => Carries(toTab', "call", d)
             /\ Carries(toTab', "cancel", d) <=> Carries(toTab, "cancel", d)
             /\ \A is : Carries(toHub', is, d) <=> Carries(toHub, is, d)
  BY <1>1, <1>2, <1>5 DEF Carries
<1>10. Carries(toTab', "call", c)
  BY <1>5 DEF Carries, f
<1>11. Firsts'
  <2>1. \A d \in WebCalls : placing'[d] = "none" => Novel(d, webCall', reading', stale', toHub') /\ \A n \in DOMAIN toTab' : toTab'[n].call # d
    <3>1. ASSUME NEW d \in WebCalls, placing'[d] = "none" PROVE d # c /\ placing[d] = "none"
      BY <1>3, <3>1
    <3>2. QED
      BY <1>2, <1>5, <1>8, <3>1 DEF TabInv, Firsts
  <2>2. \A d \in WebCalls : Carries(toTab', "call", d) => Novel(d, webCall', reading', stale', toHub')
    BY <1>4, <1>8, <1>9 DEF TabInv, Firsts
  <2>3. \A m, n \in DOMAIN toTab' : toTab'[m].is = "call" /\ toTab'[m] = toTab'[n] => m = n
    BY <1>2, <1>4, <1>5 DEF TabInv, Firsts
  <2>4. webCall' # NoWebCall /\ ~pickedUp' => Unused(webCall', reading', stale', toHub')
    BY <1>1 DEF TabInv, Firsts, Unused, Spoken
  <2>5. \A n \in DOMAIN toTab' : toTab'[n].is # "revoked" => toTab'[n].call \in WebCalls
    BY <1>2, <1>5 DEF TabInv, Firsts
  <2>6. QED
    BY <2>1, <2>2, <2>3, <2>4, <2>5 DEF Firsts
<1>12. Cancels'
  <2>1. \A d \in WebCalls : Carries(toTab', "cancel", d) => placing'[d] = "over"
    BY <1>1, <1>3, <1>9 DEF TabInv, Cancels
  <2>2. ASSUME session = "open", tab = "up", NEW n \in DOMAIN toTab', toTab'[n].is = "call"
        PROVE \/ placing'[toTab'[n].call] = "ringing"
              \/ \E m \in DOMAIN toTab' : m > n /\ toTab'[m] = WebFrame("cancel", toTab'[n].call)
    <3>1. CASE n \in DOMAIN toTab
      <4>1. toTab'[n] = toTab[n] /\ toTab[n].call \in WebCalls /\ toTab[n].call # c
        BY <1>4, <1>5, <2>2, <3>1 DEF TabInv, Firsts
      <4>2. \/ placing[toTab[n].call] = "ringing"
            \/ \E m \in DOMAIN toTab : m > n /\ toTab[m] = WebFrame("cancel", toTab[n].call)
        BY <2>2, <3>1, <4>1 DEF TabInv, Cancels
      <4>3. QED
        BY <1>3, <1>5, <4>1, <4>2
    <3>2. CASE n = Len(toTab) + 1
      BY <1>2, <1>3, <1>5, <3>2
    <3>3. QED
      BY <1>5, <3>1, <3>2
  <2>3. webCall # c
    BY <1>4 DEF Novel
  <2>4. ASSUME session = "open", tab = "up", webCall # NoWebCall, ~pickedUp
        PROVE (placing[webCall] = "ringing")' \/ Carries(toTab', "cancel", webCall')
    BY <1>1, <1>3, <1>9, <2>3, <2>4 DEF TabInv, TabShape, Cancels
  <2>5. QED
    BY <1>1, <2>1, <2>2, <2>4 DEF Cancels
<1>13. Rings'
  BY <1>1, <1>3, <1>9, <1>10 DEF TabInv, Rings, Sounding
<1>14. Answers'
  BY <1>1, <1>3, <1>9 DEF TabInv, Answers, Spoken
<1>15. QED
  BY <1>6, <1>7, <1>11, <1>12, <1>13, <1>14 DEF TabInv

LEMMA CancellingKeeps == ASSUME TabInv, NEW c \in WebCalls, HubCancelsTab(c) PROVE TabInv'
<1> DEFINE f == WebFrame("cancel", c)
<1>0. placing[c] = "ringing" /\ session = "open"
  BY DEF HubCancelsTab, TabInv, Sessions
<1>1. /\ placing' = [placing EXCEPT ![c] = "over"]
      /\ toTab' = Append(toTab, f)
      /\ UNCHANGED <<session, toHub, tab, tone, webCall, pickedUp, reading, stale, sound, covered>>
  BY <1>0 DEF HubCancelsTab, ToTab, tabVars
<1>2. /\ f \in TabFrame /\ f.is = "cancel" /\ f.call = c
      /\ \A d : f = WebFrame("cancel", d) => d = c
      /\ \A d : f # WebFrame("call", d)
  BY DEF WebFrame, TabFrame
<1>3. /\ \A d \in WebCalls : d # c => placing'[d] = placing[d]
      /\ placing'[c] = "over" /\ placing' \in [WebCalls -> Places]
  BY <1>1 DEF TabInv, TabShape, Places
<1> HIDE DEF f
<1>5. /\ toTab' \in Seq(TabFrame)
      /\ \A n \in DOMAIN toTab : n \in DOMAIN toTab' /\ toTab'[n] = toTab[n]
      /\ Len(toTab) + 1 \in DOMAIN toTab' /\ toTab'[Len(toTab) + 1] = f
      /\ \A n \in DOMAIN toTab' : n \in DOMAIN toTab \/ n = Len(toTab) + 1
      /\ \A n \in DOMAIN toTab : n < Len(toTab) + 1
  BY <1>1, <1>2, TabSent DEF TabInv, TabShape
<1>6. TabShape' /\ TabQuiet'
  BY <1>1, <1>3, <1>5 DEF TabInv, TabShape, TabQuiet
<1>7. Sessions'
  BY <1>0, <1>1, <1>2, <1>5 DEF TabInv, Sessions
<1>8. \A d : Novel(d, webCall', reading', stale', toHub') <=> Novel(d, webCall, reading, stale, toHub)
  BY <1>1 DEF Novel, Unused, Spoken
<1>9. \A d : /\ Carries(toTab', "call", d) <=> Carries(toTab, "call", d)
             /\ Carries(toTab', "cancel", d) => d = c \/ Carries(toTab, "cancel", d)
             /\ Carries(toTab, "cancel", d) => Carries(toTab', "cancel", d)
             /\ \A is : Carries(toHub', is, d) <=> Carries(toHub, is, d)
  BY <1>1, <1>2, <1>5 DEF Carries
<1>10. Carries(toTab', "cancel", c)
  BY <1>5 DEF Carries, f
<1>11. Firsts'
  <2>1. \A d \in WebCalls : placing'[d] = "none" => Novel(d, webCall', reading', stale', toHub') /\ \A n \in DOMAIN toTab' : toTab'[n].call # d
    <3>1. ASSUME NEW d \in WebCalls, placing'[d] = "none" PROVE d # c /\ placing[d] = "none"
      BY <1>3, <3>1
    <3>2. QED
      BY <1>2, <1>5, <1>8, <3>1 DEF TabInv, Firsts
  <2>2. \A d \in WebCalls : Carries(toTab', "call", d) => Novel(d, webCall', reading', stale', toHub')
    BY <1>8, <1>9 DEF TabInv, Firsts
  <2>3. \A m, n \in DOMAIN toTab' : toTab'[m].is = "call" /\ toTab'[m] = toTab'[n] => m = n
    BY <1>2, <1>5 DEF TabInv, Firsts
  <2>4. webCall' # NoWebCall /\ ~pickedUp' => Unused(webCall', reading', stale', toHub')
    BY <1>1 DEF TabInv, Firsts, Unused, Spoken
  <2>5. \A n \in DOMAIN toTab' : toTab'[n].is # "revoked" => toTab'[n].call \in WebCalls
    BY <1>2, <1>5 DEF TabInv, Firsts
  <2>6. QED
    BY <2>1, <2>2, <2>3, <2>4, <2>5 DEF Firsts
<1>12. Cancels'
  <2>1. \A d \in WebCalls : Carries(toTab', "cancel", d) => placing'[d] = "over"
    BY <1>1, <1>3, <1>9 DEF TabInv, Cancels
  <2>2. ASSUME session = "open", tab = "up", NEW n \in DOMAIN toTab', toTab'[n].is = "call"
        PROVE \/ placing'[toTab'[n].call] = "ringing"
              \/ \E m \in DOMAIN toTab' : m > n /\ toTab'[m] = WebFrame("cancel", toTab'[n].call)
    <3>1. n \in DOMAIN toTab /\ toTab'[n] = toTab[n] /\ toTab[n].call \in WebCalls
      BY <1>2, <1>5, <2>2 DEF TabInv, Firsts
    <3>2. CASE toTab[n].call = c
      BY <1>5, <3>1, <3>2 DEF f
    <3>3. CASE toTab[n].call # c
      <4>1. \/ placing[toTab[n].call] = "ringing"
            \/ \E m \in DOMAIN toTab : m > n /\ toTab[m] = WebFrame("cancel", toTab[n].call)
        BY <2>2, <3>1 DEF TabInv, Cancels
      <4>2. QED
        BY <1>3, <1>5, <3>1, <3>3, <4>1
    <3>4. QED
      BY <3>2, <3>3
  <2>4. ASSUME session = "open", tab = "up", webCall # NoWebCall, ~pickedUp
        PROVE (placing[webCall] = "ringing")' \/ Carries(toTab', "cancel", webCall')
    BY <1>1, <1>3, <1>9, <1>10, <2>4 DEF TabInv, TabShape, Cancels
  <2>5. QED
    BY <1>1, <2>1, <2>2, <2>4 DEF Cancels
<1>13. Rings'
  BY <1>1, <1>3, <1>9 DEF TabInv, Rings, Sounding
<1>14. Answers'
  BY <1>1, <1>3, <1>9 DEF TabInv, Answers, Spoken
<1>15. QED
  BY <1>6, <1>7, <1>11, <1>12, <1>13, <1>14 DEF TabInv

\* A reply moves the call it is of, which is neither to come nor waiting.
LEMMA HearingKeeps == ASSUME TabInv, HubHears PROVE TabInv'
<1> DEFINE m == Head(toHub)
<1>1. /\ session = "open" /\ toHub # <<>> /\ toHub' = Tail(toHub)
      /\ placing' = [placing EXCEPT ![m.call] =
            CASE m.is = "answered" /\ @ = "ringing" -> "answered"
              [] m.is = "declined" /\ @ = "ringing" -> "over"
              [] m.is = "ended" /\ @ = "answered" -> "over"
              [] OTHER -> @]
      /\ UNCHANGED <<session, toTab, tab, tone, webCall, pickedUp, reading, stale, sound, covered>>
  BY DEF HubHears, tabVars
<1>2. /\ toHub' \in Seq(HubFrame) /\ 1 \in DOMAIN toHub /\ m = toHub[1] /\ m \in HubFrame
      /\ \A n \in DOMAIN toHub' : n \in Nat /\ n + 1 \in DOMAIN toHub /\ toHub'[n] = toHub[n + 1]
      /\ \A n \in DOMAIN toHub : n \in Nat /\ (n # 1 => n - 1 \in DOMAIN toHub' /\ toHub'[n - 1] = toHub[n] /\ n > 1)
  BY <1>1, HubRead DEF TabInv, TabShape
<1> HIDE DEF m
<1>3. m.is \in {"answered", "declined", "ended"} /\ m.call \in WebCalls /\ m = WebFrame(m.is, m.call)
  BY <1>2 DEF HubFrame, WebFrame
<1>4. /\ placing' \in [WebCalls -> Places]
      /\ \A c \in WebCalls : c # m.call => placing'[c] = placing[c]
      /\ placing'[m.call] = IF m.is = "answered" /\ placing[m.call] = "ringing" THEN "answered"
                            ELSE IF m.is = "declined" /\ placing[m.call] = "ringing" THEN "over"
                            ELSE IF m.is = "ended" /\ placing[m.call] = "answered" THEN "over"
                            ELSE placing[m.call]
  <2> DEFINE to == CASE m.is = "answered" /\ placing[m.call] = "ringing" -> "answered"
                     [] m.is = "declined" /\ placing[m.call] = "ringing" -> "over"
                     [] m.is = "ended" /\ placing[m.call] = "answered" -> "over"
                     [] OTHER -> placing[m.call]
  <2>1. to = IF m.is = "answered" /\ placing[m.call] = "ringing" THEN "answered"
             ELSE IF m.is = "declined" /\ placing[m.call] = "ringing" THEN "over"
             ELSE IF m.is = "ended" /\ placing[m.call] = "answered" THEN "over"
             ELSE placing[m.call]
    BY <1>3
  <2>2. placing' = [placing EXCEPT ![m.call] = to]
    BY <1>1
  <2>3. to \in Places
    BY <1>3, <2>1 DEF Places, TabInv, TabShape
  <2> HIDE DEF to
  <2>4. placing \in [WebCalls -> Places]
    BY DEF TabInv, TabShape
  <2>5. QED
    BY <1>3, <2>1, <2>2, <2>3, <2>4
<1>5. TabShape' /\ TabQuiet' /\ Sessions'
  BY <1>1, <1>2, <1>4 DEF TabInv, TabShape, TabQuiet, Sessions
<1>6. \A c : (Unused(c, reading, stale, toHub) => Unused(c, reading', stale', toHub')) /\ (Novel(c, webCall, reading, stale, toHub) => Novel(c, webCall', reading', stale', toHub')) /\ (Unused(c, reading, stale, toHub) => c # m.call)
  BY <1>1, <1>2 DEF Novel, Unused, Spoken
<1>7. \A c, is : (Carries(toTab', is, c) <=> Carries(toTab, is, c)) /\ (Carries(toHub, is, c) => Carries(toHub', is, c) \/ m = WebFrame(is, c))
  <2>1. ASSUME NEW c, NEW is, NEW n \in DOMAIN toHub, toHub[n] = WebFrame(is, c)
        PROVE  Carries(toHub', is, c) \/ m = WebFrame(is, c)
    <3>1. CASE n = 1
      BY <1>2, <2>1, <3>1
    <3>2. CASE n # 1
      BY <1>2, <2>1, <3>2 DEF Carries
    <3>3. QED
      BY <3>1, <3>2
  <2>2. toTab' = toTab
    BY <1>1
  <2>3. QED
    BY <2>1, <2>2 DEF Carries
<1>8. \A c \in WebCalls : /\ placing'[c] = "none" => placing[c] = "none"
                          /\ placing[c] = "over" => placing'[c] = "over"
                          /\ placing'[c] = "ringing" => placing[c] = "ringing" /\ m # WebFrame("answered", c) /\ m # WebFrame("declined", c)
                          /\ placing'[c] = "answered" =>
                                \/ placing[c] = "answered" /\ m # WebFrame("ended", c)
                                \/ m = WebFrame("answered", c)
  BY <1>3, <1>4 DEF WebFrame
<1>9. Firsts'
  <2>1. \A c \in WebCalls : placing'[c] = "none" => Novel(c, webCall', reading', stale', toHub') /\ \A n \in DOMAIN toTab : toTab[n].call # c
    BY <1>6, <1>8 DEF TabInv, Firsts
  <2>2. \A c \in WebCalls : Carries(toTab', "call", c) => Novel(c, webCall', reading', stale', toHub')
    BY <1>6, <1>7 DEF TabInv, Firsts
  <2>3. webCall # NoWebCall /\ ~pickedUp => Unused(webCall', reading', stale', toHub')
    BY <1>1, <1>2 DEF TabInv, Firsts, Unused, Spoken
  <2>4. QED
    BY <1>1, <2>1, <2>2, <2>3 DEF TabInv, Firsts
<1>10. Cancels'
  <2>1. \A c \in WebCalls : Carries(toTab', "cancel", c) => placing'[c] = "over"
    BY <1>7, <1>8 DEF TabInv, Cancels
  <2>2. ASSUME session = "open", tab = "up", NEW n \in DOMAIN toTab, toTab[n].is = "call"
        PROVE \/ placing'[toTab[n].call] = "ringing"
              \/ \E k \in DOMAIN toTab : k > n /\ toTab[k] = WebFrame("cancel", toTab[n].call)
    <3>1. toTab[n].call \in WebCalls /\ toTab[n] \in TabFrame
      BY <2>2 DEF TabInv, TabShape, Firsts
    <3>2. toTab[n] = WebFrame("call", toTab[n].call)
      BY <2>2, <3>1 DEF TabFrame, WebFrame
    <3>3. Novel(toTab[n].call, webCall, reading, stale, toHub)
      BY <3>1, <3>2 DEF TabInv, Firsts, Carries
    <3>4. placing'[toTab[n].call] = placing[toTab[n].call]
      BY <1>4, <1>6, <3>1, <3>3 DEF Novel
    <3>5. QED
      BY <2>2, <3>4 DEF TabInv, Cancels
  <2>3. ASSUME session = "open", tab = "up", webCall # NoWebCall, ~pickedUp
        PROVE placing'[webCall] = "ringing" \/ Carries(toTab, "cancel", webCall)
    <3>1. Unused(webCall, reading, stale, toHub) /\ webCall \in WebCalls
      BY <2>3 DEF TabInv, TabShape, Firsts
    <3>2. QED
      BY <1>4, <1>6, <2>3, <3>1 DEF TabInv, Cancels
  <2>4. Carries(toTab', "cancel", webCall') <=> Carries(toTab, "cancel", webCall)
    BY <1>1 DEF Carries
  <2>5. QED
    BY <1>1, <2>1, <2>2, <2>3, <2>4 DEF Cancels
<1>11. Rings'
  BY <1>1, <1>7, <1>8 DEF TabInv, Rings, Sounding
<1>12. Answers'
  <2>1. ASSUME tab = "up", NEW c \in WebCalls \ covered, placing'[c] = "answered" PROVE Spoken(c, reading, stale) \/ Carries(toHub', "ended", c)
    <3>1. CASE placing[c] = "answered" /\ m # WebFrame("ended", c)
      BY <1>7, <2>1, <3>1 DEF TabInv, Answers
    <3>2. CASE m = WebFrame("answered", c)
      <4>1. Spoken(c, reading, stale) \/ \E k \in DOMAIN toHub : k > 1 /\ toHub[k] = WebFrame("ended", c)
        BY <1>2, <2>1, <3>2 DEF TabInv, Answers
      <4>2. QED
        BY <1>2, <4>1 DEF Carries
    <3>3. QED
      BY <1>8, <2>1, <3>1, <3>2
  <2>2. ASSUME tab = "up", NEW c \in WebCalls \ covered, NEW n \in DOMAIN toHub', toHub'[n] = WebFrame("answered", c)
        PROVE  Spoken(c, reading, stale) \/ \E k \in DOMAIN toHub' : k > n /\ toHub'[k] = WebFrame("ended", c)
    <3>1. n \in Nat /\ n + 1 \in DOMAIN toHub /\ toHub[n + 1] = WebFrame("answered", c)
      BY <1>2, <2>2
    <3>2. Spoken(c, reading, stale) \/ \E k \in DOMAIN toHub : k > n + 1 /\ toHub[k] = WebFrame("ended", c)
      BY <2>2, <3>1 DEF TabInv, Answers
    <3>3. ASSUME NEW k \in DOMAIN toHub, k > n + 1, toHub[k] = WebFrame("ended", c)
          PROVE  k - 1 \in DOMAIN toHub' /\ k - 1 > n /\ toHub'[k - 1] = WebFrame("ended", c)
      <4>1. k # 1 /\ k \in Nat
        BY <1>2, <3>1, <3>3
      <4>2. QED
        BY <1>2, <3>1, <3>3, <4>1
    <3>4. QED
      BY <3>2, <3>3
  <2>3. \A c : Spoken(c, reading', stale') <=> Spoken(c, reading, stale)
    BY <1>1 DEF Spoken
  <2>4. QED
    BY <1>1, <2>1, <2>2, <2>3 DEF Answers
<1>13. QED
  BY <1>5, <1>9, <1>10, <1>11, <1>12 DEF TabInv

\* The calls of a session that closes are over, whatever the tab still says.
LEMMA DroppingKeeps == ASSUME TabInv, HubLosesTab \/ HubRevokesTab PROVE TabInv'
<1>1. /\ session = "open" /\ session' # "open" /\ toHub' = <<>>
      /\ placing' = [c \in WebCalls |-> IF placing[c] \in {"ringing", "answered"} THEN "over" ELSE placing[c]]
      /\ UNCHANGED <<tab, tone, webCall, pickedUp, reading, stale, sound, covered>>
      /\ toTab' = toTab \/ (session' = "refused" /\ toTab' = Append(toTab, WebFrame("revoked", NoWebCall)))
  BY DEF HubLosesTab, HubRevokesTab, Dropped, ToTab, tabVars
<1> DEFINE f == WebFrame("revoked", NoWebCall)
<1>2. f \in TabFrame /\ f.is = "revoked" /\ f.call = NoWebCall /\ \A is, c : f = WebFrame(is, c) => is = "revoked"
  BY DEF WebFrame, TabFrame
<1> HIDE DEF f
<1>3. /\ toTab' \in Seq(TabFrame)
      /\ \A n \in DOMAIN toTab' : (n \in DOMAIN toTab /\ toTab'[n] = toTab[n]) \/ (toTab'[n] = f /\ session' = "refused")
  <2>1. CASE toTab' = toTab
    BY <2>1 DEF TabInv, TabShape
  <2>2. CASE session' = "refused" /\ toTab' = Append(toTab, f)
    BY <1>2, <2>2, TabSent DEF TabInv, TabShape
  <2>3. QED
    BY <1>1, <2>1, <2>2 DEF f
<1>4. /\ placing' \in [WebCalls -> Places] /\ \A c \in WebCalls : placing'[c] \in {"none", "over"}
      /\ \A c \in WebCalls : placing'[c] = "none" => placing[c] = "none"
      /\ \A c \in WebCalls : placing[c] = "over" => placing'[c] = "over"
  BY <1>1 DEF TabInv, TabShape, Places
<1>5. toHub' \in Seq(HubFrame) /\ DOMAIN toHub' = {}
  BY <1>1
<1>6. TabShape' /\ TabQuiet'
  BY <1>1, <1>3, <1>4, <1>5 DEF TabInv, TabShape, TabQuiet
<1>7. Sessions'
  <2>1. \A n \in DOMAIN toTab' : toTab'[n].is = "revoked" => session' = "refused"
    BY <1>1, <1>3 DEF TabInv, Sessions
  <2>2. \A c \in WebCalls : placing'[c] \notin {"ringing", "answered"}
    BY <1>4
  <2>3. QED
    BY <1>1, <2>1, <2>2 DEF TabInv, Sessions
<1>8. \A c : Unused(c, reading, stale, toHub) => Unused(c, reading', stale', toHub')
  BY <1>1, <1>5 DEF Unused
<1>9. \A n \in DOMAIN toTab' : toTab'[n] # f => n \in DOMAIN toTab /\ toTab'[n] = toTab[n]
  BY <1>3
<1>14. ASSUME NEW c, NEW is \in {"call", "cancel"}, Carries(toTab', is, c) PROVE Carries(toTab, is, c)
  <2>1. PICK n \in DOMAIN toTab' : toTab'[n] = WebFrame(is, c)
    BY <1>14 DEF Carries
  <2>2. toTab'[n] # f
    BY <1>2, <2>1
  <2>3. QED
    BY <1>9, <2>1, <2>2 DEF Carries
<1>10. Firsts'
  <2>1. \A c \in WebCalls : placing'[c] = "none" =>
          Novel(c, webCall', reading', stale', toHub') /\ \A n \in DOMAIN toTab' : toTab'[n].call # c
    <3>1. \A c \in WebCalls : c # NoWebCall
      BY WebCallConstants DEF WebCallConstants
    <3>2. ASSUME NEW c \in WebCalls, placing'[c] = "none" PROVE Novel(c, webCall', reading', stale', toHub')
      BY <1>1, <1>4, <1>8, <3>2 DEF TabInv, Firsts, Novel
    <3>3. ASSUME NEW c \in WebCalls, placing'[c] = "none", NEW n \in DOMAIN toTab' PROVE toTab'[n].call # c
      <4>1. \A k \in DOMAIN toTab : toTab[k].call # c
        BY <1>4, <3>3 DEF TabInv, Firsts
      <4>2. QED
        BY <1>2, <1>9, <3>1, <3>3, <4>1
    <3>4. QED
      BY <3>2, <3>3
  <2>2. \A c \in WebCalls : Carries(toTab', "call", c) => Novel(c, webCall', reading', stale', toHub')
    BY <1>1, <1>8, <1>14 DEF TabInv, Firsts, Novel
  <2>3. \A m, n \in DOMAIN toTab' : toTab'[m].is = "call" /\ toTab'[m] = toTab'[n] => m = n
    BY <1>2, <1>9 DEF TabInv, Firsts
  <2>4. webCall' # NoWebCall /\ ~pickedUp' => Unused(webCall', reading', stale', toHub')
    BY <1>1, <1>8 DEF TabInv, Firsts
  <2>5. \A n \in DOMAIN toTab' : toTab'[n].is # "revoked" => toTab'[n].call \in WebCalls
    BY <1>2, <1>9 DEF TabInv, Firsts
  <2>6. QED
    BY <2>1, <2>2, <2>3, <2>4, <2>5 DEF Firsts
<1>11. Cancels'
  BY <1>1, <1>4, <1>14 DEF TabInv, Cancels
<1>12. Rings' /\ Answers'
  BY <1>4, <1>5 DEF Rings, Answers
<1>13. QED
  BY <1>6, <1>7, <1>10, <1>11, <1>12 DEF TabInv

-----------------------------------------------------------------------------
(* The screen *)

LEMMA Closing ==
  ASSUME TabInv, ClosesScreen
  PROVE  /\ webCall' = NoWebCall /\ reading' = NoWebCall /\ stale' \subseteq WebCalls /\ pickedUp' = FALSE /\ tone' = "off"
         /\ \A c \in WebCalls : Spoken(c, reading', stale') <=> Spoken(c, reading, stale)
<1>1. /\ webCall' = NoWebCall /\ pickedUp' = FALSE /\ tone' = "off" /\ reading' = NoWebCall
      /\ stale' = stale \cup ({reading} \ {NoWebCall})
  BY DEF ClosesScreen, LeavesScreen, StopsReading, Supersedes
<1>2. reading \in WebCalls \cup {NoWebCall} /\ stale \subseteq WebCalls /\ NoWebCall \notin WebCalls
  BY WebCallConstants DEF TabInv, TabShape, WebCallConstants
<1>3. QED
  BY <1>1, <1>2 DEF Spoken

\* What the tab says to its hub, and what becomes of its screen as it says it
LEMMA RepliesKeep ==
  ASSUME TabInv, UNCHANGED <<placing, session, toTab, tab, sound, covered>>,
         NEW s \in Seq(HubFrame), toHub' = toHub \o s,
         webCall' \in {webCall, NoWebCall}, reading' \in WebCalls \cup {NoWebCall}, stale' \subseteq WebCalls,
         pickedUp' \in BOOLEAN, TabQuiet',
         \A c \in WebCalls : Spoken(c, reading', stale') => Spoken(c, reading, stale) \/ c = webCall,
         \A n \in DOMAIN s : s[n].call = webCall \/ Spoken(s[n].call, reading, stale),
         webCall' # NoWebCall /\ ~pickedUp' =>
           /\ ~pickedUp /\ tone' = tone
           /\ \A c \in WebCalls : Spoken(c, reading', stale') => Spoken(c, reading, stale)
           /\ \A n \in DOMAIN s : s[n].call # webCall,
         tab = "up" => \A c \in WebCalls : Sounding(c) =>
           (webCall' # NoWebCall /\ ~pickedUp') \/ Carries(s, "answered", c) \/ Carries(s, "declined", c),
         tab = "up" => \A c \in WebCalls : Spoken(c, reading, stale) => Spoken(c, reading', stale') \/ Carries(s, "ended", c),
         tab = "up" => \A c \in WebCalls : \A n \in DOMAIN s : s[n] = WebFrame("answered", c) =>
           Spoken(c, reading', stale') \/ \E m \in DOMAIN s : m > n /\ s[m] = WebFrame("ended", c)
  PROVE  TabInv'
<1>1. /\ toHub' \in Seq(HubFrame)
      /\ \A n \in DOMAIN toHub : n \in DOMAIN toHub' /\ toHub'[n] = toHub[n]
      /\ \A n \in DOMAIN s : /\ Len(toHub) + n \in DOMAIN toHub' /\ toHub'[Len(toHub) + n] = s[n]
                             /\ \A m \in DOMAIN toHub : m < Len(toHub) + n
      /\ \A n \in DOMAIN toHub' : n \notin DOMAIN toHub => \E m \in DOMAIN s : n = Len(toHub) + m /\ toHub'[n] = s[m]
  BY HubSent DEF TabInv, TabShape
<1>2. TabShape'
  BY <1>1 DEF TabInv, TabShape
<1>3. Sessions'
  BY DEF TabInv, Sessions
<1>4. \A c, is : Carries(toHub, is, c) \/ Carries(s, is, c) => Carries(toHub', is, c)
  <2>1. ASSUME NEW c, NEW is, NEW n \in DOMAIN toHub, toHub[n] = WebFrame(is, c) PROVE Carries(toHub', is, c)
    BY <1>1, <2>1 DEF Carries
  <2>2. ASSUME NEW c, NEW is, NEW n \in DOMAIN s, s[n] = WebFrame(is, c) PROVE Carries(toHub', is, c)
    <3> DEFINE k == Len(toHub) + n
    <3>1. k \in DOMAIN toHub' /\ toHub'[k] = WebFrame(is, c)
      BY <1>1, <2>2
    <3> HIDE DEF k
    <3>2. QED
      BY <3>1 DEF Carries
  <2>3. QED
    BY <2>1, <2>2 DEF Carries
<1>5. ASSUME NEW c \in WebCalls, Unused(c, reading, stale, toHub), c # webCall
      PROVE  Unused(c, reading', stale', toHub')
  BY <1>1, <1>5 DEF Unused
<1>6. webCall' # NoWebCall /\ ~pickedUp' => Unused(webCall', reading', stale', toHub')
  <2> SUFFICES ASSUME webCall' # NoWebCall, ~pickedUp' PROVE Unused(webCall, reading', stale', toHub')
    OBVIOUS
  <2>1. webCall' = webCall /\ Unused(webCall, reading, stale, toHub) /\ webCall \in WebCalls
    BY DEF TabInv, TabShape, Firsts
  <2>2. QED
    BY <1>1, <2>1 DEF Unused
<1>7. Firsts'
  <2>1. \A c \in WebCalls : Novel(c, webCall, reading, stale, toHub) => Novel(c, webCall', reading', stale', toHub')
    BY <1>5, WebCallConstants DEF Novel, WebCallConstants
  <2>2. QED
    BY <1>6, <2>1 DEF TabInv, Firsts
<1>8. Cancels'
  BY DEF TabInv, Cancels
<1>9. Rings'
  <2> SUFFICES ASSUME tab = "up", NEW c \in WebCalls \ covered, placing[c] = "ringing"
               PROVE  \/ Carries(toTab, "call", c) \/ Sounding(c)'
                      \/ Carries(toHub', "answered", c) \/ Carries(toHub', "declined", c)
    BY DEF Rings
  <2>1. \/ Carries(toTab, "call", c) \/ Sounding(c) \/ Carries(toHub, "answered", c) \/ Carries(toHub, "declined", c)
    BY DEF TabInv, Rings
  <2>2. CASE Sounding(c)
    <3>1. CASE webCall' # NoWebCall /\ ~pickedUp'
      BY <2>2, <3>1 DEF Sounding
    <3>2. CASE Carries(s, "answered", c) \/ Carries(s, "declined", c)
      BY <1>4, <3>2
    <3>3. QED
      BY <2>2, <3>1, <3>2
  <2>3. QED
    BY <1>4, <2>1, <2>2
<1>10. Answers'
  <2>1. ASSUME tab = "up", NEW c \in WebCalls \ covered, placing[c] = "answered"
        PROVE  Spoken(c, reading', stale') \/ Carries(toHub', "ended", c)
    BY <1>4, <2>1 DEF TabInv, Answers
  <2>2. ASSUME tab = "up", NEW c \in WebCalls \ covered, NEW n \in DOMAIN toHub', toHub'[n] = WebFrame("answered", c)
        PROVE  Spoken(c, reading', stale') \/ \E m \in DOMAIN toHub' : m > n /\ toHub'[m] = WebFrame("ended", c)
    <3>1. CASE n \in DOMAIN toHub
      <4>1. Spoken(c, reading, stale) \/ \E m \in DOMAIN toHub : m > n /\ toHub[m] = WebFrame("ended", c)
        BY <1>1, <2>2, <3>1 DEF TabInv, Answers
      <4>2. ASSUME NEW m \in DOMAIN s, s[m] = WebFrame("ended", c)
            PROVE  Len(toHub) + m \in DOMAIN toHub' /\ Len(toHub) + m > n /\ toHub'[Len(toHub) + m] = WebFrame("ended", c)
        BY <1>1, <3>1, <4>2
      <4>3. QED
        BY <1>1, <2>2, <4>1, <4>2 DEF Carries
    <3>2. CASE n \notin DOMAIN toHub
      <4>1. PICK m \in DOMAIN s : n = Len(toHub) + m /\ s[m] = WebFrame("answered", c)
        BY <1>1, <2>2, <3>2
      <4>2. Spoken(c, reading', stale') \/ \E k \in DOMAIN s : k > m /\ s[k] = WebFrame("ended", c)
        BY <2>2, <4>1
      <4>3. ASSUME NEW k \in DOMAIN s, k > m, s[k] = WebFrame("ended", c)
            PROVE  Len(toHub) + k \in DOMAIN toHub' /\ Len(toHub) + k > n /\ toHub'[Len(toHub) + k] = WebFrame("ended", c)
        <5>1. Len(toHub) \in Nat /\ k \in Nat /\ m \in Nat
          BY <4>1, <4>3 DEF TabInv, TabShape
        <5>2. QED
          BY <1>1, <4>1, <4>3, <5>1
      <4>4. QED
        BY <4>2, <4>3
    <3>3. QED
      BY <3>1, <3>2
  <2>3. QED
    BY <2>1, <2>2 DEF Answers
<1>11. QED
  BY <1>2, <1>3, <1>7, <1>8, <1>9, <1>10 DEF TabInv

\* A frame read takes the others one place forward.
LEMMA Reads ==
  ASSUME TabInv, toTab # <<>>, toTab' = Tail(toTab)
  PROVE  /\ toTab' \in Seq(TabFrame) /\ Head(toTab) = toTab[1] /\ 1 \in DOMAIN toTab /\ toTab[1] \in TabFrame
         /\ \A n \in DOMAIN toTab' : n \in Nat /\ n + 1 \in DOMAIN toTab /\ toTab'[n] = toTab[n + 1] /\ n + 1 # 1
         /\ \A c, is : Carries(toTab', is, c) => Carries(toTab, is, c)
         /\ \A c, is : Carries(toTab, is, c) => Carries(toTab', is, c) \/ toTab[1] = WebFrame(is, c)
         /\ \A m, n \in DOMAIN toTab' : toTab'[m].is = "call" /\ toTab'[m] = toTab'[n] => m = n
         /\ \A n \in DOMAIN toTab' : toTab'[n].is # "revoked" => toTab'[n].call \in WebCalls
         /\ \A n \in DOMAIN toTab' : toTab'[n].is = "revoked" => session = "refused"
         /\ \A c : (\A n \in DOMAIN toTab : toTab[n].call # c) => \A n \in DOMAIN toTab' : toTab'[n].call # c
         /\ \A n \in DOMAIN toTab : n > 1 => n - 1 \in DOMAIN toTab' /\ toTab'[n - 1] = toTab[n]
<1>1. /\ toTab' \in Seq(TabFrame) /\ 1 \in DOMAIN toTab /\ Head(toTab) = toTab[1] /\ toTab[1] \in TabFrame
      /\ \A n \in DOMAIN toTab' : n \in Nat /\ n + 1 \in DOMAIN toTab /\ toTab'[n] = toTab[n + 1] /\ n + 1 # 1
      /\ \A n \in DOMAIN toTab : n \in Nat /\ (n # 1 => n - 1 \in DOMAIN toTab' /\ toTab'[n - 1] = toTab[n] /\ n > 1)
  BY TabRead DEF TabInv, TabShape
<1>2. ASSUME NEW c, NEW is, Carries(toTab', is, c) PROVE Carries(toTab, is, c)
  <2>1. PICK n \in DOMAIN toTab' : toTab'[n] = WebFrame(is, c)
    BY <1>2 DEF Carries
  <2> DEFINE k == n + 1
  <2>2. k \in DOMAIN toTab /\ toTab[k] = WebFrame(is, c)
    BY <1>1, <2>1
  <2> HIDE DEF k
  <2>3. QED
    BY <2>2 DEF Carries
<1>3. ASSUME NEW c, NEW is, Carries(toTab, is, c), toTab[1] # WebFrame(is, c) PROVE Carries(toTab', is, c)
  <2>1. PICK n \in DOMAIN toTab : toTab[n] = WebFrame(is, c)
    BY <1>3 DEF Carries
  <2> DEFINE k == n - 1
  <2>2. k \in DOMAIN toTab' /\ toTab'[k] = WebFrame(is, c)
    BY <1>1, <1>3, <2>1
  <2> HIDE DEF k
  <2>3. QED
    BY <2>2 DEF Carries
<1>4. \A m, n \in DOMAIN toTab' : toTab'[m].is = "call" /\ toTab'[m] = toTab'[n] => m = n
  <2>1. ASSUME NEW m \in DOMAIN toTab', NEW n \in DOMAIN toTab', toTab'[m].is = "call", toTab'[m] = toTab'[n] PROVE m = n
    <3>1. m \in Nat /\ n \in Nat /\ m + 1 \in DOMAIN toTab /\ n + 1 \in DOMAIN toTab
          /\ toTab[m + 1] = toTab[n + 1] /\ toTab[m + 1].is = "call"
      BY <1>1, <2>1
    <3>2. m + 1 = n + 1
      BY <3>1 DEF TabInv, Firsts
    <3>3. QED
      BY <3>1, <3>2
  <2>2. QED
    BY <2>1
<1>5. ASSUME NEW n \in DOMAIN toTab'
      PROVE  /\ toTab'[n].is # "revoked" => toTab'[n].call \in WebCalls
             /\ toTab'[n].is = "revoked" => session = "refused"
             /\ \A c : (\A m \in DOMAIN toTab : toTab[m].call # c) => toTab'[n].call # c
  BY <1>1, <1>5 DEF TabInv, Firsts, Sessions
<1>6. \A n \in DOMAIN toTab : n > 1 => n - 1 \in DOMAIN toTab' /\ toTab'[n - 1] = toTab[n]
  BY <1>1
<1>7. QED
  BY <1>1, <1>2, <1>3, <1>4, <1>5, <1>6

\* A call whose frame is further back rings still, or its cancel comes later.
LEMMA ReadsInOrder ==
  ASSUME TabInv, toTab # <<>>, toTab' = Tail(toTab), session = "open", tab = "up",
         NEW n \in DOMAIN toTab', toTab'[n].is = "call"
  PROVE  \/ placing[toTab'[n].call] = "ringing"
         \/ \E m \in DOMAIN toTab' : m > n /\ toTab'[m] = WebFrame("cancel", toTab'[n].call)
<1>1. n \in Nat /\ n + 1 \in DOMAIN toTab /\ toTab'[n] = toTab[n + 1]
  BY Reads
<1>2. \/ placing[toTab[n + 1].call] = "ringing"
      \/ \E m \in DOMAIN toTab : m > n + 1 /\ toTab[m] = WebFrame("cancel", toTab[n + 1].call)
  BY <1>1 DEF TabInv, Cancels
<1>3. ASSUME NEW m \in DOMAIN toTab, m > n + 1, toTab[m] = WebFrame("cancel", toTab[n + 1].call)
      PROVE  m - 1 \in DOMAIN toTab' /\ m - 1 > n /\ toTab'[m - 1] = WebFrame("cancel", toTab'[n].call)
  <2>1. m \in Nat
    BY DEF TabInv, TabShape
  <2>2. m > 1
    BY <1>1, <1>3, <2>1
  <2>3. QED
    BY <1>1, <1>3, <2>1, <2>2, Reads
<1>4. QED
  BY <1>1, <1>2, <1>3

\* A call takes the screen, once.
LEMMA OpeningKeeps ==
  ASSUME TabInv, tab = "up", toTab # <<>>, toTab' = Tail(toTab),
         UNCHANGED <<placing, session, toHub, sound>>,
         Head(toTab).is = "call", OpensCall(Head(toTab).call)
  PROVE  TabInv'
<1> DEFINE c == Head(toTab).call
<1>1. /\ webCall' = c /\ pickedUp' = FALSE /\ tone' = IF sound THEN "on" ELSE tone
      /\ covered' = covered \cup ({webCall} \ {NoWebCall, c})
      /\ UNCHANGED <<tab, reading, stale>>
  BY DEF OpensCall
<1>2. /\ c \in WebCalls /\ toTab[1] = WebFrame("call", c) /\ 1 \in DOMAIN toTab /\ c # NoWebCall
  <2>1. toTab[1] \in TabFrame /\ toTab[1].is = "call" /\ toTab[1].call = c /\ 1 \in DOMAIN toTab
    BY Reads
  <2>2. QED
    BY <2>1, WebCallConstants DEF TabInv, Firsts, TabFrame, WebFrame, WebCallConstants
<1> HIDE DEF c
<1>3. Carries(toTab, "call", c)
  BY <1>2 DEF Carries
<1>4. Novel(c, webCall, reading, stale, toHub)
  BY <1>2, <1>3 DEF TabInv, Firsts
<1>5. ~Carries(toTab', "call", c)
  <2>1. ASSUME NEW n \in DOMAIN toTab', toTab'[n] = WebFrame("call", c) PROVE FALSE
    <3>1. n + 1 \in DOMAIN toTab /\ toTab[n + 1] = toTab[1] /\ n + 1 # 1
      BY <1>2, <2>1, Reads
    <3>2. toTab[1].is = "call"
      BY <1>2 DEF WebFrame
    <3>3. QED
      BY <1>2, <3>1, <3>2 DEF TabInv, Firsts
  <2>2. QED
    BY <2>1 DEF Carries
<1>6. toTab' \in Seq(TabFrame) /\ \A d, is : Carries(toTab', is, d) => Carries(toTab, is, d)
  BY Reads
<1>7. \A d, is : Carries(toTab, is, d) => Carries(toTab', is, d) \/ (is = "call" /\ d = c)
  <2>1. \A d, is : toTab[1] = WebFrame(is, d) => is = "call" /\ d = c
    BY <1>2 DEF WebFrame
  <2>2. QED
    BY <2>1, Reads
<1>8. TabShape' /\ TabQuiet'
  BY <1>1, <1>2, <1>6 DEF TabInv, TabShape, TabQuiet
<1>9. Sessions'
  BY <1>1, Reads DEF TabInv, Sessions
<1>10. Firsts'
  <2>1. \A d \in WebCalls : placing[d] = "none" => d # c
    <3>1. toTab[1].call = c
      BY <1>2 DEF WebFrame
    <3>2. QED
      BY <1>2, <3>1 DEF TabInv, Firsts
  <2>2. \A d : Novel(d, webCall, reading, stale, toHub) /\ d # c => Novel(d, webCall', reading', stale', toHub')
    BY <1>1 DEF Novel
  <2>3. \A d \in WebCalls : placing'[d] = "none" =>
          Novel(d, webCall', reading', stale', toHub') /\ \A n \in DOMAIN toTab' : toTab'[n].call # d
    BY <2>1, <2>2, Reads DEF TabInv, Firsts
  <2>4. \A d \in WebCalls : Carries(toTab', "call", d) => Novel(d, webCall', reading', stale', toHub')
    BY <1>5, <1>6, <2>2 DEF TabInv, Firsts
  <2>5. Unused(webCall', reading', stale', toHub')
    BY <1>1, <1>4 DEF Novel
  <2>6. QED
    BY <2>3, <2>4, <2>5, Reads DEF Firsts
<1>11. Cancels'
  <2>1. \A d \in WebCalls : Carries(toTab', "cancel", d) => placing'[d] = "over"
    BY <1>6 DEF TabInv, Cancels
  <2>2. ASSUME session = "open" PROVE placing[c] = "ringing" \/ Carries(toTab', "cancel", c)
    <3>1. toTab[1].is = "call" /\ toTab[1].call = c
      BY <1>2 DEF WebFrame
    <3>2. placing[c] = "ringing" \/ \E m \in DOMAIN toTab : m > 1 /\ toTab[m] = WebFrame("cancel", c)
      BY <1>2, <2>2, <3>1 DEF TabInv, Cancels
    <3>3. (\E m \in DOMAIN toTab : m > 1 /\ toTab[m] = WebFrame("cancel", c)) => Carries(toTab, "cancel", c)
      BY DEF Carries
    <3>4. QED
      BY <1>7, <3>2, <3>3
  <2>3. ASSUME session = "open", NEW n \in DOMAIN toTab', toTab'[n].is = "call"
        PROVE \/ placing'[toTab'[n].call] = "ringing"
              \/ \E m \in DOMAIN toTab' : m > n /\ toTab'[m] = WebFrame("cancel", toTab'[n].call)
    BY <2>3, ReadsInOrder
  <2>4. QED
    BY <1>1, <2>1, <2>2, <2>3 DEF Cancels
<1>12. Rings'
  <2> SUFFICES ASSUME NEW d \in WebCalls \ covered', placing[d] = "ringing"
               PROVE  \/ Carries(toTab', "call", d) \/ Sounding(d)'
                      \/ Carries(toHub, "answered", d) \/ Carries(toHub, "declined", d)
    BY DEF Rings
  <2>1. CASE d = c
    BY <1>1, <2>1 DEF Sounding
  <2>2. CASE d # c
    <3>1. ~Sounding(d)
      BY <1>1, <2>2, WebCallConstants DEF Sounding, WebCallConstants
    <3>2. \/ Carries(toTab, "call", d) \/ Sounding(d)
          \/ Carries(toHub, "answered", d) \/ Carries(toHub, "declined", d)
      BY <1>1 DEF TabInv, Rings
    <3>3. QED
      BY <1>7, <2>2, <3>1, <3>2
  <2>3. QED
    BY <2>1, <2>2
<1>13. Answers'
  BY <1>1 DEF TabInv, Answers
<1>14. QED
  BY <1>8, <1>9, <1>10, <1>11, <1>12, <1>13 DEF TabInv

\* A cancel closes the screen of its call, which is over.
LEMMA CancelHeardKeeps ==
  ASSUME TabInv, tab = "up", toTab # <<>>, toTab' = Tail(toTab),
         UNCHANGED <<placing, session, toHub, sound>>,
         Head(toTab).is = "cancel", CancelsCall(Head(toTab).call)
  PROVE  TabInv'
<1> DEFINE c == Head(toTab).call
<1>1. /\ UNCHANGED <<tab, covered>>
      /\ \/ webCall = c /\ ClosesScreen
         \/ webCall # c /\ UNCHANGED <<webCall, pickedUp, tone, reading, stale>>
  BY DEF CancelsCall, tabVars
<1>2. c \in WebCalls /\ toTab[1] = WebFrame("cancel", c) /\ 1 \in DOMAIN toTab /\ c # NoWebCall
  <2>1. toTab[1] \in TabFrame /\ toTab[1].is = "cancel" /\ toTab[1].call = c /\ 1 \in DOMAIN toTab
    BY Reads
  <2>2. QED
    BY <2>1, WebCallConstants DEF TabInv, Firsts, TabFrame, WebFrame, WebCallConstants
<1> HIDE DEF c
<1>3. placing[c] = "over"
  BY <1>2 DEF TabInv, Cancels, Carries
<1>4. toTab' \in Seq(TabFrame) /\ \A d, is : Carries(toTab', is, d) => Carries(toTab, is, d)
  BY Reads
<1>5. \A d, is : Carries(toTab, is, d) => Carries(toTab', is, d) \/ (is = "cancel" /\ d = c)
  <2>1. \A d, is : toTab[1] = WebFrame(is, d) => is = "cancel" /\ d = c
    BY <1>2 DEF WebFrame
  <2>2. QED
    BY <2>1, Reads
<1>6. /\ \A d \in WebCalls : Spoken(d, reading', stale') <=> Spoken(d, reading, stale)
      /\ webCall' \in WebCalls \cup {NoWebCall} /\ reading' \in WebCalls \cup {NoWebCall}
      /\ stale' \subseteq WebCalls /\ pickedUp' \in BOOLEAN
      /\ \/ webCall = c /\ webCall' = NoWebCall /\ tone' = "off" /\ reading' = NoWebCall
         \/ webCall # c /\ UNCHANGED <<webCall, pickedUp, tone, reading, stale>>
  BY <1>1, Closing DEF TabInv, TabShape, Spoken
<1>7. TabShape' /\ TabQuiet'
  BY <1>4, <1>6 DEF TabInv, TabShape, TabQuiet
<1>8. Sessions'
  BY <1>1, Reads DEF TabInv, Sessions
<1>9. Firsts'
  <2>1. \A d \in WebCalls : Novel(d, webCall, reading, stale, toHub) => Novel(d, webCall', reading', stale', toHub')
    BY <1>6, WebCallConstants DEF Novel, Unused, WebCallConstants
  <2>2. \A d \in WebCalls : placing'[d] = "none" =>
          Novel(d, webCall', reading', stale', toHub') /\ \A n \in DOMAIN toTab' : toTab'[n].call # d
    BY <2>1, Reads DEF TabInv, Firsts
  <2>3. \A d \in WebCalls : Carries(toTab', "call", d) => Novel(d, webCall', reading', stale', toHub')
    BY <1>4, <2>1 DEF TabInv, Firsts
  <2>4. webCall' # NoWebCall /\ ~pickedUp' => Unused(webCall', reading', stale', toHub')
    BY <1>6 DEF TabInv, Firsts
  <2>5. QED
    BY <2>2, <2>3, <2>4, Reads DEF Firsts
<1>10. Cancels'
  <2>1. \A d \in WebCalls : Carries(toTab', "cancel", d) => placing'[d] = "over"
    BY <1>4 DEF TabInv, Cancels
  <2>2. ASSUME session = "open", webCall' # NoWebCall, ~pickedUp'
        PROVE  placing[webCall'] = "ringing" \/ Carries(toTab', "cancel", webCall')
    BY <1>5, <1>6, <2>2 DEF TabInv, Cancels
  <2>3. ASSUME session = "open", NEW n \in DOMAIN toTab', toTab'[n].is = "call"
        PROVE \/ placing'[toTab'[n].call] = "ringing"
              \/ \E m \in DOMAIN toTab' : m > n /\ toTab'[m] = WebFrame("cancel", toTab'[n].call)
    BY <2>3, ReadsInOrder
  <2>4. QED
    BY <2>1, <2>2, <2>3 DEF Cancels
<1>11. Rings'
  <2> SUFFICES ASSUME NEW d \in WebCalls \ covered, placing[d] = "ringing"
               PROVE  \/ Carries(toTab', "call", d) \/ Sounding(d)'
                      \/ Carries(toHub, "answered", d) \/ Carries(toHub, "declined", d)
    BY <1>1 DEF Rings
  <2>1. \/ Carries(toTab, "call", d) \/ Sounding(d)
        \/ Carries(toHub, "answered", d) \/ Carries(toHub, "declined", d)
    BY DEF TabInv, Rings
  <2>2. d # c
    BY <1>3
  <2>3. Sounding(d) => Sounding(d)'
    BY <1>6, <2>2 DEF Sounding
  <2>4. QED
    BY <1>5, <2>1, <2>3
<1>12. Answers'
  BY <1>1, <1>6 DEF TabInv, Answers
<1>13. QED
  BY <1>7, <1>8, <1>9, <1>10, <1>11, <1>12 DEF TabInv

\* A tab that is revoked has a session that is refused, and no call.
LEMMA RevokedKeeps ==
  ASSUME TabInv, toTab # <<>>, toTab' = Tail(toTab), UNCHANGED <<placing, session, toHub, sound>>,
         Head(toTab).is = "revoked", IsRevoked
  PROVE  TabInv'
<1>1. ClosesScreen /\ tab' = "revoked" /\ covered' = covered
  BY DEF IsRevoked
<1>2. /\ webCall' = NoWebCall /\ reading' = NoWebCall /\ stale' \subseteq WebCalls /\ pickedUp' = FALSE /\ tone' = "off"
      /\ \A c \in WebCalls : Spoken(c, reading', stale') <=> Spoken(c, reading, stale)
  BY <1>1, Closing
<1>3. toTab' \in Seq(TabFrame) /\ \A d, is : Carries(toTab', is, d) => Carries(toTab, is, d)
  BY Reads
<1>4. session = "refused"
  BY Reads DEF TabInv, Sessions
<1>5. TabShape' /\ TabQuiet'
  BY <1>2, <1>3 DEF TabInv, TabShape, TabQuiet
<1>6. Sessions'
  BY <1>2, <1>4, Reads DEF TabInv, Sessions
<1>7. Firsts'
  <2>1. \A d \in WebCalls : Novel(d, webCall, reading, stale, toHub) => Novel(d, webCall', reading', stale', toHub')
    BY <1>2, WebCallConstants DEF Novel, Unused, WebCallConstants
  <2>2. \A d \in WebCalls : placing'[d] = "none" =>
          Novel(d, webCall', reading', stale', toHub') /\ \A n \in DOMAIN toTab' : toTab'[n].call # d
    BY <2>1, Reads DEF TabInv, Firsts
  <2>3. \A d \in WebCalls : Carries(toTab', "call", d) => Novel(d, webCall', reading', stale', toHub')
    BY <1>3, <2>1 DEF TabInv, Firsts
  <2>4. QED
    BY <1>2, <2>2, <2>3, Reads DEF Firsts
<1>8. Cancels'
  BY <1>1, <1>3 DEF TabInv, Cancels
<1>9. Rings' /\ Answers'
  BY <1>1 DEF Rings, Answers
<1>10. QED
  BY <1>5, <1>6, <1>7, <1>8, <1>9 DEF TabInv

\* A connection that goes takes the frames and the call that waits with it; the one after it
\* covers what its hub had not noticed.
LEMMA LosingKeeps == ASSUME TabInv, TabLosesHub PROVE TabInv'
<1>1. /\ tab' = "down" /\ toTab' = <<>> /\ UNCHANGED <<placing, session, toHub, sound, covered>>
      /\ \/ webCall # NoWebCall /\ ~pickedUp /\ ClosesScreen
         \/ (webCall = NoWebCall \/ pickedUp) /\ UNCHANGED <<webCall, pickedUp, tone, reading, stale>>
  BY DEF TabLosesHub, tabVars
<1>2. toTab' \in Seq(TabFrame) /\ DOMAIN toTab' = {} /\ \A is, c : ~Carries(toTab', is, c)
  BY <1>1 DEF Carries
<1>3. /\ \A d \in WebCalls : Spoken(d, reading', stale') <=> Spoken(d, reading, stale)
      /\ webCall' \in WebCalls \cup {NoWebCall} /\ reading' \in WebCalls \cup {NoWebCall}
      /\ stale' \subseteq WebCalls /\ pickedUp' \in BOOLEAN
      /\ \/ webCall' = NoWebCall /\ tone' = "off" /\ reading' = NoWebCall
         \/ (webCall = NoWebCall \/ pickedUp) /\ UNCHANGED <<webCall, pickedUp, tone, reading, stale>>
  BY <1>1, Closing DEF TabInv, TabShape, Spoken
<1>4. TabShape' /\ TabQuiet'
  BY <1>1, <1>2, <1>3 DEF TabInv, TabShape, TabQuiet
<1>5. Sessions'
  BY <1>1, <1>2, <1>3 DEF TabInv, Sessions
<1>6. Firsts'
  <2>1. \A d \in WebCalls : Novel(d, webCall, reading, stale, toHub) => Novel(d, webCall', reading', stale', toHub')
    BY <1>1, <1>3, WebCallConstants DEF Novel, Unused, WebCallConstants
  <2>2. QED
    BY <1>1, <1>2, <1>3, <2>1 DEF TabInv, Firsts
<1>7. Cancels' /\ Rings' /\ Answers'
  BY <1>1, <1>2 DEF Cancels, Rings, Answers
<1>8. QED
  BY <1>4, <1>5, <1>6, <1>7 DEF TabInv

LEMMA ReturningKeeps == ASSUME TabInv, TabReturns PROVE TabInv'
<1>1. /\ tab = "down" /\ tab' = "up" /\ session' = "open" /\ toTab' = <<>> /\ toHub' = <<>>
      /\ covered' = covered \cup {c \in WebCalls : placing[c] \in {"ringing", "answered"}}
      /\ UNCHANGED <<placing, webCall, pickedUp, tone, reading, stale, sound>>
  BY DEF TabReturns, tabVars
<1>2. /\ toTab' \in Seq(TabFrame) /\ DOMAIN toTab' = {} /\ \A is, c : ~Carries(toTab', is, c)
      /\ toHub' \in Seq(HubFrame) /\ DOMAIN toHub' = {}
  BY <1>1 DEF Carries
<1>3. TabShape' /\ TabQuiet'
  BY <1>1, <1>2 DEF TabInv, TabShape, TabQuiet
<1>4. webCall = NoWebCall \/ pickedUp
  BY <1>1 DEF TabInv, Sessions
<1>5. Sessions' /\ Cancels'
  BY <1>1, <1>2, <1>4 DEF Sessions, Cancels
<1>6. Firsts'
  <2>1. \A d : Novel(d, webCall, reading, stale, toHub) => Novel(d, webCall', reading', stale', toHub')
    BY <1>1, <1>2 DEF Novel, Unused
  <2>2. QED
    BY <1>1, <1>2, <1>4, <2>1 DEF TabInv, Firsts
<1>7. \A c \in WebCalls \ covered' : placing'[c] \notin {"ringing", "answered"}
  BY <1>1
<1>8. Rings' /\ Answers'
  BY <1>2, <1>7 DEF Rings, Answers
<1>9. QED
  BY <1>3, <1>5, <1>6, <1>8 DEF TabInv

-----------------------------------------------------------------------------
(* The buttons, and the runs of Answer *)

LEMMA Sends ==
  ASSUME NEW c \in WebCalls, NEW is \in {"answered", "declined", "ended"}
  PROVE  /\ Sent(is, c) \in Seq(HubFrame)
         /\ \A n \in DOMAIN Sent(is, c) : Sent(is, c)[n] = WebFrame(is, c)
         /\ tab = "up" => Carries(Sent(is, c), is, c)
<1>1. WebFrame(is, c) \in HubFrame
  BY DEF WebFrame, HubFrame
<1>2. CASE tab = "up"
  <2> DEFINE s == Sent(is, c)
  <2>1. s = <<WebFrame(is, c)>>
    BY <1>2 DEF Sent
  <2> HIDE DEF s
  <2>2. s \in Seq(HubFrame) /\ DOMAIN s = {1} /\ s[1] = WebFrame(is, c)
    BY <1>1, <2>1
  <2>3. \A n \in DOMAIN s : s[n] = WebFrame(is, c)
    BY <2>2
  <2>4. Carries(s, is, c)
    BY <2>2 DEF Carries
  <2>5. QED
    BY <2>2, <2>3, <2>4 DEF s
<1>3. CASE tab # "up"
  BY <1>3 DEF Sent
<1>4. QED
  BY <1>2, <1>3

LEMMA Nothing ==
  ASSUME NEW S, NEW s, s = <<>> \o <<>>
  PROVE  s \in Seq(S) /\ DOMAIN s = {}
<1>1. <<>> \in Seq(S)
  OBVIOUS
<1>2. s = <<>>
  BY <1>1, ConcatEmptySeq
<1>3. QED
  BY <1>1, <1>2

LEMMA Couple ==
  ASSUME NEW S, NEW x \in S, NEW y \in S, NEW s, s = <<x>> \o <<y>>
  PROVE  s \in Seq(S) /\ DOMAIN s = {1, 2} /\ s[1] = x /\ s[2] = y
<1> DEFINE q == <<x>>
           r == <<y>>
<1>1. q \in Seq(S) /\ r \in Seq(S) /\ Len(q) = 1 /\ Len(r) = 1 /\ q[1] = x /\ r[1] = y /\ s = q \o r
  OBVIOUS
<1> HIDE DEF q, r
<1>2. /\ s \in Seq(S) /\ Len(s) = Len(q) + Len(r)
      /\ \A i \in 1..Len(q) + Len(r) : s[i] = IF i <= Len(q) THEN q[i] ELSE r[i - Len(q)]
  BY <1>1, ConcatProperties
<1>3. s \in Seq(S) /\ Len(s) = 2 /\ \A i \in 1..2 : s[i] = IF i <= 1 THEN q[i] ELSE r[i - 1]
  BY <1>1, <1>2
<1>4. s[1] = x /\ s[2] = r[2 - 1] /\ 2 - 1 = 1 /\ DOMAIN s = 1..2
  BY <1>1, <1>3
<1>5. QED
  BY <1>1, <1>3, <1>4

\* Two frames of one call, the first before the second
LEMMA SendsBoth ==
  ASSUME NEW c \in WebCalls, NEW s, s = Sent("answered", c) \o Sent("ended", c)
  PROVE  /\ s \in Seq(HubFrame)
         /\ \A n \in DOMAIN s : s[n] \in {WebFrame("answered", c), WebFrame("ended", c)}
         /\ tab = "up" => Carries(s, "answered", c) /\ Carries(s, "ended", c)
         /\ \A n \in DOMAIN s : s[n] = WebFrame("answered", c) => \E m \in DOMAIN s : m > n /\ s[m] = WebFrame("ended", c)
<1>1. WebFrame("answered", c) \in HubFrame /\ WebFrame("ended", c) \in HubFrame /\ WebFrame("answered", c) # WebFrame("ended", c)
  BY DEF WebFrame, HubFrame
<1>2. CASE tab = "up"
  <2>1. s = <<WebFrame("answered", c)>> \o <<WebFrame("ended", c)>>
    BY <1>2 DEF Sent
  <2>3. s \in Seq(HubFrame) /\ DOMAIN s = {1, 2} /\ s[1] = WebFrame("answered", c) /\ s[2] = WebFrame("ended", c)
    <3> DEFINE x == WebFrame("answered", c)
               y == WebFrame("ended", c)
    <3>1. x \in HubFrame /\ y \in HubFrame /\ s = <<x>> \o <<y>>
      BY <1>1, <2>1
    <3> HIDE DEF x, y
    <3>2. s \in Seq(HubFrame) /\ DOMAIN s = {1, 2} /\ s[1] = x /\ s[2] = y
      BY ONLY <3>1, Couple
    <3>3. QED
      BY <3>2 DEF x, y
  <2>4. Carries(s, "answered", c) /\ Carries(s, "ended", c)
    BY <2>3 DEF Carries
  <2>5. \A n \in DOMAIN s : s[n] = WebFrame("answered", c) => 2 > n
    BY <1>1, <2>3
  <2>6. QED
    BY <2>3, <2>4, <2>5
<1>3. CASE tab # "up"
  <2>1. s = <<>> \o <<>>
    BY <1>3 DEF Sent
  <2>2. s \in Seq(HubFrame) /\ DOMAIN s = {}
    BY <2>1, Nothing
  <2>3. QED
    BY <1>3, <2>2
<1>4. QED
  BY <1>2, <1>3

LEMMA DeclineKeeps == ASSUME TabInv, PressDeclineTab PROVE TabInv'
<1> DEFINE s == Sent("declined", webCall)
<1>1. /\ webCall # NoWebCall /\ toHub' = toHub \o s /\ ClosesScreen
      /\ UNCHANGED <<placing, session, toTab, tab, sound, covered>>
  BY DEF PressDeclineTab
<1>2. webCall \in WebCalls
  BY <1>1 DEF TabInv, TabShape
<1>3. /\ webCall' = NoWebCall /\ reading' = NoWebCall /\ stale' \subseteq WebCalls /\ pickedUp' = FALSE /\ tone' = "off"
      /\ \A c \in WebCalls : Spoken(c, reading', stale') <=> Spoken(c, reading, stale)
  BY <1>1, Closing
<1>4. /\ s \in Seq(HubFrame) /\ \A n \in DOMAIN s : s[n] = WebFrame("declined", webCall)
      /\ tab = "up" => Carries(s, "declined", webCall)
  BY <1>2, Sends
<1> HIDE DEF s
<1>5. TabQuiet'
  BY <1>3 DEF TabQuiet
<1>6. \A n \in DOMAIN s : s[n].call = webCall /\ \A c : s[n] # WebFrame("answered", c)
  BY <1>4 DEF WebFrame
<1>7. tab = "up" => \A c \in WebCalls : Sounding(c) => Carries(s, "declined", c)
  BY <1>4 DEF Sounding
<1>8. QED
  BY <1>1, <1>3, <1>4, <1>5, <1>6, <1>7, RepliesKeep

\* A call picked up is read out, and the run before it superseded.
LEMMA AnswerKeeps == ASSUME TabInv, PressAnswerTab, voices PROVE TabInv'
<1> DEFINE s == Sent("answered", webCall)
<1>1. /\ webCall # NoWebCall /\ ~pickedUp /\ toHub' = toHub \o s
      /\ tone' = "off" /\ pickedUp' = TRUE /\ webCall' = webCall
      /\ reading' = webCall /\ stale' = stale \cup ({reading} \ {NoWebCall})
      /\ UNCHANGED <<placing, session, toTab, tab, sound, covered>>
  BY DEF PressAnswerTab, Supersedes
<1>2. webCall \in WebCalls /\ reading \in WebCalls \cup {NoWebCall} /\ stale \subseteq WebCalls /\ NoWebCall \notin WebCalls
  BY <1>1, WebCallConstants DEF TabInv, TabShape, WebCallConstants
<1>3. /\ s \in Seq(HubFrame) /\ \A n \in DOMAIN s : s[n] = WebFrame("answered", webCall)
      /\ tab = "up" => Carries(s, "answered", webCall)
  BY <1>2, Sends
<1> HIDE DEF s
<1>4. /\ \A c \in WebCalls : Spoken(c, reading', stale') <=> Spoken(c, reading, stale) \/ c = webCall
      /\ stale' \subseteq WebCalls
  BY <1>1, <1>2 DEF Spoken
<1>5. TabQuiet'
  BY <1>1 DEF TabQuiet
<1>6. \A n \in DOMAIN s : s[n].call = webCall /\ \A c : s[n] = WebFrame("answered", c) => c = webCall
  BY <1>3 DEF WebFrame
<1>7. tab = "up" => \A c \in WebCalls : Sounding(c) => Carries(s, "answered", c)
  BY <1>3 DEF Sounding
<1>8. \A c \in WebCalls : \A n \in DOMAIN s : s[n] = WebFrame("answered", c) => Spoken(c, reading', stale')
  BY <1>4, <1>6
<1>9. pickedUp' \in BOOLEAN /\ webCall' \in {webCall, NoWebCall} /\ reading' \in WebCalls \cup {NoWebCall}
  BY <1>1, <1>2
<1>10. QED
  BY <1>1, <1>3, <1>4, <1>5, <1>6, <1>7, <1>8, <1>9, RepliesKeep

\* Where a run comes to its end: the hub hears of it, and the screen of another call is left alone.
LEMMA EndOfRun ==
  ASSUME TabInv, NEW c \in WebCalls, OwnScreen(c) \/ Spoken(c, reading, stale),
         IF OwnScreen(c)
           THEN LeavesScreen /\ reading' = NoWebCall /\ stale' = (stale \cup {reading}) \ {c, NoWebCall}
           ELSE /\ reading' = (IF reading = c THEN NoWebCall ELSE reading) /\ stale' = stale \ {c}
                /\ UNCHANGED <<webCall, pickedUp, tone>>
  PROVE  /\ \A d \in WebCalls : Spoken(d, reading', stale') <=> Spoken(d, reading, stale) /\ d # c
         /\ reading' \in WebCalls \cup {NoWebCall} /\ stale' \subseteq WebCalls /\ pickedUp' \in BOOLEAN /\ TabQuiet'
         /\ \/ webCall = c /\ webCall' = NoWebCall
            \/ webCall # c /\ UNCHANGED <<webCall, pickedUp, tone>>
<1>1. reading \in WebCalls \cup {NoWebCall} /\ stale \subseteq WebCalls /\ NoWebCall \notin WebCalls /\ pickedUp \in BOOLEAN
  BY WebCallConstants DEF TabInv, TabShape, WebCallConstants
<1>2. CASE webCall = c
  <2>1. LeavesScreen /\ reading' = NoWebCall /\ stale' = (stale \cup {reading}) \ {c, NoWebCall}
    BY <1>2 DEF OwnScreen
  <2>2. webCall' = NoWebCall /\ pickedUp' = FALSE /\ tone' = "off"
    BY <2>1 DEF LeavesScreen
  <2>3. \A d \in WebCalls : Spoken(d, reading', stale') <=> Spoken(d, reading, stale) /\ d # c
    BY <1>1, <2>1 DEF Spoken
  <2>4. QED
    BY <1>1, <1>2, <2>1, <2>2, <2>3 DEF TabQuiet
<1>3. CASE webCall # c
  <2>1. /\ reading' = (IF reading = c THEN NoWebCall ELSE reading) /\ stale' = stale \ {c}
        /\ UNCHANGED <<webCall, pickedUp, tone>>
    BY <1>3 DEF OwnScreen
  <2>2. \A d \in WebCalls : Spoken(d, reading', stale') <=> Spoken(d, reading, stale) /\ d # c
    BY <1>1, <2>1 DEF Spoken
  <2>3. TabQuiet'
    BY <2>1 DEF TabInv, TabQuiet
  <2>4. QED
    BY <1>1, <1>3, <2>1, <2>2, <2>3
<1>4. QED
  BY <1>2, <1>3

LEMMA SilentAnswerKeeps == ASSUME TabInv, PressAnswerTab, ~voices PROVE TabInv'
<1> DEFINE s == Sent("answered", webCall) \o Sent("ended", webCall)
<1>1. /\ webCall # NoWebCall /\ ~pickedUp
      /\ toHub' = toHub \o Sent("answered", webCall) \o Sent("ended", webCall)
      /\ UNCHANGED <<placing, session, toTab, tab, sound, covered>>
      /\ LeavesScreen /\ reading' = NoWebCall /\ stale' = (stale \cup {reading}) \ {webCall, NoWebCall}
  BY DEF PressAnswerTab, EndsRun, OwnScreen
<1>2. webCall \in WebCalls
  BY <1>1 DEF TabInv, TabShape
<1>3. toHub' = toHub \o s
  <2>1. Sent("answered", webCall) \in Seq(HubFrame) /\ Sent("ended", webCall) \in Seq(HubFrame) /\ toHub \in Seq(HubFrame)
    BY <1>2, Sends DEF TabInv, TabShape
  <2>2. QED
    BY <1>1, <2>1, ConcatAssociative
<1>4. /\ s \in Seq(HubFrame)
      /\ \A n \in DOMAIN s : s[n] \in {WebFrame("answered", webCall), WebFrame("ended", webCall)}
      /\ tab = "up" => Carries(s, "answered", webCall) /\ Carries(s, "ended", webCall)
      /\ \A n \in DOMAIN s : s[n] = WebFrame("answered", webCall) =>
           \E m \in DOMAIN s : m > n /\ s[m] = WebFrame("ended", webCall)
  BY <1>2, SendsBoth
<1> HIDE DEF s
<1>5. /\ \A d \in WebCalls : Spoken(d, reading', stale') <=> Spoken(d, reading, stale) /\ d # webCall
      /\ reading' \in WebCalls \cup {NoWebCall} /\ stale' \subseteq WebCalls /\ pickedUp' \in BOOLEAN /\ TabQuiet'
      /\ webCall' = NoWebCall
  BY <1>1, <1>2, EndOfRun DEF OwnScreen, LeavesScreen
<1>6. \A n \in DOMAIN s : s[n].call = webCall /\ \A c : s[n] = WebFrame("answered", c) => c = webCall
  BY <1>4 DEF WebFrame
<1>7. tab = "up" => \A c \in WebCalls : Sounding(c) => Carries(s, "answered", c)
  BY <1>4 DEF Sounding
<1>8. tab = "up" => \A c \in WebCalls : Spoken(c, reading, stale) => Spoken(c, reading', stale') \/ Carries(s, "ended", c)
  BY <1>4, <1>5
<1>9. \A c \in WebCalls : \A n \in DOMAIN s : s[n] = WebFrame("answered", c) =>
        \E m \in DOMAIN s : m > n /\ s[m] = WebFrame("ended", c)
  BY <1>4, <1>6
<1>10. QED
  BY <1>1, <1>3, <1>4, <1>5, <1>6, <1>7, <1>8, <1>9, RepliesKeep

LEMMA SettlingKeeps == ASSUME TabInv, NEW c \in WebCalls, SpeechSettles(c) PROVE TabInv'
<1> DEFINE s == Sent("ended", c)
<1>1. /\ Spoken(c, reading, stale) /\ toHub' = toHub \o <<>> \o s
      /\ UNCHANGED <<placing, session, toTab, tab, sound, covered>>
      /\ IF OwnScreen(c)
           THEN LeavesScreen /\ reading' = NoWebCall /\ stale' = (stale \cup {reading}) \ {c, NoWebCall}
           ELSE /\ reading' = (IF reading = c THEN NoWebCall ELSE reading) /\ stale' = stale \ {c}
                /\ UNCHANGED <<webCall, pickedUp, tone>>
  BY DEF SpeechSettles, EndsRun, Spoken
<1>2. toHub' = toHub \o s
  BY <1>1 DEF TabInv, TabShape
<1>3. /\ s \in Seq(HubFrame) /\ \A n \in DOMAIN s : s[n] = WebFrame("ended", c)
      /\ tab = "up" => Carries(s, "ended", c)
  BY Sends
<1> HIDE DEF s
<1>4. /\ \A d \in WebCalls : Spoken(d, reading', stale') <=> Spoken(d, reading, stale) /\ d # c
      /\ reading' \in WebCalls \cup {NoWebCall} /\ stale' \subseteq WebCalls /\ pickedUp' \in BOOLEAN /\ TabQuiet'
      /\ \/ webCall = c /\ webCall' = NoWebCall
         \/ webCall # c /\ UNCHANGED <<webCall, pickedUp, tone>>
  BY <1>1, EndOfRun
<1>5. \A n \in DOMAIN s : s[n].call = c /\ \A d : s[n] # WebFrame("answered", d)
  BY <1>3 DEF WebFrame
<1>6. tab = "up" => \A d \in WebCalls : Sounding(d) => webCall' # NoWebCall /\ ~pickedUp'
  <2>1. ASSUME NEW d \in WebCalls, Sounding(d) PROVE webCall' # NoWebCall /\ ~pickedUp'
    <3>1. webCall = d /\ ~pickedUp /\ d # NoWebCall
      BY <2>1, WebCallConstants DEF Sounding, WebCallConstants
    <3>2. Unused(d, reading, stale, toHub)
      BY <3>1 DEF TabInv, Firsts
    <3>3. d # c
      BY <1>1, <3>2 DEF Unused
    <3>4. QED
      BY <1>4, <3>1, <3>3
  <2>2. QED
    BY <2>1
<1>7. tab = "up" => \A d \in WebCalls : Spoken(d, reading, stale) => Spoken(d, reading', stale') \/ Carries(s, "ended", d)
  BY <1>3, <1>4
<1>8. webCall' \in {webCall, NoWebCall}
  BY <1>4
<1>9. webCall' # NoWebCall /\ ~pickedUp' => ~pickedUp /\ tone' = tone /\ webCall # c
  BY <1>4
<1>10. QED
  BY <1>1, <1>2, <1>3, <1>4, <1>5, <1>6, <1>7, <1>8, <1>9, RepliesKeep

\* A ring that runs out leaves what it rang for.
LEMMA ToneKeeps ==
  ASSUME TabInv, UNCHANGED <<placing, session, toTab, toHub, tab, webCall, pickedUp, reading, stale, sound, covered>>,
         tone' = tone \/ (tone = "on" /\ tone' = "spent")
  PROVE  TabInv'
<1>1. TabShape' /\ Sessions' /\ Firsts' /\ Cancels' /\ Answers'
  BY DEF TabInv, TabShape, Sessions, Firsts, Cancels, Answers
<1>2. TabQuiet'
  BY DEF TabInv, TabQuiet
<1>3. Rings'
  BY DEF TabInv, Rings, Sounding
<1>4. QED
  BY <1>1, <1>2, <1>3 DEF TabInv

LEMMA TabSteps == TabInv /\ [WebCallNext]_webCallVars => TabInv'
<1> SUFFICES ASSUME TabInv, [WebCallNext]_webCallVars PROVE TabInv'
  OBVIOUS
<1>1. CASE UNCHANGED webCallVars \/ ToneRunsOut
  BY <1>1, ToneKeeps DEF webCallVars, tabVars, ToneRunsOut
<1>2. ASSUME NEW c \in WebCalls, HubRingsTab(c) \/ HubCancelsTab(c) \/ SpeechSettles(c) PROVE TabInv'
  BY <1>2, RingingKeeps, CancellingKeeps, SettlingKeeps
<1>3. CASE HubHears
  BY <1>3, HearingKeeps
<1>4. CASE HubLosesTab \/ HubRevokesTab
  BY <1>4, DroppingKeeps
<1>5. CASE TabHears
  <2>1. /\ tab = "up" /\ toTab # <<>> /\ toTab' = Tail(toTab) /\ UNCHANGED <<placing, session, toHub, sound>>
        /\ \/ Head(toTab).is = "call" /\ OpensCall(Head(toTab).call)
           \/ Head(toTab).is = "cancel" /\ CancelsCall(Head(toTab).call)
           \/ Head(toTab).is = "revoked" /\ IsRevoked
    BY <1>5 DEF TabHears
  <2>2. QED
    BY <2>1, OpeningKeeps, CancelHeardKeeps, RevokedKeeps
<1>6. CASE TabLosesHub
  BY <1>6, LosingKeeps
<1>7. CASE TabReturns
  BY <1>7, ReturningKeeps
<1>8. CASE PressAnswerTab
  BY <1>8, AnswerKeeps, SilentAnswerKeeps
<1>9. CASE PressDeclineTab
  BY <1>9, DeclineKeeps
<1>10. QED
  BY <1>1, <1>2, <1>3, <1>4, <1>5, <1>6, <1>7, <1>8, <1>9 DEF WebCallNext

\* A tab and a hub that have read each other's frames agree: what rings there is on the screen and
\* sounds, what was answered there is read out, and without a call the page is quiet, whichever
\* run comes back from its wait to the screen of another call (app.ts: openCall, answerCall).
THEOREM TheTabRings == WebCallSpec => []TabRings
BY TabStarts, TabTells, TabSteps, PTL DEF WebCallSpec

----------------------------------------------------------------------------
(* The file of private seeds, for any number of programs and of hubs: while  *)
(* none of the perils its authors name has happened, every seed that was     *)
(* stored and not removed is on the disk.                                    *)

Document == [is : {"absent", "whole", "broken"}, seeds : SUBSET Seeds]
Process == [at : {"idle", "writing", "renaming"}, data : SUBSET Seeds, unreadable : BOOLEAN]
FileShape == file \in Document /\ tmp \in Document /\ program \in [Programs -> Process]

\* Short of perils there is one writer, what it will write has every seed that is not set aside,
\* and the temporary file is its own once it is about to be renamed.
OneWriter == \A p, q \in Programs : program[p].at # "idle" /\ program[q].at # "idle" => p = q
Carried == \A p \in Programs : program[p].at # "idle" => held \subseteq program[p].data \cup aside
OwnTmp == \A p \in Programs : program[p].at = "renaming" => tmp = Whole(program[p].data)
Careful == OneWriter /\ Carried /\ OwnTmp /\ held \subseteq file.seeds \cup aside
SeedsInv == FileShape /\ (perils = {} => Careful)

LEMMA FileStarts == CredentialsInit => SeedsInv
BY DEF CredentialsInit, SeedsInv, FileShape, Document, Process, Careful, OneWriter, Carried, OwnTmp,
       Absent, Fresh

\* What load() does to the disk loses nothing, and without peril what it returns is all there was.
LEMMA LoadKeeps ==
  ASSUME SeedsInv, NEW p \in Programs, NEW data \in SUBSET Seeds, NEW u \in BOOLEAN, NEW peril,
         LoadFile(p, data, u, peril)
  PROVE  /\ file' \in Document
         /\ file.seeds \cup aside \subseteq file'.seeds \cup aside' /\ aside \subseteq aside'
         /\ peril = {} /\ ~u => file.seeds \subseteq data \cup aside'
<1> USE DEF SeedsInv, FileShape
<1>1. Absent \in Document /\ Absent.seeds = {}
  BY DEF Absent, Document
<1>2. CASE NothingRead(data)
  <2>1. file' = file /\ aside' = aside
    BY <1>2 DEF NothingRead
  <2>2. ASSUME peril = {}, ~u PROVE file = Absent \/ Parsed(data, peril)
    BY <2>2 DEF LoadFile, LoadGuarded, LoadPlain
  <2> QED
    BY <1>1, <2>1, <2>2 DEF Parsed
<1>3. CASE Parsed(data, peril)
  BY <1>1, <1>3 DEF Parsed
<1> QED
  BY <1>2, <1>3 DEF LoadFile, LoadGuarded, LoadPlain

\* What load() remembers, and a step of save(), make of the program that takes them.
LEMMA ReadStep ==
  ASSUME FileShape, NEW p \in Programs, NEW u \in BOOLEAN,
         program' = [program EXCEPT ![p].unreadable = u]
  PROVE  /\ program' \in [Programs -> Process]
         /\ \A q \in Programs : program'[q].at = program[q].at /\ program'[q].data = program[q].data
<1>1. program[p] \in Process /\ program \in [Programs -> Process]
  BY DEF FileShape
<1> DEFINE next == [program[p] EXCEPT !.unreadable = u]
<1>2. next \in Process /\ next.at = program[p].at /\ next.data = program[p].data
  BY <1>1 DEF Process
<1>3. program' = [program EXCEPT ![p] = next]
  BY <1>1
<1> HIDE DEF next
<1> QED
  BY <1>1, <1>2, <1>3

LEMMA GetKeeps ==
  ASSUME SeedsInv, NEW p \in Programs, Get(p)
  PROVE  SeedsInv'
<1>1. PICK data \in SUBSET Seeds, u \in BOOLEAN, peril \in SUBSET {"stuck", "unguarded"} :
        LoadFile(p, data, u, peril) /\ program' = [program EXCEPT ![p].unreadable = u]
  BY DEF Get
<1>2. /\ file' \in Document
      /\ file.seeds \cup aside \subseteq file'.seeds \cup aside' /\ aside \subseteq aside'
  BY <1>1, LoadKeeps
<1>3. /\ program' \in [Programs -> Process]
      /\ \A q \in Programs : program'[q].at = program[q].at /\ program'[q].data = program[q].data
  BY <1>1, ReadStep DEF SeedsInv
<1>4. UNCHANGED <<tmp, held, perils>>
  BY DEF Get
<1> QED
  BY <1>2, <1>3, <1>4 DEF SeedsInv, FileShape, Careful, OneWriter, Carried, OwnTmp

LEMMA MutateKeeps ==
  ASSUME SeedsInv, NEW p \in Programs, NEW plus \in SUBSET Seeds, NEW minus,
         Mutate(p, plus, minus), held' = held \ minus
  PROVE  SeedsInv'
<1>1. PICK data \in SUBSET Seeds, u \in BOOLEAN, peril \in SUBSET {"stuck", "unguarded"} :
        /\ LoadFile(p, data, u, peril)
        /\ IF u
           THEN program' = [program EXCEPT ![p].unreadable = u] /\ UNCHANGED perils
           ELSE /\ program' = [program EXCEPT ![p] =
                     [at |-> "writing", data |-> (data \cup plus) \ minus, unreadable |-> u]]
                /\ perils' = perils \cup peril
                     \cup (IF \A q \in Programs : program[q].at = "idle" THEN {} ELSE {"overlap"})
  BY DEF Mutate, Refuses
<1>2. /\ file' \in Document
      /\ file.seeds \cup aside \subseteq file'.seeds \cup aside' /\ aside \subseteq aside'
      /\ peril = {} /\ ~u => file.seeds \subseteq data \cup aside'
  BY <1>1, LoadKeeps
<1>3. tmp' = tmp
  BY DEF Mutate
<1>4. CASE u
  <2>1. /\ program' \in [Programs -> Process]
        /\ \A q \in Programs : program'[q].at = program[q].at /\ program'[q].data = program[q].data
    BY <1>1, <1>4, ReadStep DEF SeedsInv
  <2> QED
    BY <1>1, <1>2, <1>3, <1>4, <2>1 DEF SeedsInv, FileShape, Careful, OneWriter, Carried, OwnTmp
<1>5. CASE ~u
  <2> DEFINE next == [at |-> "writing", data |-> (data \cup plus) \ minus, unreadable |-> u]
  <2>1. next \in Process /\ next.at = "writing" /\ next.data = (data \cup plus) \ minus
    BY DEF Process
  <2>2. program' = [program EXCEPT ![p] = next]
    BY <1>1, <1>5
  <2> HIDE DEF next
  <2>3. FileShape'
    BY <1>2, <1>3, <2>1, <2>2 DEF SeedsInv, FileShape
  <2>4. ASSUME perils' = {} PROVE Careful'
    <3>1. perils = {} /\ peril = {} /\ \A q \in Programs : program[q].at = "idle"
      BY <1>1, <1>5, <2>4
    <3>2. held \subseteq file.seeds \cup aside
      BY <3>1 DEF SeedsInv, Careful
    <3>3. held' \subseteq next.data \cup aside' /\ held' \subseteq file'.seeds \cup aside'
      BY <1>2, <1>5, <2>1, <3>1, <3>2
    <3> QED
      BY <2>1, <2>2, <3>1, <3>3 DEF SeedsInv, FileShape, Careful, OneWriter, Carried, OwnTmp
  <2> QED
    BY <2>3, <2>4 DEF SeedsInv
<1> QED
  BY <1>4, <1>5

LEMMA SaveStep ==
  ASSUME FileShape, NEW p \in Programs, NEW w \in {"idle", "renaming"},
         program' = [program EXCEPT ![p].at = w]
  PROVE  /\ program' \in [Programs -> Process]
         /\ program'[p].at = w /\ program'[p].data = program[p].data
         /\ \A q \in Programs \ {p} : program'[q] = program[q]
<1>1. program[p] \in Process
  BY DEF FileShape
<1>2. [program[p] EXCEPT !.at = w] \in Process
  BY <1>1 DEF Process
<1>3. [program[p] EXCEPT !.at = w].at = w /\ [program[p] EXCEPT !.at = w].data = program[p].data
  BY <1>1 DEF Process
<1> QED
  BY <1>2, <1>3 DEF FileShape

LEMMA SeedsStepKeeps == SeedsInv /\ [CredentialsNext]_credentialsVars => SeedsInv'
<1> SUFFICES ASSUME SeedsInv, [CredentialsNext]_credentialsVars PROVE SeedsInv'
  OBVIOUS
<1> USE DEF SeedsInv, Careful
<1>0. Broken({}) \in Document /\ Absent \in Document
  BY DEF Broken, Absent, Document
<1>1. CASE UNCHANGED credentialsVars
  BY <1>1 DEF credentialsVars, FileShape, OneWriter, Carried, OwnTmp
<1>2. CASE Damage
  <2>1. file' \in Document /\ file'.seeds = file.seeds
    BY <1>2 DEF Damage, Broken, Document, FileShape
  <2> QED
    BY <1>2, <2>1 DEF Damage, FileShape, OneWriter, Carried, OwnTmp
<1>3. CASE Deleted
  BY <1>0, <1>3 DEF Deleted, FileShape, OneWriter, Carried, OwnTmp
<1>4. ASSUME NEW p \in Programs, Get(p) PROVE SeedsInv'
  BY <1>4, GetKeeps
<1>5. ASSUME NEW p \in Programs, WriteTmp(p) PROVE SeedsInv'
  <2>1. Whole(program[p].data) \in Document
    BY DEF FileShape, Process, Whole, Document
  <2>2. /\ program' \in [Programs -> Process]
        /\ program'[p].at = "renaming" /\ program'[p].data = program[p].data
        /\ \A q \in Programs \ {p} : program'[q] = program[q]
    BY <1>5, SaveStep DEF WriteTmp
  <2>3. /\ program[p].at = "writing" /\ tmp' = Whole(program[p].data)
        /\ UNCHANGED <<file, aside, held, perils>>
    BY <1>5 DEF WriteTmp
  <2>4. FileShape'
    BY <2>1, <2>2, <2>3 DEF FileShape
  <2>5. ASSUME perils = {} PROVE OneWriter' /\ Carried' /\ OwnTmp' /\ SeedsKept'
    BY <2>2, <2>3, <2>5 DEF OneWriter, Carried, OwnTmp, SeedsKept
  <2> QED
    BY <2>3, <2>4, <2>5 DEF SeedsKept
<1>6. ASSUME NEW p \in Programs, WriteFails(p) PROVE SeedsInv'
  <2>1. /\ program' \in [Programs -> Process]
        /\ program'[p].at = "idle" /\ program'[p].data = program[p].data
        /\ \A q \in Programs \ {p} : program'[q] = program[q]
    BY <1>6, SaveStep DEF WriteFails
  <2>2. /\ program[p].at = "writing" /\ tmp' \in {tmp, Broken({})}
        /\ UNCHANGED <<file, aside, held, perils>>
    BY <1>6 DEF WriteFails
  <2>3. FileShape'
    BY <1>0, <2>1, <2>2 DEF FileShape
  <2>4. ASSUME perils = {} PROVE OneWriter' /\ Carried' /\ OwnTmp' /\ SeedsKept'
    BY <2>1, <2>2, <2>4 DEF OneWriter, Carried, OwnTmp, SeedsKept
  <2> QED
    BY <2>2, <2>3, <2>4 DEF SeedsKept
<1>7. ASSUME NEW p \in Programs, Rename(p) PROVE SeedsInv'
  <2>1. /\ program' \in [Programs -> Process] /\ program'[p].at = "idle"
        /\ \A q \in Programs \ {p} : program'[q] = program[q]
    BY <1>7, SaveStep DEF Rename
  <2>2. FileShape' /\ perils' = perils /\ aside' = aside
    BY <1>0, <1>7, <2>1 DEF Rename, FileShape
  <2>3. ASSUME perils = {} PROVE Careful'
    <3>1. /\ tmp = Whole(program[p].data) /\ tmp.seeds = program[p].data /\ tmp # Absent
          /\ held \subseteq program[p].data \cup aside
          /\ \A q \in Programs : program'[q].at = "idle"
      BY <1>7, <2>1, <2>3 DEF Rename, OwnTmp, Carried, OneWriter, Whole, Absent
    <3>2. file' = tmp /\ held' = held \cup program[p].data
      BY <1>7, <3>1 DEF Rename
    <3> QED
      BY <2>2, <3>1, <3>2 DEF OneWriter, Carried, OwnTmp
  <2> QED
    BY <2>2, <2>3
<1>8. ASSUME NEW p \in Programs, RenameFails(p) PROVE SeedsInv'
  BY <1>8, SaveStep DEF RenameFails, FileShape, OneWriter, Carried, OwnTmp
<1>9. ASSUME NEW p \in Programs, CrashProgram(p) PROVE SeedsInv'
  <2>1. Fresh \in Process /\ Fresh.at = "idle"
    BY DEF Fresh, Process
  <2>2. tmp' \in Document /\ (program[p].at # "writing" => tmp' = tmp)
    BY <1>0, <1>9 DEF CrashProgram, FileShape
  <2>3. program' = [program EXCEPT ![p] = Fresh] /\ UNCHANGED <<file, aside, held, perils>>
    BY <1>9 DEF CrashProgram
  <2> QED
    BY <2>1, <2>2, <2>3 DEF FileShape, OneWriter, Carried, OwnTmp
<1>10. ASSUME NEW p \in Programs, NEW s \in Seeds, SetSeed(p, s) PROVE SeedsInv'
  <2>1. Mutate(p, {s}, {}) /\ held' = held \ {}
    BY <1>10 DEF SetSeed
  <2> QED
    BY <2>1, MutateKeeps
<1>11. ASSUME NEW p \in Programs, NEW s \in Seeds, RemoveSeed(p, s) PROVE SeedsInv'
  BY <1>11, MutateKeeps DEF RemoveSeed
<1> QED
  BY <1>1, <1>2, <1>3, <1>4, <1>5, <1>6, <1>7, <1>8, <1>9, <1>10, <1>11 DEF CredentialsNext

\* No private seed is lost: whatever reads, writes and renames fail and wherever a process crashes
\* (load, mutate, save of cli/src/storage.ts and desktop/src/main/storage.ts).
THEOREM SeedsAreKept == CredentialsSpec => []SeedsKept
<1>1. SeedsInv => SeedsKept
  BY DEF SeedsInv, Careful, SeedsKept
<1> QED
  BY <1>1, FileStarts, SeedsStepKeeps, PTL DEF CredentialsSpec
============================================================================
