------------------------------- MODULE Client -------------------------------
(* One NotifyClient (protocol/src/client.ts): the socket it holds, the       *)
(* timers that replace it, pairing and authentication around an asynchronous *)
(* signature, and the watchdog by which a device notices that its hub has    *)
(* gone.  The hub, the network and the host application are at their worst.  *)
(* Time passes in ticks of half a watchdog deadline; the watchdog and the    *)
(* backoff are timed, the deadlines of a handshake and of a keepalive run    *)
(* out at any moment.                                                        *)
(* Operators named X_Fault are faults of X the properties must reveal.       *)
EXTENDS Integers

CONSTANTS
  Deadline,     \* watchdog: intervalMs + graceMs, in ticks
  Backoff,      \* the longest reconnect delay, in ticks
  Farewell,     \* how long a `bye` announces, in ticks
  Patience,     \* bound: silence is counted up to here
  StrayLimit,   \* bound on the sockets of wrong hubs that are closing at once
  ProbeLimit,   \* bound on the answers of isOnline() awaited at once
  AutoReconnect

ASSUME ClientConstants ==
  /\ {Deadline, Farewell, Patience, StrayLimit, ProbeLimit} \subseteq Nat \ {0} /\ Backoff \in Nat
  /\ Deadline < Patience
  /\ AutoReconnect \in BOOLEAN

VARIABLES
  wanted,     \* ~closedByUs
  status,
  stored,     \* the storage holds credentials
  creds,      \* the client has them in memory
  code,       \* pendingCode: none, fresh, or spent at the hub
  rejected,
  opening,    \* connect() awaiting the storage, pair() awaiting a key pair
  sock,       \* the current socket and what is going on there
  live,       \* sockets whose handlers are still attached
  orphans,    \* ... those among them that the client has dropped without abandon()
  cast,       \* history: a `revoked` was heard since a socket was last opened
  signing,    \* handshakes awaiting a signature, for the current socket's hello or an older one
  grew,       \* backoff > 0
  retry,      \* reconnectTimer: ticks left
  deadline,   \* connectTimer, armed for the current socket
  keepalive,
  spec,       \* watchdogSpec
  specStored, \* ... and its copy in the storage
  watch,      \* watchdogTimer: ticks left
  hold,       \* expectedSilenceUntil: ticks left
  missing,    \* serviceMissing
  probes,     \* the application answers isOnline()
  probing,    \* calls of onSilence() awaiting it
  stirred,    \* history: those during which the hub was heard, or the client left
  spurious,   \* history: the alarm was raised by one of these
  silent      \* history: ticks since a frame was heard, or since a client that had left came back
linkVars == <<wanted, status, stored, creds, code, rejected, opening, sock, live, orphans, cast, signing>>
timerVars == <<grew, retry, deadline, keepalive>>
contract == <<spec, specStored, probes, probing>>
watchVars == <<contract, watch, hold, missing, stirred, spurious, silent>>
clientVars == <<linkVars, timerVars, watchVars>>

Off == -1
\* The current socket: dialled; open and hello said; the frame of the handshake written,
\* with the right nonce or a stale one; the hub's answer to a pairing under way; a session;
\* refused by the hub; closing.
Phases == {"none", "dialled", "hello", "asked", "stale", "enrolled", "session", "refused", "closing"}

ClientInit ==
  /\ wanted = TRUE /\ status = "idle" /\ stored = FALSE /\ creds = FALSE /\ code = "none"
  /\ rejected = FALSE /\ opening = {} /\ sock = "none" /\ live = 0 /\ orphans = 0 /\ cast = FALSE /\ signing = {}
  /\ grew = FALSE /\ retry = Off /\ deadline = FALSE /\ keepalive = FALSE
  /\ spec = FALSE /\ specStored = FALSE /\ watch = Off /\ hold = 0 /\ missing = FALSE
  /\ probes \in BOOLEAN /\ probing = 0 /\ stirred = 0 /\ spurious = FALSE /\ silent = 0

-----------------------------------------------------------------------------
\* armWatchdog, which a client that has left declines
Watching(s, w) == IF s /\ w THEN Deadline ELSE Off

\* What a socket given up leaves of the signatures asked for its hello
Aged == {[x EXCEPT !.fresh = FALSE] : x \in signing}

\* open()
Opens_Twice ==
  /\ retry' = Off /\ keepalive' = FALSE /\ rejected' = FALSE
  /\ status' = IF grew THEN "reconnecting" ELSE "connecting"
  /\ sock' = "dialled" /\ deadline' = TRUE /\ cast' = FALSE
  /\ live' = live + 1
  /\ signing' = Aged
Opens ==
  /\ retry' = Off /\ keepalive' = FALSE /\ rejected' = FALSE
  /\ status' = IF grew THEN "reconnecting" ELSE "connecting"
  /\ sock' = "dialled" /\ deadline' = TRUE /\ cast' = FALSE
  /\ live' = live - (IF sock = "none" THEN 0 ELSE 1) + 1
  /\ signing' = Aged

\* reconnectNow(), which a client that has left declines
ReconnectsNow == wanted /\ Opens /\ grew' = FALSE

\* scheduleReconnect(), after what onclose and the connect deadline have in common
GivesUp(at) == (at = "unpaired") \/ rejected \/ ~AutoReconnect
Retries(at) ==
  IF GivesUp(at)
    THEN /\ status' = IF at = "unpaired" \/ rejected THEN at ELSE "idle"
         /\ UNCHANGED <<grew, retry>>
    ELSE /\ status' = "reconnecting" /\ grew' = TRUE
         /\ retry' \in 0..Backoff

\* what ends the silence an alarm, raised or about to be, would tell of
Stirs == missing' = FALSE /\ spurious' = FALSE /\ stirred' = probing

\* noteHeardFrom()
Heard(s) ==
  /\ Stirs /\ hold' = 0 /\ silent' = 0
  /\ watch' = Watching(s, wanted)

-----------------------------------------------------------------------------
(* What the application asks for *)

\* connect(), up to its await
Connect ==
  /\ "load" \notin opening
  /\ wanted' = TRUE /\ opening' = opening \cup {"load"}
  /\ silent' = IF wanted \/ missing \/ watch # Off \/ probing > 0 THEN silent ELSE 0
  /\ UNCHANGED <<status, stored, creds, code, rejected, sock, live, orphans, cast, signing, timerVars,
                 contract, watch, hold, missing, stirred, spurious>>
Loaded ==
  /\ "load" \in opening /\ opening' = opening \ {"load"}
  /\ creds' = (creds \/ stored) /\ spec' = (spec \/ (stored /\ specStored))
  /\ Opens
  /\ UNCHANGED <<wanted, stored, code, orphans, grew, specStored, probes, probing, watch, hold, missing,
                 stirred, spurious, silent>>

\* pair(), of a client made for it: without credentials
Pair ==
  /\ ~stored /\ ~creds
  /\ wanted' = TRUE /\ code' = "fresh" /\ opening' = opening \cup {"keys"}
  /\ silent' = IF wanted \/ missing \/ watch # Off \/ probing > 0 THEN silent ELSE 0
  /\ UNCHANGED <<status, stored, creds, rejected, sock, live, orphans, cast, signing, timerVars,
                 contract, watch, hold, missing, stirred, spurious>>
KeysMade ==
  /\ "keys" \in opening /\ opening' = opening \ {"keys"}
  /\ Opens
  /\ UNCHANGED <<wanted, stored, creds, code, orphans, grew, watchVars>>

Disconnect ==
  /\ wanted' = FALSE /\ status' = "idle"
  /\ sock' = "none" /\ live' = live - (IF sock = "none" THEN 0 ELSE 1) /\ signing' = Aged
  /\ retry' = Off /\ deadline' = FALSE /\ keepalive' = FALSE
  /\ watch' = Off /\ Stirs
  /\ UNCHANGED <<stored, creds, code, rejected, opening, orphans, cast, grew, contract, hold, silent>>

\* resume(), when the application comes back to life; with a session that is not silent it
\* only asks for what was missed
Resume ==
  /\ status \notin {"unpaired", "revoked", "connecting", "pairing"}
  /\ status = "ready" => silent > 0
  /\ ReconnectsNow
  /\ UNCHANGED <<wanted, stored, creds, code, opening, orphans, watchVars>>

\* The application is closed or killed; the storage stays.
Restart ==
  /\ wanted' = TRUE /\ status' = "idle" /\ creds' = FALSE /\ code' = "none" /\ rejected' = FALSE
  /\ opening' = {} /\ sock' = "none" /\ live' = 0 /\ orphans' = 0 /\ cast' = FALSE /\ signing' = {}
  /\ grew' = FALSE /\ retry' = Off /\ deadline' = FALSE /\ keepalive' = FALSE
  /\ spec' = FALSE /\ watch' = Off /\ hold' = 0 /\ missing' = FALSE /\ probing' = 0 /\ stirred' = 0
  /\ spurious' = FALSE /\ silent' = 0
  /\ UNCHANGED <<stored, specStored, probes>>

-----------------------------------------------------------------------------
(* The socket *)

\* onclose, after an onerror or without one, which changes the status first; for the
\* current socket and whatever became of it
SocketCloses(error) ==
  LET at == IF error THEN "error" ELSE status IN
  /\ sock # "none" /\ sock' = "none" /\ live' = live - 1
  /\ keepalive' = FALSE /\ signing' = Aged
  /\ IF ~wanted \/ at = "revoked"
       THEN status' = at /\ UNCHANGED <<grew, retry, watch>>
       ELSE watch' = Watching(spec, wanted) /\ Retries(at)
  /\ UNCHANGED <<wanted, stored, creds, code, rejected, opening, orphans, cast, deadline,
                 contract, hold, missing, stirred, spurious, silent>>

\* the socket of a wrong hub, whose onclose finds that it is not the current one and leaves
\* everything alone; its onerror does not look
StrayCloses(error) ==
  /\ orphans > 0 /\ orphans' = orphans - 1 /\ live' = live - 1
  /\ status' = IF error THEN "error" ELSE status
  /\ UNCHANGED <<wanted, stored, creds, code, rejected, opening, sock, cast, signing, timerVars, watchVars>>

\* the connect deadline; it does nothing for a socket that is gone, and a pairing is not retried
DeadlineFires ==
  /\ deadline /\ deadline' = FALSE
  /\ IF sock = "none" \/ ~wanted \/ status = "ready"
       THEN UNCHANGED <<status, code, sock, live, signing, keepalive, grew, retry>>
       ELSE /\ sock' = "none" /\ live' = live - 1 /\ signing' = Aged /\ keepalive' = FALSE
            /\ IF status = "pairing"
                 THEN status' = "error" /\ code' = "none" /\ UNCHANGED <<grew, retry>>
                 ELSE Retries(status) /\ UNCHANGED code
  /\ UNCHANGED <<wanted, stored, creds, rejected, opening, orphans, cast, watchVars>>

ReconnectFires ==
  /\ retry = 0
  /\ Opens
  /\ UNCHANGED <<wanted, stored, creds, code, opening, orphans, grew, watchVars>>

\* nothing came back for several rounds
KeepaliveFires ==
  /\ keepalive /\ silent > 0
  /\ ReconnectsNow
  /\ UNCHANGED <<wanted, stored, creds, code, opening, orphans, watchVars>>

-----------------------------------------------------------------------------
(* The handshake *)

\* hello, up to the await of handshake(): a pending code is paired with, credentials are
\* authenticated with, and with neither the socket is closed
Hello ==
  /\ sock = "dialled"
  /\ Heard(spec)
  /\ IF code = "none" /\ ~creds
       THEN status' = "unpaired" /\ sock' = "closing" /\ UNCHANGED signing
       ELSE /\ sock' = "hello" /\ UNCHANGED status
            /\ signing' = signing \cup {[pair |-> code # "none", fresh |-> TRUE]}
  /\ UNCHANGED <<wanted, stored, creds, code, rejected, opening, live, orphans, cast, timerVars, contract>>

\* A hub that is not the one this device was paired with: its socket is told to close and
\* dropped, but not abandoned as disconnect() and open() do, so what is queued on it, or still
\* comes, is received like anything else.  No timer is cleared, nor the watch just armed.
WrongHub ==
  /\ sock = "dialled" /\ creds /\ orphans < StrayLimit
  /\ wanted' = FALSE /\ status' = "error" /\ sock' = "none" /\ orphans' = orphans + 1 /\ signing' = Aged
  /\ Heard(spec)
  /\ UNCHANGED <<stored, creds, code, rejected, opening, live, cast, timerVars, contract>>

\* The signature is there, and is written to whatever socket there is by now; one that is
\* still dialling throws, and nothing is sent.  Signatures come in the order they were
\* asked for.
Signed(x) ==
  /\ x \in signing /\ signing' = signing \ {x}
  /\ x.fresh => \A y \in signing : y.fresh
  /\ status' = IF x.pair THEN "pairing" ELSE status
  /\ sock' = IF sock \notin {"hello", "asked"} THEN sock
             ELSE IF x.fresh /\ sock = "hello" THEN "asked"
             ELSE IF ~x.fresh /\ sock = "hello" THEN "stale" ELSE sock
  /\ UNCHANGED <<wanted, stored, creds, code, rejected, opening, live, orphans, cast, timerVars, watchVars>>

\* The hub takes the code; its answer is on the way and may be lost.
HubEnrols ==
  /\ sock = "asked" /\ code = "fresh"
  /\ sock' = "enrolled" /\ code' = "spent"
  /\ UNCHANGED <<wanted, status, stored, creds, rejected, opening, live, orphans, cast, signing, timerVars,
                 watchVars>>

\* A frame is received from the current socket, if it has come that far, or from a stray one,
\* whose hub may say anything but a second hello, nor enrols whoever did not ask.
Receives(at) == sock \in at \/ orphans > 0

\* the frame `ready`
GetsReady ==
  /\ status' = "ready"
  /\ deadline' = FALSE /\ grew' = FALSE /\ keepalive' = TRUE
  /\ Heard(spec)

\* `paired`, whose credentials are stored, and `ready`
Enrolled ==
  /\ sock = "enrolled" /\ sock' = "session" /\ GetsReady
  /\ stored' = TRUE /\ creds' = TRUE /\ code' = "none"
  /\ UNCHANGED <<wanted, rejected, opening, live, orphans, cast, signing, retry, contract>>
Authenticated ==
  /\ \/ sock = "asked" /\ code = "none" /\ sock' = "session"
     \/ orphans > 0 /\ sock' = sock
  /\ GetsReady
  /\ UNCHANGED <<wanted, stored, creds, code, rejected, opening, live, orphans, cast, signing, retry, contract>>

\* The hub refuses: a code it does not take, a device it revoked, or a nonce that is not
\* this connection's; and closes.
Refused ==
  /\ \/ sock \in {"asked", "stale"} /\ sock' = "refused"
     \/ orphans > 0 /\ sock' = sock
  /\ Heard(spec)
  /\ rejected' = TRUE /\ code' = "none" /\ status' = "error"
  /\ UNCHANGED <<wanted, stored, creds, opening, live, orphans, cast, signing, timerVars, contract>>

-----------------------------------------------------------------------------
(* A session *)

\* an alert, a beat, a pong
Frame ==
  /\ Receives({"session"}) /\ <<silent, hold, missing, stirred>> # <<0, 0, FALSE, probing>>
  /\ Heard(spec)
  /\ UNCHANGED <<linkVars, timerVars, contract>>
WatchdogSpec ==
  /\ Receives({"session"}) /\ ~spec
  /\ spec' = TRUE /\ specStored' = TRUE
  /\ Heard(TRUE)
  /\ UNCHANGED <<linkVars, timerVars, probes, probing>>
Bye ==
  /\ Receives({"session"}) /\ spec
  /\ Stirs /\ silent' = 0 /\ watch' = Off /\ hold' = Farewell
  /\ UNCHANGED <<linkVars, timerVars, contract>>
Revoked ==
  /\ \/ sock = "session" /\ status = "ready" /\ sock' = "closing"
     \/ orphans > 0 /\ sock' = sock
  /\ status' = "revoked" /\ cast' = TRUE
  /\ spec' = FALSE /\ specStored' = FALSE /\ watch' = Off /\ Stirs
  /\ hold' = 0 /\ silent' = 0
  /\ UNCHANGED <<wanted, stored, creds, code, rejected, opening, live, orphans, signing, timerVars,
                 probes, probing>>

\* onSilence(), up to the await of isOnline() if the application has one; the timer may run out
\* again while the answer is awaited
Asks(goes) == probing' = IF probes /\ goes THEN probing + 1 ELSE probing
Silence_Hasty ==
  /\ watch = 0 /\ probing < ProbeLimit
  /\ watch' = Off
  /\ missing' = (missing \/ ~probes) /\ Asks(~missing)
  /\ UNCHANGED <<linkVars, timerVars, spec, specStored, probes, hold, stirred, spurious, silent>>
Silence ==
  /\ watch = 0 /\ probing < ProbeLimit
  /\ LET held == hold > 0 /\ ~missing IN
     /\ watch' = IF held THEN Watching(spec, wanted) ELSE Off
     /\ missing' = (missing \/ (~held /\ ~probes))
     /\ Asks(~held /\ ~missing)
  /\ UNCHANGED <<linkVars, timerVars, spec, specStored, probes, hold, stirred, spurious, silent>>
\* ... and after it, whatever happened meanwhile: a device without a network says nothing and
\* looks again, any other raises the alarm
Probed(online, late) ==
  /\ probing > 0 /\ probing' = probing - 1
  /\ IF late THEN stirred > 0 /\ stirred' = stirred - 1 ELSE stirred < probing /\ UNCHANGED stirred
  /\ missing' = (missing \/ online)
  /\ spurious' = (spurious \/ (online /\ late /\ ~missing))
  /\ watch' = IF online THEN watch ELSE Watching(spec, wanted)
  /\ UNCHANGED <<linkVars, timerVars, spec, specStored, probes, hold, silent>>

\* Time passes once the timers that are due have fired.
Less(t) == IF t > 0 THEN t - 1 ELSE t
ClientTick ==
  /\ watch # 0 /\ retry # 0
  /\ watch' = Less(watch) /\ retry' = Less(retry) /\ hold' = Less(hold)
  /\ silent' = IF silent < Patience THEN silent + 1 ELSE silent
  /\ UNCHANGED <<linkVars, grew, deadline, keepalive, contract, missing, stirred, spurious>>

ClientNext ==
  \/ Connect \/ Loaded \/ Pair \/ KeysMade \/ Disconnect \/ Resume \/ Restart
  \/ DeadlineFires \/ ReconnectFires \/ KeepaliveFires
  \/ Hello \/ WrongHub \/ HubEnrols \/ Enrolled \/ Authenticated \/ Refused
  \/ Frame \/ WatchdogSpec \/ Bye \/ Revoked \/ Silence \/ ClientTick
  \/ \E b \in BOOLEAN : SocketCloses(b) \/ StrayCloses(b)
  \/ \E b, l \in BOOLEAN : Probed(b, l)
  \/ \E x \in signing : Signed(x)

ClientSpec == ClientInit /\ [][ClientNext]_clientVars

-----------------------------------------------------------------------------
ClientTypeOK ==
  /\ {wanted, stored, creds, rejected, grew, deadline, keepalive, spec, specStored, missing, probes, cast, spurious} \subseteq BOOLEAN
  /\ status \in {"idle", "connecting", "reconnecting", "pairing", "ready", "unpaired", "revoked", "error"}
  /\ code \in {"none", "fresh", "spent"} /\ opening \subseteq {"load", "keys"}
  /\ sock \in Phases /\ live \in Nat /\ orphans \in 0..StrayLimit
  /\ probing \in 0..ProbeLimit /\ stirred \in 0..probing
  /\ signing \subseteq [pair : BOOLEAN, fresh : BOOLEAN]
  /\ retry \in Off..Backoff /\ watch \in Off..Deadline /\ hold \in 0..Farewell /\ silent \in 0..Patience

\* A client that should be connected always has a way back: a reconnect that is due, a socket
\* that the deadline will replace, or the keepalive, which replaces whatever there is; and it
\* never holds two sockets, "each acknowledging the same alerts", nor leaves handlers on any but
\* those of a wrong hub (open, onclose, armConnectDeadline, startKeepalive, resume).  Two of the
\* code's answers leave the next step to the application: a `revoked` (cast), and a refusal
\* (rejected).  Both are excused whoever said it, and so cover what should not happen: a stale
\* signature, written to a socket of its successor, is refused and latches `rejected`
\* ("no more reconnects until the UI intervenes", client.ts:344), and the socket of a wrong hub
\* still has its handlers, so its `revoked` or its refusal counts, which line 531 means to
\* prevent.  So does a client that was told not to reconnect.
WayBack ==
  /\ live = orphans + (IF sock = "none" THEN 0 ELSE 1)
  /\ wanted /\ opening = {} /\ (creds \/ code # "none") /\ ~rejected =>
       \/ retry # Off \/ keepalive
       \/ sock # "none" /\ deadline
       \/ sock = "none" /\ (cast \/ ~AutoReconnect)

\* The alarm tells of a silence that lasted the whole deadline, whatever closed, reconnected
\* or restarted meanwhile; and of none that a `bye` announced (armWatchdog, onSilence).  That
\* is all the code does while nothing comes between the question isOnline() and its answer.
\* Nobody looks again after the answer, so an alarm raised on one during which a frame or a
\* `bye` came, or the application left, may be untrue (spurious): raised at a hub just heard.
AlarmIsTrue == missing /\ ~spurious => silent >= Deadline /\ hold = 0

\* "A closed socket is a strong hint, but not proof ... Let the same deadline decide"
\* (client.ts:416): once the hub has been silent for the whole deadline, nothing but a frame
\* starts a running watch again.
DeadlineDecides ==
  [][watch > 0 /\ silent >= Deadline /\ hold = 0 /\ silent' = silent => watch' <= watch]_clientVars
=============================================================================
