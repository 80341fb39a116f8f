------------------------------- MODULE Remote -------------------------------
(* A program that publishes through a hub elsewhere (core/src/remote.ts):    *)
(* one cached attempt to connect that every send awaits, the attempts that   *)
(* disconnect() leaves behind, and the calls to the hub over a client        *)
(* (protocol/src/client.ts), of which only what an attempt or a call can     *)
(* notice is here.                                                           *)
EXTENDS Naturals

CONSTANTS
  Attempts,     \* calls of establish() that may be known of at once
  NoAttempt,
  Senders,      \* callers of notify(), call(), checkIn() and the like
  KeepsTrying   \* autoReconnect

ASSUME RemoteConstants == NoAttempt \notin Attempts /\ KeepsTrying \in BOOLEAN

VARIABLES
  ready,     \* the promise connect() returns again
  attempt,   \* where each establish() is, and how the promise of its listeners settled
  coded,     \* a pairing code was supplied
  enrolled,  \* the storage holds credentials
  meant,     \* the client's ~closedByUs
  channel,   \* its socket: none, none for good, opening, up, or waiting to be opened again
  sender     \* what each caller is waiting for
remoteVars == <<ready, attempt, coded, enrolled, meant, channel, sender>>

Unoccupied == [at |-> "idle", of |-> NoAttempt]
Rest == [at |-> "over", heard |-> "nothing"]

RemoteInit ==
  /\ ready = NoAttempt /\ attempt = [n \in Attempts |-> Rest]
  /\ coded \in BOOLEAN /\ enrolled = FALSE
  /\ meant = TRUE /\ channel = "none" /\ sender = [s \in Senders |-> Unoccupied]

InFlight == {n \in Attempts : attempt[n].at \in {"asking", "opening", "waiting"}}
\* Nobody holds the promise any more.
Unknown == {n \in Attempts \ InFlight : n # ready /\ \A s \in Senders : sender[s].of # n}

-----------------------------------------------------------------------------
\* The listeners of every establish() under way hear the client, each once.
Hear(what) ==
  attempt' = [n \in Attempts |->
    IF n \in InFlight /\ attempt[n].heard = "nothing" THEN [attempt[n] EXCEPT !.heard = what]
    ELSE attempt[n]]

\* failPendingAdmin()
Failed == [s \in Senders |-> IF sender[s].at \in {"asked", "unheard"} THEN Unoccupied ELSE sender[s]]
\* open() and the connect deadline abandon a socket, and leave the calls on it to their timeout.
Unheard == [s \in Senders |->
  IF sender[s].at = "asked" THEN [sender[s] EXCEPT !.at = "unheard"] ELSE sender[s]]

\* connect(): the attempt under way or the one that succeeded; else establish(), which asks
\* whether to pair, or connects the client at once.
Establish(n) ==
  /\ attempt' = [attempt EXCEPT ![n] =
       [at |-> IF coded THEN "asking" ELSE "opening", heard |-> "nothing"]]
  /\ meant' = (meant \/ ~coded)
RemoteConnect(n) ==
  IF ready # NoAttempt THEN n = ready /\ UNCHANGED <<ready, attempt, meant>>
  ELSE n \in Unknown /\ Establish(n) /\ ready' = n

\* Every operation of the notifier awaits connect(), as do keepAlive()'s check-ins ...
Send(s) ==
  /\ sender[s] = Unoccupied
  /\ \E n \in Attempts :
       RemoteConnect(n) /\ sender' = [sender EXCEPT ![s] = [at |-> "awaits", of |-> n]]
  /\ UNCHANGED <<coded, enrolled, channel>>
\* ... and then calls the hub, over whatever socket there is by now.
Admin(s) ==
  /\ sender[s].at = "awaits" /\ sender[s].of \notin InFlight
  /\ sender' = [sender EXCEPT ![s] =
       IF attempt[sender[s].of].heard = "failure" THEN Unoccupied
       ELSE [at |-> IF channel = "up" THEN "asked" ELSE "unheard", of |-> NoAttempt]]
  /\ UNCHANGED <<ready, attempt, coded, enrolled, meant, channel>>
AdminResult(s) ==
  /\ sender[s].at = "asked" /\ channel = "up" /\ sender' = [sender EXCEPT ![s] = Unoccupied]
  /\ UNCHANGED <<ready, attempt, coded, enrolled, meant, channel>>
AdminTimesOut(s) ==
  /\ sender[s].at \in {"asked", "unheard"} /\ sender' = [sender EXCEPT ![s] = Unoccupied]
  /\ UNCHANGED <<ready, attempt, coded, enrolled, meant, channel>>

-----------------------------------------------------------------------------
\* A failed attempt is not cached - nor is one that has taken its place meanwhile.
Uncached_Never == ready
Uncached == NoAttempt
Fails(n) ==
  /\ attempt' = [attempt EXCEPT ![n] = [at |-> "over", heard |-> "failure"]]
  /\ ready' = Uncached

\* isPaired() answered: pair() or connect(), each with an await of its own before it opens
PairedAnswered(n) ==
  /\ attempt[n].at = "asking" /\ attempt' = [attempt EXCEPT ![n].at = "opening"] /\ meant' = TRUE
  /\ UNCHANGED <<ready, coded, enrolled, channel, sender>>
StorageFails(n) ==
  /\ attempt[n].at \in {"asking", "opening"} /\ Fails(n)
  /\ UNCHANGED <<coded, enrolled, meant, channel, sender>>
Opened(n) ==
  /\ attempt[n].at = "opening" /\ attempt' = [attempt EXCEPT ![n].at = "waiting"]
  /\ channel' = "opening" /\ sender' = Unheard
  /\ UNCHANGED <<ready, coded, enrolled, meant>>
Settled(n) ==
  /\ attempt[n].at = "waiting" /\ attempt[n].heard # "nothing"
  /\ IF attempt[n].heard = "failure" THEN Fails(n)
     ELSE attempt' = [attempt EXCEPT ![n].at = "over"] /\ UNCHANGED ready
  /\ UNCHANGED <<coded, enrolled, meant, channel, sender>>
ConnectTimesOut(n) ==
  /\ n \in InFlight /\ attempt[n].heard = "nothing"
  /\ attempt' = [attempt EXCEPT ![n].heard = "failure"]
  /\ UNCHANGED <<ready, coded, enrolled, meant, channel, sender>>

\* disconnect(): an attempt under way is not told.
RemoteDisconnect ==
  /\ ready' = NoAttempt /\ meant' = FALSE /\ channel' = "none" /\ sender' = Failed
  /\ UNCHANGED <<attempt, coded, enrolled>>

-----------------------------------------------------------------------------
(* The client, as its events and its socket show it *)

ClientReady ==
  /\ channel = "opening" /\ (coded \/ enrolled)
  /\ channel' = "up" /\ enrolled' = TRUE /\ Hear("ready")
  /\ UNCHANGED <<ready, coded, meant, sender>>
\* An error that is not final: the hub's, or the client's own.
ClientError ==
  /\ channel \in {"opening", "up"} /\ Hear("failure")
  /\ UNCHANGED <<ready, coded, enrolled, meant, channel, sender>>
\* Unpaired, refused, or a pairing the hub did not answer: the client stops trying.
ClientRefused ==
  /\ channel = "opening" /\ channel' = "refused" /\ Hear("failure") /\ sender' \in {Failed, Unheard}
  /\ UNCHANGED <<ready, coded, enrolled, meant>>
ClientRevoked ==
  /\ channel = "up" /\ channel' = "refused" /\ sender' = Failed
  /\ UNCHANGED <<ready, attempt, coded, enrolled, meant>>
SocketLost ==
  /\ channel \in {"opening", "up"} /\ sender' \in {Failed, Unheard}
  /\ channel' = IF meant /\ KeepsTrying THEN "retrying" ELSE "none"
  /\ UNCHANGED <<ready, attempt, coded, enrolled, meant>>
\* The reconnect timer, or a keepalive that finds the socket dead
Reopened ==
  /\ channel = "retrying" \/ (channel = "up" /\ meant)
  /\ channel' = "opening" /\ sender' = Unheard
  /\ UNCHANGED <<ready, attempt, coded, enrolled, meant>>

RemoteNext ==
  \/ \E s \in Senders : Send(s) \/ Admin(s) \/ AdminResult(s) \/ AdminTimesOut(s)
  \/ \E n \in Attempts :
       \/ PairedAnswered(n) \/ StorageFails(n) \/ Opened(n) \/ Settled(n) \/ ConnectTimesOut(n)
  \/ RemoteDisconnect \/ ClientReady \/ ClientError \/ ClientRefused \/ ClientRevoked
  \/ SocketLost \/ Reopened

RemoteSpec == RemoteInit /\ [][RemoteNext]_remoteVars

-----------------------------------------------------------------------------
\* What connect() hands out again is never worthless: the attempt is under way, or it succeeded
\* and the client it connected is still meant to be connected - up, or on its way back, unless
\* the hub has refused it or it was told not to reconnect.  "A failed attempt must not be cached"
\* (remote.ts:81), however timeouts, errors, lost sockets and disconnect() mix with attempts
\* that nobody waits for any more.
ConnectIsUsable ==
  ready \notin InFlight \cup {NoAttempt} =>
    /\ attempt[ready].heard = "ready" /\ meant
    /\ channel \in {"opening", "up", "retrying", "refused"} \/ ~KeepsTrying
=============================================================================
