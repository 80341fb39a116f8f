------------------------------ MODULE Delivery ------------------------------
(***************************************************************************)
(* How an alert reaches the devices it is for: the delivery half of         *)
(* packages/core/src/server.ts (notify, deliver, replay, ack, sync, snooze, *)
(* resolve and the acknowledgement retries), with the clients of            *)
(* packages/protocol/src/client.ts and the page of packages/web/src/app.ts  *)
(* at the other end of sockets that close at any moment.                    *)
(*                                                                          *)
(* A device may hold several sessions (two tabs, an app and its service);   *)
(* each session works from its own snapshot of the device record.           *)
(*                                                                          *)
(* An alert's number is its sequence number.  Frames are records in one     *)
(* queue per direction and client.  Every handler runs to completion; the   *)
(* loop of deliver() is the one exception, spelled out session by session   *)
(* because its outcome depends on the order of the sessions, and nothing    *)
(* else moves until it is over.                                             *)
(*                                                                          *)
(* Operators named X_Fault are faults of X the properties must reveal.      *)
(***************************************************************************)
EXTENDS Naturals, Sequences, FiniteSets

CONSTANTS
  Devices,       \* paired devices
  Clients,       \* client instances: a tab, an app, a service
  Owner,         \* the device each client is paired as
  MayAck,        \* devices whose role carries notify.ack
  MayAct,        \* ... and notify.act
  NoDevice,
  Kinds,         \* the alerts an application publishes
  MaxAlerts,     \* bound on the alerts published
  HistoryLimit,  \* alerts the store retains
  ReplayLimit,   \* alerts one replay hands over
  MaxWaiters,    \* MAX_ACK_WAITERS
  MaxRetries,    \* MAX_ACK_RETRIES
  SyncsOnReady,  \* whether the client asks for missed alerts when ready
  EarlySnoozes,  \* whether people snooze before the client has heard `ready`
  Limit          \* bound on what people, networks and operators do

Kind == [to : SUBSET Devices, critical : BOOLEAN, nag : BOOLEAN,
         ttl : BOOLEAN, act : BOOLEAN]
Events == {"drop", "restart", "sync", "nap", "press", "resolve"}

ASSUME ConstantsAssumption ==
  /\ Owner \in [Clients -> Devices]
  /\ MayAck \subseteq Devices
  /\ MayAct \subseteq Devices
  /\ NoDevice \notin Devices
  /\ Kinds \subseteq Kind
  /\ MaxAlerts \in Nat
  /\ HistoryLimit \in Nat \ {0}
  /\ ReplayLimit \in Nat
  /\ MaxWaiters \in Nat
  /\ MaxRetries \in Nat
  /\ SyncsOnReady \in BOOLEAN
  /\ EarlySnoozes \in BOOLEAN
  /\ Limit \in [Events -> Nat]

VARIABLES
  log,         \* every alert published, in order of sequence number
  expired,     \* alerts past their ttl
  resolved,    \* alerts with a resolvedAt
  taken,       \* the device whose press of an action counted
  fired,       \* 'action' events the application was given, per alert
  filed,       \* the marks `resolved` and `taken` as the history file has them
  waiters,     \* alerts the hub re-sends until acknowledged
  attempts,    \* re-sends so far
  cursor,      \* ackedSeq of each device record
  snoozed,     \* snoozedUntil of each device record: the nap, 0 for none
  held,        \* snoozeHeldFrom of each device record, 0 for undefined
  sock,        \* the session of each client: open, lost (half-open), closed
  snap,        \* snoozedUntil as this session's snapshot has it
  down, up,    \* frames on the wire, hub to client and back
  mine,        \* the client's ackedSeq
  feed,        \* alerts on the client's screen
  cleared,     \* alerts the screen shows as resolved
  nap,         \* the nap the client's catch-up timer waits for
  overnaps,    \* naps that have run out
  fan,         \* deliver(): the alert and the sessions still to visit
  used,        \* events so far, bounded by Limit
  omitted,     \* history: alerts a replay announced as "not shown"
  withheld,    \* history: alerts deliver() held back for a snooze
  cut,         \* history: ... and that were on the wire when a socket went
  forgotten,   \* history: restarts that lost the record of an alert's action
  acked        \* history: alerts an entitled device acknowledged

alertVars   == <<log, expired, resolved>>
actionVars  == <<taken, fired, filed, forgotten>>
nagVars     == <<waiters, attempts>>
deviceVars  == <<cursor, snoozed, held>>
sessionVars == <<sock, snap>>
wireVars    == <<down, up>>
screenVars  == <<mine, feed, cleared>>
napVars     == <<nap, overnaps>>
noteVars    == <<omitted, withheld, cut>>
vars == <<alertVars, actionVars, nagVars, deviceVars, sessionVars, wireVars,
          screenVars, napVars, fan, used, noteVars, acked>>

(***************************************************************************)
(* Vocabulary.                                                              *)
(***************************************************************************)
Alerts == 1..MaxAlerts
LastSeq == Len(log)
Published == 1..LastSeq
NoFan == [alert |-> 0, todo |-> {}]
Quiet == fan = NoFan

Spend(e) == /\ used[e] < Limit[e]
            /\ used' = [used EXCEPT ![e] = @ + 1]

ReadySessions == {k \in Clients : sock[k] # "closed"}
SessionsOf(d) == {k \in ReadySessions : Owner[k] = d}

\* Frames.  A nap of 0 is "no snooze".
Note(a) == [t |-> "notification", as |-> {a}, over |-> a \in resolved, nap |-> 0]
Resolution(as) == [t |-> "resolve", as |-> as, over |-> TRUE, nap |-> 0]
Ready(n) == [t |-> "ready", as |-> {}, over |-> FALSE, nap |-> n]
Ack(a, act) == [t |-> "ack", n |-> a, act |-> act]
SyncFrom(n) == [t |-> "sync", n |-> n, act |-> FALSE]
SnoozeFor(n) == [t |-> "snooze", n |-> n, act |-> FALSE]

\* What a session or a client writes reaches the wire only if it is there.
Sent(k, frames) == IF sock[k] = "open" THEN down[k] \o frames ELSE down[k]
Said(k, frames) == IF sock[k] = "open" THEN up[k] \o frames ELSE up[k]

\* The alerts in the queue to a client, lost with its socket.
Carried(k) == UNION {down[k][i].as : i \in {j \in DOMAIN down[k] : down[k][j].t = "notification"}}
CutOff(d, ks) == cut[d] \cup (withheld[d] \cap UNION {Carried(k) : k \in ks})

\* Alerts the store still holds, and the order they are replayed in.
Retained == {a \in Published : a + HistoryLimit > LastSeq}
InOrder(as) == [i \in 1..Cardinality(as) |->
                  CHOOSE a \in as : Cardinality({b \in as : b < a}) = i - 1]

(***************************************************************************)
(* Who may be shown what: canDeliver(), snoozeHolds(), allowed().           *)
(***************************************************************************)
Snoozing(n) == n # 0 /\ n \notin overnaps
CouldSee(d, a) == d \in log[a].to
SnoozeHolds(n, a) == Snoozing(n) /\ ~log[a].critical

Allowed(d, n, a) == CouldSee(d, a) /\ ~SnoozeHolds(n, a)

\* updateDevice() followed by a refresh of every session of the device.
Refreshed(d) == [k \in Clients |-> IF k \in SessionsOf(d) THEN snoozed[d] ELSE snap[k]]

(***************************************************************************)
(* replay(): the most recent ReplayLimit of what the session may see.       *)
(***************************************************************************)
Eligible_OffByOne(d, n, since) ==
  {a \in Retained \ expired : a > since + 1 /\ Allowed(d, n, a)}
Eligible(d, n, since) == {a \in Retained \ expired : a > since /\ Allowed(d, n, a)}

Shown(as) == {a \in as : Cardinality({b \in as : b > a}) < ReplayLimit}

Replayed(as) == LET s == InOrder(Shown(as)) IN [i \in DOMAIN s |-> Note(s[i])]

\* Of the alerts `as`, the most recent are handed to d, the excess announced.
NoteReplay(d, as) ==
  /\ omitted' = [omitted EXCEPT ![d] = @ \cup (as \ Shown(as))]
  /\ UNCHANGED <<withheld, cut>>

\* touchHistory(): the marks of the alerts are filed in one rewrite, which may fail, or
\* never happen because the process dies or a listener throws first.
MarksOf(r, t) == [resolved |-> r, taken |-> t]
Marks == MarksOf(resolved, taken)
TouchHistory(r, t) == filed' \in {filed, MarksOf(r, t)}

Init ==
  /\ log = <<>> /\ expired = {} /\ resolved = {}
  /\ taken = [a \in Alerts |-> NoDevice]
  /\ fired = [a \in Alerts |-> 0]
  /\ filed = Marks
  /\ waiters = {}
  /\ attempts = [a \in Alerts |-> 0]
  /\ cursor = [d \in Devices |-> 0]
  /\ snoozed = [d \in Devices |-> 0]
  /\ held = [d \in Devices |-> 0]
  /\ sock = [k \in Clients |-> "open"]
  /\ snap = [k \in Clients |-> 0]
  /\ down = [k \in Clients |-> <<>>]
  /\ up = [k \in Clients |-> <<>>]
  /\ mine = [k \in Clients |-> 0]
  /\ feed = [k \in Clients |-> {}]
  /\ cleared = [k \in Clients |-> {}]
  /\ nap = [k \in Clients |-> 0]
  /\ overnaps = {}
  /\ fan = NoFan
  /\ used = [e \in Events |-> 0]
  /\ withheld = [d \in Devices |-> {}]
  /\ omitted = [d \in Devices |-> {}]
  /\ cut = [d \in Devices |-> {}]
  /\ forgotten = [a \in Alerts |-> 0]
  /\ acked = {}

(***************************************************************************)
(* notify() and scheduleAckRetry(): store, start delivering, arm the nag.   *)
(***************************************************************************)
StartDeliver(a) ==
  fan' = IF ReadySessions = {} THEN NoFan ELSE [alert |-> a, todo |-> ReadySessions]

Waiting(a) == IF Cardinality(waiters) < MaxWaiters THEN waiters \cup {a} ELSE waiters

Publish ==
  /\ Quiet
  /\ LastSeq < MaxAlerts
  /\ \E kind \in Kinds :
       /\ log' = Append(log, kind)
       /\ waiters' = IF kind.nag THEN Waiting(LastSeq + 1) ELSE waiters
  /\ StartDeliver(LastSeq + 1)
  /\ UNCHANGED <<expired, resolved, actionVars, attempts, deviceVars, sessionVars,
                 wireVars, screenVars, napVars, used, noteVars, acked>>

(***************************************************************************)
(* One turn of deliver()'s loop: send it, or remember what a snooze held.   *)
(***************************************************************************)
VisitNext(k) ==
  LET rest == fan.todo \ {k} IN fan' = IF rest = {} THEN NoFan ELSE [fan EXCEPT !.todo = rest]

Hold_Latest(d, a) == /\ held' = [held EXCEPT ![d] = a]
                     /\ snap' = Refreshed(d)
Hold(d, a) ==
  \/ /\ held[d] = 0 \/ a < held[d]
     /\ held' = [held EXCEPT ![d] = a]
     /\ snap' = Refreshed(d)
  \/ /\ held[d] # 0 /\ a >= held[d]
     /\ UNCHANGED <<held, snap>>

DeliverSend(k) ==
  LET a == fan.alert  d == Owner[k] IN
  /\ Allowed(d, snap[k], a)
  /\ down' = [down EXCEPT ![k] = Sent(k, <<Note(a)>>)]
  /\ UNCHANGED <<held, snap, withheld>>

DeliverHold(k) ==
  LET a == fan.alert  d == Owner[k] IN
  /\ ~Allowed(d, snap[k], a)
  /\ SnoozeHolds(snap[k], a) /\ CouldSee(d, a)
  /\ Hold(d, a)
  /\ withheld' = [withheld EXCEPT ![d] = @ \cup {a}]
  /\ UNCHANGED down

DeliverSkip(k) ==
  /\ ~CouldSee(Owner[k], fan.alert)
  /\ UNCHANGED <<held, snap, down, withheld>>

Deliver(k) ==
  /\ k \in fan.todo
  /\ VisitNext(k)
  /\ DeliverSend(k) \/ DeliverHold(k) \/ DeliverSkip(k)
  /\ UNCHANGED <<alertVars, actionVars, nagVars, cursor, snoozed, sock, up,
                 screenVars, napVars, used, omitted, cut, acked>>

(***************************************************************************)
(* The retry timer of an alert: give up, or deliver it again and re-arm.    *)
(***************************************************************************)
Counted_Never(a) == attempts
Counted(a) == [attempts EXCEPT ![a] = @ + 1]

GiveUp(a) == a \in expired \/ attempts[a] + 1 > MaxRetries

Retry(a) ==
  /\ Quiet
  /\ a \in waiters
  /\ \/ /\ GiveUp(a)
        /\ waiters' = waiters \ {a}
        /\ UNCHANGED <<attempts, fan>>
     \/ /\ ~GiveUp(a)
        /\ attempts' = Counted(a)
        /\ StartDeliver(a)
        /\ UNCHANGED waiters
  /\ UNCHANGED <<alertVars, actionVars, deviceVars, sessionVars, wireVars,
                 screenVars, napVars, used, noteVars, acked>>

Expire(a) ==
  /\ Quiet
  /\ a \in Published \ expired /\ log[a].ttl
  /\ expired' = expired \cup {a}
  /\ UNCHANGED <<log, resolved, actionVars, nagVars, deviceVars, sessionVars, wireVars,
                 screenVars, napVars, fan, used, noteVars, acked>>

(***************************************************************************)
(* resolve(): mark the alert, tell whoever may see it, stop nagging.        *)
(***************************************************************************)
StopNag_Forgets(a) == UNCHANGED waiters
StopNag(a) == waiters' = waiters \ {a}

Resolve(a) ==
  /\ Quiet
  /\ a \in Retained \ resolved
  /\ Spend("resolve")
  /\ resolved' = resolved \cup {a}
  /\ down' = [k \in Clients |->
                IF k \in ReadySessions /\ Allowed(Owner[k], snap[k], a)
                THEN Sent(k, <<Resolution({a})>>) ELSE down[k]]
  /\ TouchHistory(resolved', taken)
  /\ StopNag(a)
  /\ UNCHANGED <<log, expired, taken, fired, forgotten, attempts, deviceVars, sessionVars, up,
                 screenVars, napVars, fan, noteVars, acked>>

(***************************************************************************)
(* handleAck(): settle the nag, take the action, move the cursor.           *)
(***************************************************************************)
Hears(k, type) == /\ Quiet
                  /\ sock[k] = "open"
                  /\ up[k] # <<>>
                  /\ Head(up[k]).t = type
                  /\ up' = [up EXCEPT ![k] = Tail(@)]

\* touchDevice(): at most every DEVICE_TOUCH_MS, a frame or a pong refreshes the
\* snapshots of all the device's sessions; the handler then works from those.
Touched(k) == {snap, Refreshed(Owner[k])}

Entitled(k, s, a) == a \in Retained /\ Allowed(Owner[k], s[k], a)

Takes_Again(k, m) == m.act /\ Owner[k] \in MayAct /\ log[m.n].act
Takes(k, m) == m.act /\ Owner[k] \in MayAct /\ log[m.n].act /\ taken[m.n] = NoDevice

AckAlert(k, s, m) ==
  \/ /\ Entitled(k, s, m.n)
     /\ waiters' = waiters \ {m.n}
     /\ acked' = acked \cup {m.n}
     /\ \/ /\ Takes(k, m)
           /\ taken' = [taken EXCEPT ![m.n] = Owner[k]]
           /\ fired' = [fired EXCEPT ![m.n] = @ + 1]
           /\ TouchHistory(resolved, taken') /\ UNCHANGED forgotten
        \/ ~Takes(k, m) /\ UNCHANGED actionVars
  \/ ~Entitled(k, s, m.n) /\ UNCHANGED <<waiters, acked, actionVars>>

MoveCursor(k, s, seq) ==
  LET d == Owner[k] IN
  \/ /\ seq > cursor[d]
     /\ cursor' = [cursor EXCEPT ![d] = IF seq < LastSeq THEN seq ELSE LastSeq]
     /\ snap' = [s EXCEPT ![k] = snoozed[d]]
  \/ seq <= cursor[d] /\ snap' = s /\ UNCHANGED cursor

HandleAck(k) ==
  LET m == Head(up[k]) IN
  /\ Hears(k, "ack")
  /\ \E s \in Touched(k) :
       \/ Owner[k] \in MayAck /\ AckAlert(k, s, m) /\ MoveCursor(k, s, m.n)
       \/ /\ Owner[k] \notin MayAck
          /\ snap' = s
          /\ UNCHANGED <<waiters, acked, actionVars, cursor>>
  /\ UNCHANGED <<alertVars, attempts, snoozed, held, sock, down, screenVars, napVars,
                 fan, used, noteVars>>

(***************************************************************************)
(* handleSync(): hand over what a snooze held, once none is running.        *)
(***************************************************************************)
HandsOver_Never(k, s) == FALSE
HandsOver(k, s) == held[Owner[k]] # 0 /\ ~Snoozing(s[k])

Earliest(since, d) == IF held[d] - 1 < since THEN held[d] - 1 ELSE since

SendReplay(k, as) == /\ down' = [down EXCEPT ![k] = Sent(k, Replayed(as))]
                     /\ NoteReplay(Owner[k], as)

HandleSync(k) ==
  LET d == Owner[k]  m == Head(up[k]) IN
  /\ Hears(k, "sync")
  /\ \E s \in Touched(k) :
       \/ /\ HandsOver(k, s)
          /\ held' = [held EXCEPT ![d] = 0]
          /\ snap' = Refreshed(d)
          /\ SendReplay(k, Eligible(d, snoozed[d], Earliest(m.n, d)))
       \/ /\ ~HandsOver(k, s)
          /\ snap' = s
          /\ SendReplay(k, Eligible(d, s[k], m.n))
          /\ UNCHANGED held
  /\ UNCHANGED <<alertVars, actionVars, nagVars, cursor, snoozed, sock, screenVars,
                 napVars, fan, used, acked>>

(***************************************************************************)
(* handleSnooze(): the device record and this session's own snapshot.       *)
(***************************************************************************)
HandleSnooze(k) ==
  LET d == Owner[k]  n == Head(up[k]).n IN
  /\ Hears(k, "snooze")
  /\ snoozed' = [snoozed EXCEPT ![d] = IF Snoozing(n) THEN n ELSE 0]
  /\ \E s \in Touched(k) : snap' = [s EXCEPT ![k] = snoozed'[d]]
  /\ UNCHANGED <<alertVars, actionVars, nagVars, cursor, held, sock, down, screenVars,
                 napVars, fan, used, noteVars, acked>>

\* A pong touches the device record as a frame does.
Pong(k) ==
  /\ Quiet
  /\ sock[k] = "open"
  /\ snap' = Refreshed(Owner[k])
  /\ UNCHANGED <<alertVars, actionVars, nagVars, deviceVars, sock, wireVars, screenVars,
                 napVars, fan, used, noteVars, acked>>

(***************************************************************************)
(* promote(): a fresh session from the stored record, and a replay from its *)
(* cursor.  The client reconnects whenever its socket is gone.              *)
(***************************************************************************)
ReplayFrom(k) == cursor[Owner[k]]

Connect(k) ==
  LET d == Owner[k]  missed == Eligible(d, snoozed[d], ReplayFrom(k)) IN
  /\ Quiet
  /\ sock[k] # "open"
  /\ sock' = [sock EXCEPT ![k] = "open"]
  /\ snap' = [snap EXCEPT ![k] = snoozed[d]]
  /\ up' = [up EXCEPT ![k] = <<>>]
  /\ down' = [down EXCEPT ![k] =
                <<Ready(IF Snoozing(snoozed[d]) THEN snoozed[d] ELSE 0)>> \o Replayed(missed)]
  /\ NoteReplay(d, missed)
  /\ UNCHANGED <<alertVars, actionVars, nagVars, deviceVars, screenVars, napVars, fan,
                 used, acked>>

(***************************************************************************)
(* Sockets: a half-open one swallows what either side writes until the hub  *)
(* closes it (closeSession) or the client gives it up.                      *)
(***************************************************************************)
Silence(k) == /\ down' = [down EXCEPT ![k] = <<>>]
              /\ up' = [up EXCEPT ![k] = <<>>]
              /\ cut' = [cut EXCEPT ![Owner[k]] = CutOff(Owner[k], {k})]

Lose(k) ==
  /\ Quiet
  /\ sock[k] = "open"
  /\ Spend("drop")
  /\ sock' = [sock EXCEPT ![k] = "lost"]
  /\ Silence(k)
  /\ UNCHANGED <<alertVars, actionVars, nagVars, deviceVars, snap, screenVars, napVars,
                 fan, omitted, withheld, acked>>

CloseSession(k) ==
  /\ Quiet
  /\ sock[k] = "lost"
  /\ sock' = [sock EXCEPT ![k] = "closed"]
  /\ UNCHANGED <<alertVars, actionVars, nagVars, deviceVars, snap, wireVars, screenVars,
                 napVars, fan, used, noteVars, acked>>

\* The log, grown to twice what is retained, is rewritten from memory.
Compact ==
  /\ Quiet
  /\ filed # Marks /\ filed' = Marks
  /\ UNCHANGED <<alertVars, taken, fired, forgotten, nagVars, deviceVars, sessionVars,
                 wireVars, screenVars, napVars, fan, used, noteVars, acked>>

\* stop() and start(), or a new process: every session and every retry timer goes; the
\* alerts keep the marks they have in memory, or those the file has.  (What else a process
\* that dies may lose of the store is the matter of Store.)
Forgets(a, marks) == taken[a] # NoDevice /\ marks.taken[a] = NoDevice

Restart(marks) ==
  /\ Quiet
  /\ Spend("restart")
  /\ sock' = [k \in Clients |-> "closed"]
  /\ down' = [k \in Clients |-> <<>>]
  /\ up' = [k \in Clients |-> <<>>]
  /\ cut' = [d \in Devices |-> CutOff(d, SessionsOf(d))]
  /\ waiters' = {}
  /\ resolved' = marks.resolved /\ taken' = marks.taken
  /\ forgotten' = [a \in Alerts |-> forgotten[a] + IF Forgets(a, marks) THEN 1 ELSE 0]
  /\ UNCHANGED <<log, expired, fired, filed, attempts, deviceVars, snap, screenVars,
                 napVars, fan, omitted, withheld, acked>>

\* A snooze runs out by itself: nothing but the clock changes.
NapEnds(n) ==
  /\ Quiet
  /\ n \in 1..used["nap"] \ overnaps
  /\ overnaps' = overnaps \cup {n}
  /\ UNCHANGED <<alertVars, actionVars, nagVars, deviceVars, sessionVars, wireVars,
                 screenVars, nap, fan, used, noteVars, acked>>

(***************************************************************************)
(* The client: show it once, acknowledge it always, catch up when asked.    *)
(***************************************************************************)
Gets(k, type) == /\ Quiet
                 /\ sock[k] = "open"
                 /\ down[k] # <<>>
                 /\ Head(down[k]).t = type
                 /\ down' = [down EXCEPT ![k] = Tail(@)]

Says(k, frames) == up' = [up EXCEPT ![k] = Said(k, frames)]

Advance(k, a) == mine' = [mine EXCEPT ![k] = IF a > @ THEN a ELSE @]

\* A repeat is acknowledged and otherwise ignored, resolvedAt included.
ReceiveNote(k) ==
  LET m == Head(down[k])  a == CHOOSE x \in m.as : TRUE IN
  /\ Gets(k, "notification")
  /\ Says(k, <<Ack(a, FALSE)>>)
  /\ Advance(k, a)
  /\ feed' = [feed EXCEPT ![k] = @ \cup {a}]
  /\ cleared' = [cleared EXCEPT ![k] =
                   IF m.over /\ a \notin feed[k] THEN @ \cup {a} ELSE @]
  /\ UNCHANGED <<alertVars, actionVars, nagVars, deviceVars, sessionVars, napVars, fan,
                 used, noteVars, acked>>

ReceiveResolve(k) ==
  /\ Gets(k, "resolve")
  /\ cleared' = [cleared EXCEPT ![k] = @ \cup (Head(down[k]).as \cap feed[k])]
  /\ UNCHANGED <<alertVars, actionVars, nagVars, deviceVars, sessionVars, up, mine, feed,
                 napVars, fan, used, noteVars, acked>>

ReceiveReady(k) ==
  /\ Gets(k, "ready")
  /\ nap' = [nap EXCEPT ![k] = Head(down[k]).nap]
  /\ Says(k, IF SyncsOnReady THEN <<SyncFrom(mine[k])>> ELSE <<>>)
  /\ UNCHANGED <<alertVars, actionVars, nagVars, deviceVars, sessionVars, screenVars,
                 overnaps, fan, used, noteVars, acked>>

\* resume(), or any other reason the application finds to ask.
Sync(k) ==
  /\ Quiet
  /\ sock[k] # "closed"
  /\ Spend("sync")
  /\ Says(k, <<SyncFrom(mine[k])>>)
  /\ UNCHANGED <<alertVars, actionVars, nagVars, deviceVars, sessionVars, down,
                 screenVars, napVars, fan, noteVars, acked>>

Snooze(k) ==
  /\ Quiet
  /\ sock[k] # "closed"
  /\ EarlySnoozes \/ \A i \in DOMAIN down[k] : down[k][i].t # "ready"
  /\ Spend("nap")
  /\ nap' = [nap EXCEPT ![k] = used["nap"] + 1]
  /\ Says(k, <<SnoozeFor(used["nap"] + 1)>>)
  /\ UNCHANGED <<alertVars, actionVars, nagVars, deviceVars, sessionVars, down,
                 screenVars, overnaps, fan, noteVars, acked>>

Unsnooze(k) ==
  /\ Quiet
  /\ sock[k] # "closed"
  /\ Snoozing(nap[k])
  /\ nap' = [nap EXCEPT ![k] = 0]
  /\ Says(k, <<SnoozeFor(0), SyncFrom(mine[k])>>)
  /\ UNCHANGED <<alertVars, actionVars, nagVars, deviceVars, sessionVars, down,
                 screenVars, overnaps, fan, used, noteVars, acked>>

\* The timer armed for the end of the snooze.
CatchUp(k) ==
  /\ Quiet
  /\ nap[k] \in overnaps
  /\ nap' = [nap EXCEPT ![k] = 0]
  /\ Says(k, <<SyncFrom(mine[k])>>)
  /\ UNCHANGED <<alertVars, actionVars, nagVars, deviceVars, sessionVars, down,
                 screenVars, overnaps, fan, used, noteVars, acked>>

\* Somebody presses a button of an alert on the screen.
Press(k, a) ==
  /\ Quiet
  /\ sock[k] # "closed"
  /\ a \in feed[k] /\ log[a].act
  /\ Spend("press")
  /\ Says(k, <<Ack(a, TRUE)>>)
  /\ Advance(k, a)
  /\ UNCHANGED <<alertVars, actionVars, nagVars, deviceVars, sessionVars, down, feed,
                 cleared, napVars, fan, noteVars, acked>>

(***************************************************************************)
(* The specification.                                                       *)
(***************************************************************************)
HubHears(k) == HandleAck(k) \/ HandleSync(k) \/ HandleSnooze(k)
ClientGets(k) == ReceiveNote(k) \/ ReceiveResolve(k) \/ ReceiveReady(k)

Next ==
  \/ Publish \/ Compact
  \/ \E marks \in {Marks, filed} : Restart(marks)
  \/ \E a \in Alerts : Retry(a) \/ Expire(a) \/ Resolve(a)
  \/ \E n \in 1..Limit["nap"] : NapEnds(n)
  \/ \E k \in Clients :
       \/ Deliver(k) \/ HubHears(k) \/ ClientGets(k)
       \/ Connect(k) \/ Lose(k) \/ CloseSession(k) \/ Pong(k)
       \/ Sync(k) \/ Snooze(k) \/ Unsnooze(k) \/ CatchUp(k)
       \/ \E a \in Alerts : Press(k, a)

Spec == Init /\ [][Next]_vars

\* Handlers finish, sockets that stay open carry their frames, timers fire,
\* clients reconnect.  Nothing is assumed of people, of networks or of ttls.
Fairness ==
  /\ \A k \in Clients : /\ WF_vars(Deliver(k))
                        /\ WF_vars(HubHears(k))
                        /\ WF_vars(ClientGets(k))
                        /\ WF_vars(Connect(k))
                        /\ WF_vars(CatchUp(k))
  /\ \A a \in Alerts : WF_vars(Retry(a))
  /\ \A n \in 1..Limit["nap"] : WF_vars(NapEnds(n))

FairSpec == Spec /\ Fairness
=============================================================================
