--------------------------- MODULE DeliveryProps ---------------------------
(* What the delivery of alerts promises, stated over Delivery.              *)
EXTENDS Delivery

DownFrame == [t : {"notification", "resolve", "ready"}, as : SUBSET Alerts,
              over : BOOLEAN, nap : Nat]
UpFrame == [t : {"ack", "sync", "snooze"}, n : Nat, act : BOOLEAN]

\* Types, and the two relations every handler relies on: a cursor is a sequence
\* number the hub issued (handleAck's clamp), and only published alerts nag.
TypeOK ==
  /\ log \in Seq(Kinds) /\ LastSeq <= MaxAlerts
  /\ expired \subseteq Published /\ resolved \subseteq Published
  /\ taken \in [Alerts -> Devices \cup {NoDevice}]
  /\ fired \in [Alerts -> Nat] /\ forgotten \in [Alerts -> Nat]
  /\ filed \in [resolved : SUBSET Published, taken : [Alerts -> Devices \cup {NoDevice}]]
  /\ waiters \subseteq Published /\ Cardinality(waiters) <= MaxWaiters
  /\ attempts \in [Alerts -> 0..MaxRetries]
  /\ cursor \in [Devices -> 0..LastSeq]
  /\ snoozed \in [Devices -> 0..Limit["nap"]]
  /\ held \in [Devices -> 0..LastSeq]
  /\ sock \in [Clients -> {"open", "lost", "closed"}]
  /\ snap \in [Clients -> 0..Limit["nap"]]
  /\ down \in [Clients -> Seq(DownFrame)]
  /\ up \in [Clients -> Seq(UpFrame)]
  /\ mine \in [Clients -> 0..LastSeq]
  /\ feed \in [Clients -> SUBSET Published]
  /\ cleared \in [Clients -> SUBSET Published]
  /\ nap \in [Clients -> 0..Limit["nap"]]
  /\ overnaps \subseteq 1..Limit["nap"]
  /\ fan \in [alert : 0..LastSeq, todo : SUBSET ReadySessions]
  /\ used \in [Events -> Nat]
  /\ cut \in [Devices -> SUBSET Published]
  /\ withheld \in [Devices -> SUBSET Published]
  /\ omitted \in [Devices -> SUBSET Published]
  /\ acked \subseteq Published

\* The device shows the alert, or a frame carrying it is on its way there.
Shows(d, a) == \E k \in Clients : Owner[k] = d /\ a \in feed[k]
OnItsWay(d, a) ==
  \E k \in Clients : /\ Owner[k] = d
                     /\ \E i \in DOMAIN down[k] : /\ down[k][i].t = "notification"
                                                  /\ a \in down[k][i].as
\* What no client can be owed: expired, dropped from history, or announced as
\* "older notifications not shown".
Excused(d, a) == a \in expired \/ a \notin Retained \/ a \in omitted[d]
StillHeld(d, a) == held[d] # 0 /\ held[d] <= a

\* A device's cursor never moves past an alert the device has not been shown:
\* the hub replays only from the cursor (server.ts replay), so what is behind it
\* unseen is lost.  Whatever drops, retries, restarts and syncs did in between.
NothingPassedOver ==
  \A d \in Devices, a \in Published :
    CouldSee(d, a) /\ a <= cursor[d] =>
      Shows(d, a) \/ OnItsWay(d, a) \/ Excused(d, a) \/ StillHeld(d, a)

\* What deliver() held back for a snooze is noted until a sync hands it over, and from then
\* on it is on its way or shown (server.ts markSnoozeHeld, handleSync).  The one way out is a
\* socket that goes with the hand-over still on it: the note is gone by then.
HeldWithinReach ==
  \A d \in Devices : \A a \in withheld[d] :
    StillHeld(d, a) \/ OnItsWay(d, a) \/ Shows(d, a) \/ Excused(d, a) \/ a \in cut[d]

\* "A snooze holds alerts rather than dropping them" (server.ts:2413): an alert that deliver()
\* held back is noted, on its way or shown, or ahead of the cursor, where a replay finds it.
SnoozeDropsNothing ==
  \A d \in Devices : \A a \in withheld[d] :
    StillHeld(d, a) \/ OnItsWay(d, a) \/ Shows(d, a) \/ Excused(d, a) \/ a > cursor[d]

\* One acknowledgement settles the alert, and so does its resolution: no timer
\* goes on re-sending it (server.ts handleAck, resolve, scheduleAckRetry).
SettledStopsNagging == waiters \cap (acked \cup resolved) = {}

\* Two people pressing the same button is one action, across tabs and restarts (server.ts
\* takeAction): it is available again only to a new process that found no record of it,
\* because the write failed or never happened, and then once.
ActsOnce == \A a \in Alerts : fired[a] <= 1 + forgotten[a]

\* An alert is shown by every device it is for, through drops and restarts.
Owed(d, a) == a \in Published /\ CouldSee(d, a)
EveryAlertArrives ==
  \A d \in Devices, a \in Alerts : Owed(d, a) ~> (Shows(d, a) \/ Excused(d, a))

\* Re-delivery ends by acknowledgement, resolution, ttl or the attempt ceiling.
EveryNagEnds == \A a \in Alerts : a \in waiters ~> a \notin waiters

\* What a snooze held back is asked for once the snooze is over, even if the
\* socket was gone when it ended.
EveryHoldIsLifted == \A d \in Devices : held[d] # 0 ~> held[d] = 0
=============================================================================
