------------------------------ MODULE Watchdog ------------------------------
(* The dead-man's switch (core/src/watchdog.ts) and what the hub makes of    *)
(* it (server.ts): check-ins race a periodic sweep, a missed one publishes   *)
(* an alert through flood control, a recovery resolves it, and registrations *)
(* outlive stops and restarts.  Time passes in ticks; timers are not late.   *)
EXTENDS Flood

CONSTANTS
  Names,       \* heartbeats
  Missed,      \* the key a heartbeat's missed alerts have
  Recovered,   \* ... and its recoveries
  Repeating,   \* heartbeats declared with `repeat`
  Deadline,    \* every + grace
  SweepEvery   \* heartbeatTickMs

ASSUME WatchdogConstants ==
  /\ Missed \in [Names -> Keys] /\ Recovered \in [Names -> Keys]
  /\ \A b, c \in Names : Missed[b] # Recovered[c] /\ (Missed[b] = Missed[c] => b = c)
  /\ Repeating \subseteq Names
  /\ Deadline \in Nat \ {0} /\ SweepEvery \in Nat \ {0}

VARIABLES
  hub,      \* the hub is started
  beat,     \* per name: registered, missing, and the time since lastSeenAt
  sweeper,  \* time since the interval timer last fired, NoTimer without one
  todo,     \* heartbeats sweep() has still to look at; nothing else moves meanwhile
  watched,  \* history: how long the hub has been started, as far as that matters
  orphaned, \* history: heartbeats forgotten while their alarm was up
  quiet     \* history: alarms of the silence under way that a window held back: those it holds
            \* still, and those a summary has told of
historyVars == <<watched, orphaned, quiet>>
beatVars == <<hub, beat, sweeper, todo, historyVars>>
watchdogVars == <<floodVars, beatVars>>

NoTimer == -1
NoBeat == [there |-> FALSE, missing |-> FALSE, age |-> 0]
Registered == {b \in Names : beat[b].there}
NothingQuiet == [held |-> 0, said |-> 0]
\* what the summaries that went up in this step have told of
Told == [b \in Names |->
  IF window'[Missed[b]].open THEN quiet[b]
  ELSE [held |-> 0, said |-> IF tally'[Missed[b]].unkeyed > tally[Missed[b]].unkeyed
                             THEN quiet[b].said + quiet[b].held ELSE quiet[b].said]]
EnsureRunning == sweeper' = IF sweeper = NoTimer THEN 0 ELSE sweeper

WatchdogInit ==
  /\ FloodInit
  /\ hub = FALSE /\ beat = [b \in Names |-> NoBeat] /\ sweeper = NoTimer /\ todo = {} /\ watched = 0 /\ orphaned = {}
  /\ quiet = [b \in Names |-> NothingQuiet]

-----------------------------------------------------------------------------
\* expect(): the first registration counts as a check-in; a later one changes neither the
\* clock nor the alarm.
Expect(b) ==
  /\ todo = {} /\ ~beat[b].there
  /\ beat' = [beat EXCEPT ![b] = [there |-> TRUE, missing |-> FALSE, age |-> 0]]
  /\ EnsureRunning
  /\ UNCHANGED <<hub, todo, historyVars, floodVars>>

\* checkIn() and onHeartbeatRecovered()
CheckIn_Quietly(b) ==
  /\ todo = {} /\ beat[b].there
  /\ beat' = [beat EXCEPT ![b].age = 0, ![b].missing = FALSE]
  /\ UNCHANGED <<hub, sweeper, todo, historyVars, floodVars>>
CheckIn(b) ==
  /\ todo = {} /\ beat[b].there
  /\ beat' = [beat EXCEPT ![b].age = 0, ![b].missing = FALSE]
  /\ \/ ~beat[b].missing /\ UNCHANGED <<orphaned, quiet, floodVars>>
     \/ /\ beat[b].missing /\ MayPublish(Recovered[b])
        /\ window' = [window EXCEPT ![Recovered[b]] = Counted(Recovered[b])]
        /\ tally' = [tally EXCEPT ![Missed[b]] = Cleared(Missed[b]),
                                  ![Recovered[b]] = Published(Recovered[b])]
        /\ orphaned' = orphaned \ {b} /\ quiet' = [quiet EXCEPT ![b] = NothingQuiet]
  /\ UNCHANGED <<hub, sweeper, todo, watched>>

\* forget(), which leaves an alarm that is up to whoever clears it by hand
Forget(b) ==
  /\ todo = {} /\ beat[b].there
  /\ beat' = [beat EXCEPT ![b] = NoBeat]
  /\ sweeper' = IF Registered = {b} THEN NoTimer ELSE sweeper
  /\ orphaned' = IF beat[b].missing THEN orphaned \cup {b} ELSE orphaned
  /\ quiet' = [quiet EXCEPT ![b] = NothingQuiet]
  /\ UNCHANGED <<hub, todo, watched, floodVars>>

\* sweep(): the heartbeats that are overdue and not yet reported, or to be reported again
Due == {b \in Registered : beat[b].age >= Deadline /\ (beat[b].missing => b \in Repeating)}
Sweep ==
  /\ todo = {} /\ sweeper >= SweepEvery
  /\ sweeper' = 0 /\ todo' = Due
  /\ UNCHANGED <<hub, beat, historyVars, floodVars>>

\* a reminder sets the clock again; onHeartbeatMissed() publishes
Report(b) ==
  /\ b \in todo /\ todo' = todo \ {b} /\ Notify(Missed[b])
  /\ beat' = [beat EXCEPT ![b].missing = TRUE, ![b].age = IF beat[b].missing THEN 0 ELSE @]
  /\ quiet' = IF HeldBack(Missed[b]) THEN [quiet EXCEPT ![b].held = @ + 1] ELSE quiet
  /\ UNCHANGED <<hub, sweeper, watched, orphaned>>

-----------------------------------------------------------------------------
\* Hub stop and start, and a new process, which restores the registrations from the store.
StartHub_Unswept ==
  /\ ~hub /\ hub' = TRUE
  /\ UNCHANGED <<sweeper, beat, todo, historyVars, floodVars>>
StartHub ==
  /\ ~hub /\ hub' = TRUE
  /\ IF Registered = {} THEN UNCHANGED sweeper ELSE EnsureRunning
  /\ UNCHANGED <<beat, todo, historyVars, floodVars>>
StopHub ==
  /\ hub /\ todo = {} /\ hub' = FALSE /\ sweeper' = NoTimer /\ watched' = 0
  /\ FlushAll /\ quiet' = Told
  /\ UNCHANGED <<beat, todo, orphaned>>
NewProcess ==
  /\ ~hub /\ todo = {} /\ FlushAll /\ quiet' = Told
  /\ sweeper' = IF Registered = {} THEN NoTimer ELSE 0
  /\ UNCHANGED <<hub, beat, todo, watched, orphaned>>

\* Time passes once every timer that is due has fired; ages stop where nothing can tell.
Passed(b) == IF beat[b].there /\ beat[b].age < Deadline + SweepEvery
             THEN [beat[b] EXCEPT !.age = @ + 1] ELSE beat[b]
Tick ==
  /\ todo = {} /\ sweeper < SweepEvery /\ ~WindowsDue
  /\ beat' = [b \in Names |-> Passed(b)]
  /\ sweeper' = IF sweeper = NoTimer THEN NoTimer ELSE sweeper + 1
  /\ watched' = IF hub /\ watched <= SweepEvery THEN watched + 1 ELSE watched
  /\ window' = Aged
  /\ UNCHANGED <<hub, todo, orphaned, quiet, tally>>

FromApplication(k) ==
  /\ todo = {} /\ k \notin {Missed[b] : b \in Names} \cup {Recovered[b] : b \in Names}
  /\ Notify(k) \/ Resolve(k)
  /\ UNCHANGED beatVars
WindowEnds(k) ==
  /\ todo = {} /\ CloseWindow(k) /\ quiet' = Told
  /\ UNCHANGED <<hub, beat, sweeper, todo, watched, orphaned>>

WatchdogNext ==
  \/ StartHub \/ StopHub \/ NewProcess \/ Tick \/ Sweep
  \/ \E b \in Names : Expect(b) \/ CheckIn(b) \/ Forget(b) \/ Report(b)
  \/ \E k \in Keys : FromApplication(k) \/ WindowEnds(k)

WatchdogSpec == WatchdogInit /\ [][WatchdogNext]_watchdogVars

-----------------------------------------------------------------------------
WatchdogTypeOK ==
  /\ FloodTypeOK
  /\ hub \in BOOLEAN /\ todo \subseteq Names
  /\ beat \in [Names -> [there : BOOLEAN, missing : BOOLEAN, age : 0..Deadline + SweepEvery]]
  /\ sweeper \in NoTimer..SweepEvery /\ watched \in 0..SweepEvery + 1
  /\ orphaned \subseteq Names /\ quiet \in [Names -> [held : Nat, said : Nat]]

\* Silence is noticed: once the hub has been started for a sweep, no heartbeat is unreported
\* for longer than its deadline and one sweep since it was last heard, through stops, starts
\* and restarts ("went on listing its heartbeats while no longer sweeping them",
\* watchdog.ts:152).
SilenceIsNoticed ==
  watched > SweepEvery /\ todo = {} /\ sweeper < SweepEvery =>
    \A b \in Registered : beat[b].age >= Deadline + SweepEvery => beat[b].missing

\* The alarm is true of the silence under way, and the recovery ends it.  While a heartbeat is
\* missing, an alarm raised since it fell silent is on screens under its key, or is still
\* counted by a window, or is told of by a summary that went up since; an alarm of an earlier
\* silence does not count.  Once it is back, nothing is up that its key would have cleared
\* (onHeartbeatRecovered), and no more stands, or is still to come, than flood control ever
\* held back.  That remainder is real: a summary has no resolveKey (releaseSummary), so a
\* 'No check-in' summary stays up, or comes up, after the recovery, which "clears it from
\* every screen" (server.ts:366) only when it went out as itself.  An alarm that was up when
\* its heartbeat was forgotten is no longer the heartbeat's.
AlarmMatches ==
  \A b \in Registered \ orphaned :
    LET t == tally[Missed[b]]  w == window[Missed[b]]  q == quiet[b] IN
    IF beat[b].missing
    THEN t.open + q.held + q.said > 0 /\ q.held <= w.held
    ELSE t.open = 0 /\ t.unkeyed + w.held <= t.published - t.sent
=============================================================================
