----------------------------- MODULE PhoneWatch -----------------------------
(* Keeping the phone listening.  JavaScript decides whether it should        *)
(* (hub.ts: applyWatching), a foreground service keeps the process and a     *)
(* headless task keeps its timers, an alarm every nine minutes and the end   *)
(* of a restart bring both back, and a notice says so when Android refuses.  *)
EXTENDS Naturals, Sequences

CONSTANT CommandLimit       \* a bound: intents for the service that wait at once
ASSUME PhoneWatchAssumption == CommandLimit \in Nat

VARIABLES
  isWanted, noticeFlag,     \* WatchState, which outlives everything
  kept,                     \* the settings and sources as stored: do they ask for watching?
  alarm, notice,            \* armed or not; none, shown, or seen and swiped away
  commands,                 \* the intents Android has for the service
  service, ending,          \* in the foreground, and asked to stop itself
  receiver,                 \* a broadcast past its question whether watching is wanted
  booting,                  \* BOOT_COMPLETED is still to come
  js, front,                \* JavaScript: off, loading or loaded; the application is open
  should, watching, task,   \* hub.ts: shouldWatch, what it last asked for, a headless task open
  denied                    \* JavaScript's last request was refused by Android
choiceVars == <<isWanted, noticeFlag, notice>>
androidVars == <<alarm, commands, service, ending, receiver, booting>>
hubVars == <<kept, js, front, should, watching, task, denied>>
phoneWatchVars == <<choiceVars, androidVars, hubVars>>

PhoneWatchInit ==
  /\ isWanted = FALSE /\ noticeFlag = FALSE /\ notice = "none" /\ kept = TRUE
  /\ alarm = FALSE /\ commands = <<>> /\ service = FALSE /\ ending = FALSE
  /\ receiver = "none" /\ booting = FALSE
  /\ js = "off" /\ front = FALSE /\ should = FALSE /\ watching = FALSE /\ task = FALSE /\ denied = FALSE

\* WatchAlarm.schedule(): one shot
Schedules_Not == UNCHANGED alarm
Schedules == alarm' = TRUE

\* WatchState, and the notice
SetsWanted(w) == isWanted' = w
CancelsResume == notice' = "none"
ShowsResume == notice' = "shown"
RemembersNotice(shown) == noticeFlag' = shown
\* NotifyjsWatchService.start() records the choice and takes the notice down before it asks.
Starts(allowed) ==
  /\ SetsWanted(TRUE)
  /\ commands' = IF allowed THEN Append(commands, "start") ELSE commands
\* Android always lets an open application, or one with the service, start it.
MayRefuse == ~front /\ ~service
\* stop(): the intent is refused only where there is no service to stop.
Stops ==
  /\ SetsWanted(FALSE) /\ CancelsResume /\ UNCHANGED noticeFlag
  /\ commands' \in {Append(commands, "stop")} \cup (IF MayRefuse /\ commands = <<>> THEN {commands} ELSE {})

\* releaseWatchers(): the headless tasks end
ReleasesWatchers(s) == task' = (task /\ s)
\* applyWatching(), once the settings and sources ask for s
Applies(s) ==
  /\ should' = s /\ watching' = s /\ ReleasesWatchers(s)
  /\ \/ s = watching /\ UNCHANGED <<choiceVars, commands, denied>>
     \/ /\ s /\ ~watching
        /\ \E allowed \in {TRUE, ~MayRefuse} : Starts(allowed) /\ denied' = ~allowed
        /\ CancelsResume /\ RemembersNotice(FALSE)
     \/ ~s /\ watching /\ Stops /\ denied' = FALSE

\* NotifyjsWatchTask: the runtime is loaded where there is none ...
LoadsRuntime == js' = IF js = "off" THEN "loading" ELSE js
\* ... and whileWatching() ends a task at once where loaded settings do not ask for it.
WhileWatching == task' = (js = "loaded" => should)
OpenApp ==
  /\ ~front /\ front' = TRUE /\ LoadsRuntime
  /\ UNCHANGED <<choiceVars, androidVars, kept, should, watching, task, denied>>
LeaveApp ==
  /\ front /\ front' = FALSE
  /\ UNCHANGED <<choiceVars, androidVars, kept, js, should, watching, task, denied>>
\* begin(); one that fails is tried again when something next calls start().
PrefsLoaded ==
  /\ js = "loading" /\ js' = "loaded" /\ Len(commands) < CommandLimit
  /\ Applies(kept)
  /\ UNCHANGED <<alarm, service, ending, receiver, booting, kept, front>>
\* storing a setting may fail
Persists(s) == kept' \in {kept, s}
\* a setting or a source changed
SettingChanges ==
  /\ js = "loaded" /\ front /\ Len(commands) < CommandLimit
  /\ Persists(~should) /\ Applies(~should)
  /\ UNCHANGED <<alarm, service, ending, receiver, booting, js, front>>

-----------------------------------------------------------------------------
(* The service *)

CancelsAlarm == alarm' = FALSE
\* onStartCommand: the alarm is armed on every start, and a headless task opened that ends
\* at once only where the settings are loaded and do not ask for watching.
Commanded ==
  /\ commands # <<>> /\ commands' = Tail(commands)
  /\ IF Head(commands) = "stop"
       THEN CancelsAlarm /\ service' = FALSE /\ ending' = TRUE /\ UNCHANGED <<js, task>>
       ELSE /\ service' = TRUE /\ Schedules /\ UNCHANGED ending
            /\ LoadsRuntime /\ WhileWatching
  /\ UNCHANGED <<choiceVars, receiver, booting, kept, front, should, watching, denied>>
\* stopSelf() took effect, whatever was started since; or Android ended the service
Destroyed ==
  /\ service \/ ending
  /\ service' = FALSE /\ ending' = FALSE
  /\ UNCHANGED <<choiceVars, alarm, commands, receiver, booting, hubVars>>

-----------------------------------------------------------------------------
(* The alarm and the restart: a receiver asks whether watching is wanted, and *)
(* acts while JavaScript may be changing its mind.                            *)

AsksWanted(which) == receiver' = IF isWanted THEN which ELSE "none"
AlarmFires ==
  /\ alarm /\ receiver = "none"
  /\ alarm' = FALSE /\ AsksWanted("alarm")
  /\ UNCHANGED <<choiceVars, commands, service, ending, booting, hubVars>>
BootCompleted ==
  /\ booting /\ receiver = "none"
  /\ booting' = FALSE /\ AsksWanted("boot")
  /\ UNCHANGED <<choiceVars, alarm, commands, service, ending, hubVars>>
\* With JavaScript there it is woken; otherwise the service is started, or the notice shown,
\* whatever it showed before: start() has forgotten that.
Recovers ==
  /\ Len(commands) < CommandLimit
  /\ \E allowed \in {TRUE, ~MayRefuse} :
       /\ Starts(allowed)
       /\ IF allowed THEN CancelsResume ELSE ShowsResume
       /\ RemembersNotice(~allowed)
       /\ denied' = (denied /\ ~allowed)
  /\ UNCHANGED <<kept, js, front, should, watching, task>>
\* WatchEvents: heard by a JavaScript that is there, which reconnects
HasListener == js # "off"
WakesJs == UNCHANGED <<choiceVars, commands, hubVars>>
AlarmActs ==
  /\ receiver = "alarm" /\ receiver' = "none" /\ Schedules
  /\ IF HasListener THEN WakesJs ELSE Recovers
  /\ UNCHANGED <<service, ending, booting>>
BootActs ==
  /\ receiver = "boot" /\ receiver' = "none" /\ Recovers
  /\ UNCHANGED <<alarm, service, ending, booting>>

NoticeSwiped ==
  /\ notice = "shown" /\ notice' = "seen"
  /\ UNCHANGED <<isWanted, noticeFlag, androidVars, hubVars>>

-----------------------------------------------------------------------------
(* JavaScript ends, the process is reclaimed, the phone restarts *)

JsGone ==
  /\ js' = "off" /\ front' = FALSE /\ should' = FALSE /\ watching' = FALSE
  /\ task' = FALSE /\ UNCHANGED kept
RuntimeEnds ==
  /\ js # "off" /\ ~front /\ JsGone
  /\ UNCHANGED <<choiceVars, androidVars, denied>>
\* Android may start a sticky service again, with no intent.
Killed ==
  /\ (js # "off" \/ service) /\ receiver = "none" /\ Len(commands) < CommandLimit
  /\ JsGone /\ service' = FALSE /\ ending' = FALSE
  /\ commands' \in {commands} \cup (IF service /\ ~ending THEN {Append(commands, "start")} ELSE {})
  /\ UNCHANGED <<choiceVars, alarm, receiver, booting, denied>>
Reboot ==
  /\ ~booting /\ booting' = TRUE
  /\ JsGone /\ service' = FALSE /\ ending' = FALSE /\ receiver' = "none"
  /\ commands' = <<>> /\ alarm' = FALSE /\ notice' = "none" /\ denied' = FALSE
  /\ UNCHANGED <<isWanted, noticeFlag>>

PhoneWatchNext ==
  \/ OpenApp \/ LeaveApp \/ PrefsLoaded \/ SettingChanges \/ Commanded \/ Destroyed
  \/ AlarmFires \/ BootCompleted \/ AlarmActs \/ BootActs \/ NoticeSwiped
  \/ RuntimeEnds \/ Killed \/ Reboot
PhoneWatchSpec == PhoneWatchInit /\ [][PhoneWatchNext]_phoneWatchVars

(* A phone that is to watch goes on watching, or says that it does not       *)
(* (WatchAlarm: "the one thing it must never do is stop"): an alarm, a       *)
(* start, a restart under way or the notice stands for every reclaimed       *)
(* process and stopped service, and while JavaScript should watch, a task    *)
(* keeps its timers running.                                                 *)
WatchGoesOn ==
  ~denied =>
    /\ isWanted => \/ alarm \/ booting \/ receiver # "none" \/ notice # "none"
                 \/ \E n \in DOMAIN commands : commands[n] = "start"
    /\ js = "loaded" /\ should => task \/ \E n \in DOMAIN commands : commands[n] = "start"
=============================================================================
