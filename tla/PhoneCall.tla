----------------------------- MODULE PhoneCall -----------------------------
(* A call on the phone.  JavaScript (hub.ts, App.tsx, CallScreen.tsx) keeps  *)
(* the call on screen and talks to the hubs; Kotlin posts the notification,  *)
(* rings, queues the taps on it and speaks, and goes on without JavaScript.  *)
(* Whichever of them a person uses, in whatever order with the frames of the *)
(* hubs, lost connections and the end of the process, a refusal reaches the  *)
(* hub, and the phone rings only for a call somebody can still answer.       *)
EXTENDS Naturals, Sequences

CONSTANTS
  Calls, NoCall,
  Hubs, Placer,      \* the hubs this phone watches, and the one that places each call
  TapLimit           \* how many taps the native queue holds

ASSUME PhoneCallAssumption ==
  NoCall \notin Calls /\ Placer \in [Calls -> Hubs] /\ TapLimit \in Nat \ {0}

VARIABLES
  rung,        \* what its hub makes of this phone, of each call
  inbox,       \* the frames a hub has sent and the phone has not handled
  process,     \* dead, native (a broadcast started it), or running JavaScript
  ready,       \* the hubs with a session
  notes, ringing,          \* the notifications shown, and the call the ringer is at
  taps, launch,            \* what was tapped on them, and the Answer that opened the application
  declines,    \* refusals no hub could take yet: of each, the hubs told
  active, answered,        \* the call on screen, and the one answered
  screen,      \* the CallScreen React shows, and whether its call was answered there
  asked, speaking, settled,   \* speech to start, going on, and over with its promise unread
  refused      \* the calls declined here
nativeVars == <<notes, ringing, taps, launch>>
speechVars == <<asked, speaking, settled>>
screenVars == <<active, answered, screen>>
phoneCallVars == <<rung, inbox, process, ready, nativeVars, declines, screenVars, speechVars, refused>>

Tap(action, c) == [action |-> action, call |-> c]
Frames(f, c) == [frame |-> f, call |-> c]
Tapped(action) == {taps[n].call : n \in {m \in DOMAIN taps : taps[m].action = action}}
NoScreen == [call |-> NoCall, started |-> FALSE]

PhoneCallInit ==
  /\ rung = [c \in Calls |-> "no"] /\ inbox = [h \in Hubs |-> <<>>]
  /\ process = "js" /\ ready = Hubs
  /\ notes = {} /\ ringing = NoCall /\ taps = <<>> /\ launch = NoCall
  /\ declines = [c \in {} |-> {}]
  /\ active = NoCall /\ answered = NoCall /\ screen = NoScreen
  /\ asked = {} /\ speaking = NoCall /\ settled = {} /\ refused = {}

-----------------------------------------------------------------------------
(* What several handlers share *)

\* CallRinger.start(): in place of any other ring
Rings(c) == ringing' = c
\* The notification, which carries the two taps and opens the application
Posts(c) == notes' = notes \cup {c}
ShowsIncomingCall(c) == Posts(c) /\ Rings(c)
\* CallRinger.stop(id): only that call's ring
StopsRinging(c) == ringing' = IF ringing = c THEN NoCall ELSE ringing
DismissCall(c) == StopsRinging(c) /\ notes' = notes \ {c}

\* CallSpeaker.stop(): the promise of whatever was speaking settles
StopsSpeaking == speaking' = NoCall /\ settled' = settled \cup ({speaking} \ {NoCall})

\* The hub hears that calls are declined, or that one has ended.
Declined(cs) == [c \in Calls |-> IF c \in cs /\ rung[c] = "ringing" THEN "over" ELSE rung[c]]
EndedAt(c) == [rung EXCEPT ![c] = IF @ = "answered" /\ Placer[c] \in ready THEN "over" ELSE @]

\* flushDeclines(), for refusals ds, with these hubs ready: a refusal is forgotten once
\* every hub has heard it.
Flush_AnyHub(ds, up) ==
  [c \in {d \in DOMAIN ds : ds[d] \cup up = {}} |-> ds[c] \cup up]
Flush(ds, up) ==
  [c \in {d \in DOMAIN ds : ~(Hubs \subseteq ds[d] \cup up)} |-> ds[c] \cup up]
HeardBy(ds, up) == {c \in DOMAIN ds : Placer[c] \in up}
\* declineCall() of a client without a session is dropped: the refusal is lost, not held.
Told == {c \in Calls : Placer[c] \in ready}

-----------------------------------------------------------------------------
(* The hubs, and the connections to them *)

HubRings(c) ==
  /\ rung[c] = "no" /\ Placer[c] \in ready
  /\ rung' = [rung EXCEPT ![c] = "ringing"]
  /\ inbox' = [inbox EXCEPT ![Placer[c]] = Append(@, Frames("call", c))]
  /\ UNCHANGED <<process, ready, nativeVars, declines, screenVars, speechVars, refused>>
HubCancels(c) ==
  /\ rung[c] = "ringing" /\ rung' = [rung EXCEPT ![c] = "over"]
  /\ inbox' = [inbox EXCEPT ![Placer[c]] = IF Placer[c] \in ready THEN Append(@, Frames("cancel", c)) ELSE @]
  /\ UNCHANGED <<process, ready, nativeVars, declines, screenVars, speechVars, refused>>
\* It takes a connection that closed for a refusal; one that went silent only later.
HubNotices(c) ==
  /\ rung[c] # "no" /\ Placer[c] \notin ready /\ rung[c] # "over"
  /\ rung' = [rung EXCEPT ![c] = "over"]
  /\ UNCHANGED <<inbox, process, ready, nativeVars, declines, screenVars, speechVars, refused>>

\* 'sources': a call on screen that was not answered goes with the hub that placed it.
Stranded(up) == active # NoCall /\ active # answered /\ Placer[active] \notin up
DropsStranded(up) ==
  IF Stranded(up) THEN DismissCall(active) /\ active' = NoCall ELSE UNCHANGED <<notes, ringing, active>>
FlushDeclines == rung' = Declined(HeardBy(declines, ready')) /\ declines' = Flush(declines, ready')
Disconnected(h) ==
  /\ h \in ready /\ ready' = ready \ {h}
  /\ inbox' = [inbox EXCEPT ![h] = <<>>]
  /\ FlushDeclines /\ DropsStranded(ready')
  /\ UNCHANGED <<process, taps, launch, answered, screen, speechVars, refused>>
HubReady(h) ==
  /\ process = "js" /\ h \notin ready /\ ready' = ready \cup {h}
  /\ FlushDeclines /\ DropsStranded(ready')
  /\ UNCHANGED <<inbox, process, taps, launch, answered, screen, speechVars, refused>>

\* 'call': on screen, as a notification, and ringing in place of any other
GetsCall(h) ==
  /\ inbox[h] # <<>> /\ Head(inbox[h]).frame = "call"
  /\ inbox' = [inbox EXCEPT ![h] = Tail(@)]
  /\ LET c == Head(inbox[h]).call IN active' = c /\ ShowsIncomingCall(c)
  /\ UNCHANGED <<rung, process, ready, taps, launch, declines, answered, screen, speechVars, refused>>
\* A call that is over leaves the screen, and is no longer the answered one.
Forgets(c) ==
  /\ active' = IF active = c THEN NoCall ELSE active
  /\ answered' = IF answered = c THEN NoCall ELSE answered
\* 'call.cancel'
GetsCancel(h) ==
  /\ inbox[h] # <<>> /\ Head(inbox[h]).frame = "cancel"
  /\ inbox' = [inbox EXCEPT ![h] = Tail(@)]
  /\ LET c == Head(inbox[h]).call IN DismissCall(c) /\ Forgets(c)
  /\ UNCHANGED <<rung, process, ready, taps, launch, declines, screen, speechVars, refused>>

-----------------------------------------------------------------------------
(* The notification, and the taps on it *)

\* CallActionReceiver: whether or not JavaScript is there.  An answer also opens the
\* application, with the call in its intent.
Wakes == process' = IF process = "dead" THEN "native" ELSE process
Launches(c) == launch' = c
Queued(t) == Append(IF Len(taps) >= TapLimit THEN Tail(taps) ELSE taps, t)
TapNotification(action, c) ==
  /\ c \in notes
  /\ Wakes
  /\ DismissCall(c)
  /\ taps' = Queued(Tap(action, c))
  /\ IF action = "answer" THEN Launches(c) ELSE UNCHANGED launch
  /\ LET dropped == Tapped("decline") \ {t.call : t \in {taps'[n] : n \in DOMAIN taps'}} IN
     refused' = (refused \ dropped) \cup (IF action = "decline" THEN {c} ELSE {})
  /\ UNCHANGED <<rung, inbox, ready, declines, screenVars, speechVars>>

\* consumePendingCallActions(): JavaScript has them all at once.
TakesTaps == taps # <<>> /\ taps' = <<>>
LastAnswered ==
  taps[CHOOSE n \in DOMAIN taps : /\ taps[n].action = "answer"
                                  /\ \A m \in DOMAIN taps : taps[m].action = "answer" => m <= n].call
\* Declines no hub could be told of yet join those that are held.
Held(cs) == [c \in DOMAIN declines \cup cs |-> IF c \in DOMAIN declines THEN declines[c] ELSE {}]
\* drain(): every queued tap is acted on.  A decline of the call on screen goes to its hub;
\* any other is held and offered to all.
Drain ==
  /\ process = "js" /\ TakesTaps
  /\ LET mine == Tapped("decline") \cap {active}
         ds == Held(Tapped("decline") \ mine)
     IN /\ rung' = Declined(HeardBy(ds, ready) \cup (mine \cap Told))
        /\ refused' = refused \ (mine \ Told)
        /\ declines' = Flush(ds, ready)
        /\ active' = IF mine = {} THEN active ELSE NoCall
  /\ answered' = IF Tapped("answer") = {} THEN answered ELSE LastAnswered
  /\ UNCHANGED <<inbox, process, ready, notes, ringing, launch, screen, speechVars>>

\* consumeAnsweredCall(): read once
TakesLaunch == launch # NoCall /\ launch' = NoCall /\ answered' = launch
\* The application comes to the foreground with the call it was opened for.
Foreground ==
  /\ process = "js" /\ TakesLaunch
  /\ UNCHANGED <<rung, inbox, process, ready, notes, ringing, taps, declines, active, screen, speechVars, refused>>

\* wire(), which reads both before any hub is connected; Drain and Foreground follow.
StartJs ==
  /\ process # "js" /\ process' = "js"
  /\ UNCHANGED <<rung, inbox, ready, nativeVars, declines, screenVars, speechVars, refused>>

\* Both ends of JavaScript: HubClient starts from nothing, the module stops ring and speech.
ForgetsHubs ==
  /\ ready' = {} /\ inbox' = [h \in Hubs |-> <<>>] /\ declines' = [c \in {} |-> {}]
  /\ active' = NoCall /\ answered' = NoCall /\ screen' = NoScreen
ShutsDown == ringing' = NoCall /\ asked' = {} /\ speaking' = NoCall /\ settled' = {}
\* The JavaScript of the process ends, or all of it; the notifications stay, and a hub may
\* or may not notice.
JsEnds(dies) ==
  /\ process = "js" \/ (dies /\ process = "native")
  /\ process' = IF dies THEN "dead" ELSE "native"
  /\ ForgetsHubs /\ ShutsDown
  /\ taps' = (IF dies THEN <<>> ELSE taps) /\ launch' = IF dies THEN NoCall ELSE launch
  /\ refused' = IF dies THEN {} ELSE Tapped("decline")
  /\ UNCHANGED <<rung, notes>>

\* a refusal nobody could be told in five minutes; the ring ends by itself
DeclineExpires(c) ==
  /\ c \in DOMAIN declines
  /\ declines' = [d \in DOMAIN declines \ {c} |-> declines[d]] /\ refused' = refused \ {c}
  /\ UNCHANGED <<rung, inbox, process, ready, nativeVars, screenVars, speechVars>>
RingerStops ==
  /\ ringing # NoCall /\ ringing' = NoCall
  /\ UNCHANGED <<rung, inbox, process, ready, notes, taps, launch, declines, screenVars, speechVars, refused>>

-----------------------------------------------------------------------------
(* The call screen *)

\* closeCall(): the call that finished may no longer be the one on screen.
ClosesCall(c) ==
  /\ DismissCall(c)
  /\ active' = IF active = c THEN NoCall ELSE active
  /\ answered' = IF active = c THEN NoCall ELSE answered

\* One call is one screen; the one that goes stops its ring and its speech.
Render ==
  /\ process = "js" /\ screen.call # active
  /\ screen' = [call |-> active, started |-> FALSE]
  /\ IF screen.call = NoCall
       THEN UNCHANGED <<ringing, speaking, settled>>
       ELSE StopsRinging(screen.call) /\ StopsSpeaking
  /\ UNCHANGED <<rung, inbox, process, ready, notes, taps, launch, declines, active, answered, asked, refused>>

\* onAnswer: the hub is told, and the call is kept should its connection drop.
AnswersHub(c, speech) ==
  rung' = [rung EXCEPT ![c] = IF @ = "ringing" /\ Placer[c] \in ready
                                THEN (IF speech THEN "answered" ELSE "over") ELSE @]
MarksAnswered(c) == answered' = c
\* speak(): asked of the module, which is asynchronous
AsksToSpeak(c) == asked' = asked \cup {c}
\* answer(), pressed or because the notification was; with speech off the call is over
Answers(speech) ==
  LET c == screen.call IN
  /\ c # NoCall /\ ~screen.started /\ screen' = [screen EXCEPT !.started = TRUE]
  /\ AnswersHub(c, speech)
  /\ IF speech
       THEN DismissCall(c) /\ MarksAnswered(c) /\ AsksToSpeak(c) /\ UNCHANGED active
       ELSE ClosesCall(c) /\ UNCHANGED asked
  /\ UNCHANGED <<inbox, process, ready, taps, launch, declines, speaking, settled, refused>>
\* onDecline
DeclinesHub(c) ==
  LET told == {c} \cap Told IN rung' = Declined(told) /\ refused' = refused \cup told
PressDecline ==
  LET c == screen.call IN
  /\ c # NoCall /\ ~screen.started
  /\ StopsSpeaking /\ ClosesCall(c)
  /\ DeclinesHub(c)
  /\ UNCHANGED <<inbox, process, ready, taps, launch, declines, screen, asked>>
HangUp ==
  LET c == screen.call IN
  /\ c # NoCall /\ screen.started
  /\ StopsSpeaking /\ ClosesCall(c) /\ rung' = EndedAt(c)
  /\ UNCHANGED <<inbox, process, ready, taps, launch, declines, screen, asked, refused>>

-----------------------------------------------------------------------------
(* CallSpeaker *)

\* speak(), run once the module gets to it: what was speaking is superseded and settles
Speaks_Unsettled(c) ==
  /\ c \in asked /\ asked' = asked \ {c}
  /\ speaking' = c /\ UNCHANGED settled
  /\ UNCHANGED <<rung, inbox, process, ready, nativeVars, declines, screenVars, refused>>
Speaks(c) ==
  /\ c \in asked /\ asked' = asked \ {c}
  /\ speaking' = c /\ settled' = settled \cup ({speaking} \ {NoCall})
  /\ UNCHANGED <<rung, inbox, process, ready, nativeVars, declines, screenVars, refused>>
\* spoken, or the engine failed
SpeechEnds ==
  /\ speaking # NoCall /\ StopsSpeaking
  /\ UNCHANGED <<rung, inbox, process, ready, nativeVars, declines, screenVars, asked, refused>>
\* the promise reaches the screen that asked: onFinished
Finished(c) ==
  /\ c \in settled /\ settled' = settled \ {c}
  /\ ClosesCall(c) /\ rung' = EndedAt(c)
  /\ UNCHANGED <<inbox, process, ready, taps, launch, declines, screen, asked, speaking, refused>>

PhoneCallNext ==
  \/ Drain \/ Foreground \/ StartJs \/ RingerStops \/ Render
  \/ PressDecline \/ HangUp \/ SpeechEnds
  \/ \E b \in BOOLEAN : JsEnds(b) \/ Answers(b)
  \/ \E c \in Calls :
       \/ HubRings(c) \/ HubCancels(c) \/ HubNotices(c) \/ DeclineExpires(c) \/ Speaks(c) \/ Finished(c)
       \/ \E action \in {"answer", "decline"} : TapNotification(action, c)
  \/ \E h \in Hubs : Disconnected(h) \/ HubReady(h) \/ GetsCall(h) \/ GetsCancel(h)
PhoneCallSpec == PhoneCallInit /\ [][PhoneCallNext]_phoneCallVars

-----------------------------------------------------------------------------
(* A person who declines has declined (CallEvents, pendingDeclines): while a *)
(* hub goes on ringing a phone for a call refused there, the refusal is      *)
(* still queued in Kotlin or held in JavaScript.                             *)
DeclineIsHeard ==
  \A c \in refused : rung[c] = "ringing" => c \in Tapped("decline") \/ c \in DOMAIN declines

(* What rings can be answered (strandedCall, CallRinger.stop, closeCall):    *)
(* the ringer is only ever at the call on screen, whose hub is connected;    *)
(* an answered call has speech to come, going on or just over, so that its   *)
(* screen ends.                                                              *)
RingIsAnswerable ==
  /\ ringing # NoCall => active = ringing /\ Placer[ringing] \in ready
  /\ screen.started /\ active = screen.call => screen.call \in asked \cup settled \cup {speaking}
=============================================================================
