------------------------------ MODULE WebCall ------------------------------
(* A call in a tab of the dashboard (web/src/app.ts, web/src/speech.ts): one *)
(* call has the screen, a ringer with a deadline sounds, and the browser's   *)
(* voice reads what was answered, while the hub rings, cancels and is lost.  *)
(* Frames take time both ways, and the handler of the Answer button waits    *)
(* for the voice, so it may come back to the screen of another call.         *)
(* Operators named X_Fault are faults of X the properties must reveal.       *)
EXTENDS Naturals, Sequences

CONSTANTS WebCalls, NoWebCall

ASSUME WebCallConstants == NoWebCall \notin WebCalls

VARIABLES
  placing,    \* what its hub makes of each call, as far as this tab goes
  session,    \* the hub's session of this tab: open, closed, or refused once revoked
  toTab, toHub,   \* the frames on their way
  tab,        \* the client: up, down, or revoked
  webCall,    \* activeCall
  pickedUp,   \* the speaking line is shown in place of the buttons
  tone,       \* the ringer: off, on, or spent once its deadline stopped it
  sound, voices,  \* prefs.sound and prefs.speech.enabled
  reading,    \* the call whose utterances have the current generation
  stale,      \* the calls whose runs were superseded and have not settled
  covered     \* history: calls that another one, or a session, took the screen from
tabVars == <<webCall, pickedUp, tone, reading, stale>>
webCallVars == <<placing, session, toTab, toHub, tab, tabVars, sound, voices, covered>>

WebCallInit ==
  /\ placing = [c \in WebCalls |-> "none"] /\ session = "open" /\ toTab = <<>> /\ toHub = <<>>
  /\ tab = "up" /\ webCall = NoWebCall /\ pickedUp = FALSE /\ tone = "off"
  /\ sound \in BOOLEAN /\ voices \in BOOLEAN
  /\ reading = NoWebCall /\ stale = {} /\ covered = {}

WebFrame(is, c) == [is |-> is, call |-> c]
ToTab(is, c) == toTab' = IF session = "open" THEN Append(toTab, WebFrame(is, c)) ELSE toTab
\* A frame the client sends without a session is dropped.
Sent(is, c) == IF tab = "up" THEN <<WebFrame(is, c)>> ELSE <<>>

-----------------------------------------------------------------------------
(* The hub *)

HubRingsTab(c) ==
  /\ session = "open" /\ placing[c] = "none" /\ placing' = [placing EXCEPT ![c] = "ringing"]
  /\ ToTab("call", c)
  /\ UNCHANGED <<session, toHub, tab, tabVars, sound, voices, covered>>
HubCancelsTab(c) ==
  /\ placing[c] = "ringing" /\ placing' = [placing EXCEPT ![c] = "over"]
  /\ ToTab("cancel", c)
  /\ UNCHANGED <<session, toHub, tab, tabVars, sound, voices, covered>>
\* A reply counts while the call rings here, and an end once it was answered here.
HubHears ==
  /\ session = "open" /\ toHub # <<>> /\ toHub' = Tail(toHub)
  /\ LET m == Head(toHub) IN
     placing' = [placing EXCEPT ![m.call] =
       CASE m.is = "answered" /\ @ = "ringing" -> "answered"
         [] m.is = "declined" /\ @ = "ringing" -> "over"
         [] m.is = "ended" /\ @ = "answered" -> "over"
         [] OTHER -> @]
  /\ UNCHANGED <<session, toTab, tab, tabVars, sound, voices, covered>>
\* dropped(): the calls of a session that closes are passed on; what it had not read is lost.
Dropped == placing' = [c \in WebCalls |-> IF placing[c] \in {"ringing", "answered"} THEN "over" ELSE placing[c]]
HubLosesTab ==
  /\ session = "open" /\ session' = "closed" /\ toHub' = <<>> /\ Dropped
  /\ UNCHANGED <<toTab, tab, tabVars, sound, voices, covered>>
HubRevokesTab ==
  /\ session = "open" /\ session' = "refused" /\ toHub' = <<>> /\ Dropped
  /\ ToTab("revoked", NoWebCall)
  /\ UNCHANGED <<tab, tabVars, sound, voices, covered>>

-----------------------------------------------------------------------------
(* The screen *)

\* stopSpeaking(), and a run that takes over: the generation of whatever is read has passed.
Supersedes == stale' = stale \cup ({reading} \ {NoWebCall})
StopsReading == reading' = NoWebCall /\ Supersedes
LeavesScreen == webCall' = NoWebCall /\ pickedUp' = FALSE /\ tone' = "off"
ClosesScreen == LeavesScreen /\ StopsReading

\* openCall(): in place of the call before, whose speech goes on
OpensCall(c) ==
  /\ webCall' = c /\ pickedUp' = FALSE /\ tone' = IF sound THEN "on" ELSE tone
  /\ covered' = covered \cup ({webCall} \ {NoWebCall, c})
  /\ UNCHANGED <<tab, reading, stale>>
\* 'call.cancel', and the handler of 'revoked'
CancelsCall(c) ==
  /\ IF webCall = c THEN ClosesScreen ELSE UNCHANGED tabVars
  /\ UNCHANGED <<tab, covered>>
IsRevoked == ClosesScreen /\ tab' = "revoked" /\ UNCHANGED covered
TabHears ==
  /\ tab = "up" /\ toTab # <<>> /\ toTab' = Tail(toTab)
  /\ LET m == Head(toTab) IN
       \/ m.is = "call" /\ OpensCall(m.call)
       \/ m.is = "cancel" /\ CancelsCall(m.call)
       \/ m.is = "revoked" /\ IsRevoked
  /\ UNCHANGED <<placing, session, toHub, sound, voices>>

\* 'status': a call that was not answered goes with the connection that brought it.
TabLosesHub ==
  /\ tab = "up" /\ tab' = "down" /\ toTab' = <<>>
  /\ IF webCall # NoWebCall /\ ~pickedUp THEN ClosesScreen ELSE UNCHANGED tabVars
  /\ UNCHANGED <<placing, session, toHub, sound, voices, covered>>
\* 'ready'.  A hub that had not noticed rings on, for a session this tab has left.
TabReturns ==
  /\ tab = "down" /\ session # "refused" /\ tab' = "up" /\ session' = "open" /\ toTab' = <<>> /\ toHub' = <<>>
  /\ covered' = covered \cup {c \in WebCalls : placing[c] \in {"ringing", "answered"}}
  /\ UNCHANGED <<placing, tabVars, sound, voices>>

\* Where the handler of Answer comes to after its wait: the hub is told, and the screen closes if
\* it is still this call's.
OwnScreen_Any(c) == TRUE
OwnScreen(c) == webCall = c
EndsRun(c, before) ==
  /\ toHub' = toHub \o before \o Sent("ended", c)
  /\ IF OwnScreen(c)
       THEN LeavesScreen /\ reading' = NoWebCall /\ stale' = (stale \cup {reading}) \ {c, NoWebCall}
       ELSE /\ reading' = (IF reading = c THEN NoWebCall ELSE reading) /\ stale' = stale \ {c}
            /\ UNCHANGED <<webCall, pickedUp, tone>>
\* The Answer button; with speech off there is nothing to wait for.
PressAnswerTab ==
  /\ webCall # NoWebCall /\ ~pickedUp
  /\ IF voices
       THEN /\ toHub' = toHub \o Sent("answered", webCall)
            /\ tone' = "off" /\ pickedUp' = TRUE /\ UNCHANGED webCall
            /\ Supersedes /\ reading' = webCall
       ELSE EndsRun(webCall, Sent("answered", webCall))
  /\ UNCHANGED <<placing, session, toTab, tab, sound, voices, covered>>
\* speak() settles once it was read as often as asked, the voice failed, or it was superseded.
SpeechSettles(c) ==
  /\ c = reading \/ c \in stale
  /\ EndsRun(c, <<>>)
  /\ UNCHANGED <<placing, session, toTab, tab, sound, voices, covered>>
\* The Decline button, or Escape, which presses it whatever the screen shows
PressDeclineTab ==
  /\ webCall # NoWebCall /\ toHub' = toHub \o Sent("declined", webCall) /\ ClosesScreen
  /\ UNCHANGED <<placing, session, toTab, tab, sound, voices, covered>>
\* maxRingMs(): a ring nobody stops stops itself.
ToneRunsOut ==
  /\ tone = "on" /\ tone' = "spent"
  /\ UNCHANGED <<placing, session, toTab, toHub, tab, webCall, pickedUp, reading, stale, sound, voices, covered>>

WebCallNext ==
  \/ \E c \in WebCalls : HubRingsTab(c) \/ HubCancelsTab(c) \/ SpeechSettles(c)
  \/ HubHears \/ HubLosesTab \/ HubRevokesTab
  \/ TabHears \/ TabLosesHub \/ TabReturns
  \/ PressAnswerTab \/ PressDeclineTab \/ ToneRunsOut

WebCallSpec == WebCallInit /\ [][WebCallNext]_webCallVars

-----------------------------------------------------------------------------
WebCallTypeOK ==
  /\ placing \in [WebCalls -> {"none", "ringing", "answered", "over"}] /\ session \in {"open", "closed", "refused"}
  /\ tab \in {"up", "down", "revoked"} /\ tone \in {"off", "on", "spent"}
  /\ {webCall, reading} \subseteq WebCalls \cup {NoWebCall} /\ pickedUp \in BOOLEAN
  /\ stale \subseteq WebCalls /\ covered \subseteq WebCalls

\* Once a tab and its hub have read each other's frames, the tab shows the call it is rung for,
\* rings unless its ring ran out, and offers no other; a call answered there is still read out, so
\* that the hub hears its end; and without a call the page is quiet.  A run that comes back from
\* its wait after another call took the screen changes nothing of this ("closing it here stopped
\* its ring and hid it unanswered", app.ts:520).  Covered are calls another one took the screen
\* from, and those of a session the tab had left.
TabCaughtUp == session = "open" /\ tab = "up" /\ toTab = <<>> /\ toHub = <<>>
TabRings ==
  /\ webCall = NoWebCall => tone = "off" /\ reading = NoWebCall
  /\ TabCaughtUp /\ webCall # NoWebCall /\ ~pickedUp => placing[webCall] = "ringing"
  /\ TabCaughtUp => \A c \in WebCalls \ covered :
       /\ placing[c] = "ringing" => webCall = c /\ ~pickedUp /\ (sound => tone # "off")
       /\ placing[c] = "answered" => c = reading \/ c \in stale
=============================================================================
