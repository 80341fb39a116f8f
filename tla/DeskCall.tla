------------------------------ MODULE DeskCall ------------------------------
(* A call on the desktop app: the main process holds the active call         *)
(* (desktop/src/main/hub.ts, index.ts), the window shows it, rings and       *)
(* speaks (renderer/index.ts, ringer.ts), and the two exchange messages that *)
(* take time (preload.ts), while hubs ring, cancel and disconnect.  A press  *)
(* names no call; what ends a call does.                                     *)
EXTENDS Naturals, Sequences

CONSTANTS
  DeskCalls,   \* each of a hub of its own
  NoDeskCall,
  PressLimit   \* presses there are, of any button

ASSUME DeskConstants == NoDeskCall \notin DeskCalls /\ PressLimit \in Nat \ {0}

VARIABLES
  placed,     \* what its hub makes of each call, as far as this computer goes
  deskCall,     \* activeCall
  deskAnswered,   \* answeredCallId
  talking,    \* runs the system's voice is reading for
  hushed,     \* ... and those it was stopped for, whose promise is still to settle
  toPage,     \* messages and replies on their way to the window
  toMain,     \* invocations on their way to the main process
  pageUp,     \* the window has loaded
  shown,      \* state.activeCall
  answering, readingOut,
  ring,       \* "off", "on", or "spent" once its deadline stopped it
  said,       \* the run whose utterance the window's voice is reading
  run,        \* answer()'s runs, in the order of their presses
  voice,      \* the window's, the system's, or off
  presses,
  unheard,    \* history: calls that came before the window
  excused     \* history: a run with speech off has reset another call's ring
mainVars == <<placed, deskCall, deskAnswered, talking, hushed>>
windowVars == <<shown, answering, readingOut, ring, said>>
restVars == <<voice, presses, unheard, excused>>
deskCallVars == <<mainVars, toPage, toMain, pageUp, windowVars, run, restVars>>

Runs == 1..PressLimit
NoRun == 0
Free == [call |-> NoDeskCall, at |-> "none"]

DeskCallInit ==
  /\ placed = [c \in DeskCalls |-> "none"] /\ deskCall = NoDeskCall /\ deskAnswered = NoDeskCall
  /\ talking = {} /\ hushed = {} /\ toPage = <<>> /\ toMain = <<>>
  /\ pageUp = FALSE /\ shown = NoDeskCall /\ answering = FALSE /\ readingOut = FALSE
  /\ ring = "off" /\ said = NoRun /\ run = [i \in Runs |-> Free]
  /\ voice \in {"window", "system", "off"} /\ presses = 0 /\ unheard = {} /\ excused = FALSE

State(c) == [is |-> "state", call |-> c, run |-> NoRun]
Call(c) == [is |-> "call", call |-> c, run |-> NoRun]
Reply(i) == [is |-> "reply", call |-> NoDeskCall, run |-> i]
Invoke(what, c, i) == Append(toMain, [is |-> what, call |-> c, run |-> i])
Sends(ms) == toPage' = IF pageUp THEN toPage \o ms ELSE toPage
ClearCallSent == <<State(NoDeskCall), Call(NoDeskCall)>>
ClearsCall == deskCall' = NoDeskCall /\ deskAnswered' = NoDeskCall

-----------------------------------------------------------------------------
\* wire(): a call replaces the one before; a cancel counts if it is the active one's; a call
\* whose hub is gone is cleared unless it was answered.
HubRingsDesk(c) ==
  /\ placed[c] = "none" /\ placed' = [placed EXCEPT ![c] = "ringing"]
  /\ deskCall' = c /\ Sends(<<State(c), Call(c)>>)
  /\ unheard' = IF pageUp THEN unheard ELSE unheard \cup {c}
  /\ UNCHANGED <<deskAnswered, talking, hushed, toMain, pageUp, windowVars, run, voice, presses,
                 excused>>
HubCancelsDesk(c) ==
  /\ placed[c] = "ringing" /\ placed' = [placed EXCEPT ![c] = "over"]
  /\ IF deskCall = c THEN ClearsCall /\ Sends(ClearCallSent)
     ELSE UNCHANGED <<deskCall, deskAnswered, toPage>>
  /\ UNCHANGED <<talking, hushed, toMain, pageUp, windowVars, run, restVars>>
HubLost(c) ==
  /\ placed[c] \in {"ringing", "answered"} /\ placed' = [placed EXCEPT ![c] = "over"]
  /\ IF deskCall = c /\ deskAnswered # c THEN ClearsCall /\ Sends(ClearCallSent)
     ELSE Sends(<<State(deskCall)>>) /\ UNCHANGED <<deskCall, deskAnswered>>
  /\ UNCHANGED <<talking, hushed, toMain, pageUp, windowVars, run, restVars>>

\* answerCall(), declineCall(), endCall() with stopSystemSpeech(), speakSystem()
MainAnswers(m) ==
  /\ deskAnswered' = deskCall
  /\ placed' = IF deskCall = NoDeskCall \/ placed[deskCall] # "ringing" THEN placed
               ELSE [placed EXCEPT ![deskCall] = "answered"]
  /\ Sends(<<Reply(m.run)>>) /\ UNCHANGED <<deskCall, talking, hushed>>
MainDeclines ==
  /\ IF deskCall = NoDeskCall THEN UNCHANGED <<placed, deskCall, deskAnswered, toPage>>
     ELSE /\ placed' = [placed EXCEPT ![deskCall] = "over"] /\ ClearsCall /\ Sends(ClearCallSent)
  /\ UNCHANGED <<talking, hushed>>
MainEnds(m) ==
  /\ placed' = IF placed[m.call] = "answered" THEN [placed EXCEPT ![m.call] = "over"] ELSE placed
  /\ talking' = {} /\ hushed' = hushed \cup talking
  /\ IF deskCall = m.call THEN ClearsCall /\ Sends(Append(ClearCallSent, Reply(m.run)))
     ELSE Sends(<<Reply(m.run)>>) /\ UNCHANGED <<deskCall, deskAnswered>>
MainSpeaks(m) ==
  /\ talking' = talking \cup {m.run} /\ UNCHANGED <<placed, deskCall, deskAnswered, hushed, toPage>>
MainHandles ==
  /\ toMain # <<>> /\ toMain' = Tail(toMain)
  /\ LET m == Head(toMain) IN
       \/ m.is = "answer" /\ MainAnswers(m)
       \/ m.is = "decline" /\ MainDeclines
       \/ m.is = "end" /\ MainEnds(m)
       \/ m.is = "speak" /\ MainSpeaks(m)
  /\ UNCHANGED <<pageUp, windowVars, run, restVars>>
SystemSpeechEnds(i) ==
  /\ i \in talking \cup hushed /\ talking' = talking \ {i} /\ hushed' = hushed \ {i}
  /\ Sends(<<Reply(i)>>)
  /\ UNCHANGED <<placed, deskCall, deskAnswered, toMain, pageUp, windowVars, run, restVars>>

-----------------------------------------------------------------------------
\* The window asks for the state when it loads; a call that came earlier is in it, but `call` was
\* sent to nobody.
WindowLoads ==
  /\ ~pageUp /\ pageUp' = TRUE /\ toPage' = <<State(deskCall)>>
  /\ UNCHANGED <<mainVars, toMain, windowVars, run, restVars>>

\* resetCall()
ResetsCall == ring' = "off" /\ said' = NoRun /\ answering' = FALSE /\ readingOut' = FALSE
Ends(i) ==
  /\ run' = [run EXCEPT ![i].at = "ending"] /\ toMain' = Invoke("end", run[i].call, i)

PageState(m) ==
  shown' = m.call /\ UNCHANGED <<toMain, answering, readingOut, ring, said, run, excused>>
\* onCall()
PageCall(m) ==
  /\ IF m.call = NoDeskCall THEN ResetsCall
     ELSE answering' = FALSE /\ readingOut' = FALSE /\ ring' = "on" /\ UNCHANGED said
  /\ UNCHANGED <<toMain, shown, run, excused>>
\* answer(), after each of its awaits
AfterAnswered(i) ==
  /\ run[i].at = "answering"
  /\ IF voice = "off" THEN Ends(i) /\ UNCHANGED <<readingOut, said>>
     ELSE /\ readingOut' = TRUE /\ run' = [run EXCEPT ![i].at = "speaking"]
          /\ IF voice = "window" THEN said' = i /\ UNCHANGED toMain
             ELSE toMain' = Invoke("speak", run[i].call, i) /\ UNCHANGED said
  /\ UNCHANGED <<shown, answering, ring, excused>>
AfterSystemSpeech(i) ==
  /\ run[i].at = "speaking" /\ Ends(i) /\ UNCHANGED <<windowVars, excused>>
Own_Any(i) == TRUE
Own(i) == shown \in {NoDeskCall, run[i].call}
AfterEnded(i) ==
  /\ run[i].at = "ending" /\ run' = [run EXCEPT ![i] = Free]
  /\ IF voice = "off" \/ Own(i) THEN ResetsCall ELSE UNCHANGED <<ring, said, answering, readingOut>>
  /\ excused' = (excused \/ (voice = "off" /\ shown \notin {NoDeskCall, run[i].call}))
  /\ UNCHANGED <<toMain, shown>>
PageHandles ==
  /\ toPage # <<>> /\ toPage' = Tail(toPage)
  /\ LET m == Head(toPage) IN
       \/ m.is = "state" /\ PageState(m)
       \/ m.is = "call" /\ PageCall(m)
       \/ m.is = "reply" /\ m.run = NoRun
          /\ UNCHANGED <<toMain, windowVars, run, excused>>
       \/ m.is = "reply" /\ m.run # NoRun
          /\ (AfterAnswered(m.run) \/ AfterSystemSpeech(m.run) \/ AfterEnded(m.run))
  /\ UNCHANGED <<mainVars, pageUp, voice, presses, unheard>>

\* speak() settles when its utterance has ended, or another run or stopSpeaking() took over.
UtteranceEnds(i) ==
  /\ run[i].at = "speaking" /\ voice = "window" /\ Ends(i)
  /\ said' = IF said = i THEN NoRun ELSE said
  /\ UNCHANGED <<mainVars, toPage, pageUp, shown, answering, readingOut, ring, restVars>>

\* The buttons: Answer and Decline until a call is being read out, then Hang up.
PressAnswerDesk(i) ==
  /\ shown # NoDeskCall /\ ~answering /\ ~readingOut /\ i = presses + 1 /\ presses' = i
  /\ run' = [run EXCEPT ![i] = [call |-> shown, at |-> "answering"]]
  /\ answering' = TRUE /\ ring' = "off" /\ toMain' = Invoke("answer", shown, i)
  /\ UNCHANGED <<mainVars, toPage, pageUp, shown, readingOut, said, voice, unheard, excused>>
PressDeclineDesk ==
  /\ shown # NoDeskCall /\ ~readingOut /\ presses < PressLimit /\ presses' = presses + 1
  /\ ResetsCall /\ toMain' = Invoke("decline", shown, NoRun)
  /\ UNCHANGED <<mainVars, toPage, pageUp, shown, run, voice, unheard, excused>>
PressHangUpDesk ==
  /\ shown # NoDeskCall /\ readingOut /\ presses < PressLimit /\ presses' = presses + 1
  /\ said' = NoRun /\ toMain' = Invoke("end", shown, NoRun)
  /\ UNCHANGED <<mainVars, toPage, pageUp, shown, answering, readingOut, ring, run, voice, unheard,
                 excused>>
RingTimesOut ==
  /\ ring = "on" /\ ring' = "spent"
  /\ UNCHANGED <<mainVars, toPage, toMain, pageUp, shown, answering, readingOut, said, run, restVars>>

DeskCallNext ==
  \/ \E c \in DeskCalls : HubRingsDesk(c) \/ HubCancelsDesk(c) \/ HubLost(c)
  \/ MainHandles \/ WindowLoads \/ PageHandles
  \/ \E i \in Runs : SystemSpeechEnds(i) \/ UtteranceEnds(i) \/ PressAnswerDesk(i)
  \/ PressDeclineDesk \/ PressHangUpDesk \/ RingTimesOut

DeskCallSpec == DeskCallInit /\ [][DeskCallNext]_deskCallVars

-----------------------------------------------------------------------------
\* Whenever the two processes have caught up with each other, the window shows the call the main
\* process holds, and rings for it unless it was answered or its ring ran out; and with no call
\* nothing rings and nothing is read out.  Calls that replace one another, presses on a screen
\* that is out of date and runs of answer() that outlive their call change nothing of this ("its
\* ring and its screen are not this call's to reset", renderer/index.ts:109).  Excused are a call
\* that came before the window, and one whose ring a run with speech off has reset.
DeskCaughtUp == pageUp /\ toPage = <<>> /\ toMain = <<>> /\ \A i \in Runs : run[i] = Free
RingFollowsCall ==
  DeskCaughtUp /\ ~excused =>
    /\ shown = deskCall
    /\ deskCall = NoDeskCall => ring = "off" /\ said = NoRun /\ talking = {}
    /\ deskCall \in DeskCalls \ (unheard \cup {deskAnswered}) => ring # "off" /\ ~answering
=============================================================================
