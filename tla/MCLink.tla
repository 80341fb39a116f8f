------------------------------- MODULE MCLink -------------------------------
(* The device's side: one client and its socket, the manager that keeps a    *)
(* client per hub, a phone's calls and its watching, the calls of a desktop  *)
(* and of a dashboard, and the file of credentials.  None takes more from    *)
(* another than when a connection opens, closes or delivers a frame, so a    *)
(* behaviour exercises one of them, chosen at first, while the others rest.  *)
EXTENDS Client, Sources, PhoneCall, PhoneWatch, DeskCall, WebCall, Credentials, TLC

CONSTANTS a, b, c1, c2, h1, h2, app, cli, s1, s2
OneHubTwice == a :> "h1" @@ b :> "h1"
EachItsOwn == c1 :> h1 @@ c2 :> h2

VARIABLE part
linksVars == <<part, clientVars, sourcesVars, phoneCallVars, phoneWatchVars, deskCallVars,
               webCallVars, credentialsVars>>

Init ==
  /\ part \in {"client", "sources", "call", "watch", "desk", "web", "file"}
  /\ ClientInit /\ SourcesInit /\ PhoneCallInit /\ PhoneWatchInit /\ DeskCallInit /\ WebCallInit
  /\ CredentialsInit
  /\ part # "client" => ~probes    \* what the client's host can do is nothing to the others,
  /\ part # "desk" => voice = "window"    \* nor what voices the desktop has,
  /\ part # "web" => sound /\ voices    \* nor what a dashboard is set to
Next ==
  /\ UNCHANGED part
  /\ \/ /\ part = "client"
        /\ UNCHANGED <<sourcesVars, phoneCallVars, phoneWatchVars, deskCallVars, webCallVars,
                       credentialsVars>>
        /\ ClientNext
     \/ /\ part = "sources"
        /\ UNCHANGED <<clientVars, phoneCallVars, phoneWatchVars, deskCallVars, webCallVars,
                       credentialsVars>>
        /\ SourcesNext
     \/ /\ part = "call"
        /\ UNCHANGED <<clientVars, sourcesVars, phoneWatchVars, deskCallVars, webCallVars,
                       credentialsVars>>
        /\ PhoneCallNext
     \/ /\ part = "watch"
        /\ UNCHANGED <<clientVars, sourcesVars, phoneCallVars, deskCallVars, webCallVars,
                       credentialsVars>>
        /\ PhoneWatchNext
     \/ /\ part = "desk"
        /\ UNCHANGED <<clientVars, sourcesVars, phoneCallVars, phoneWatchVars, webCallVars,
                       credentialsVars>>
        /\ DeskCallNext
     \/ /\ part = "web"
        /\ UNCHANGED <<clientVars, sourcesVars, phoneCallVars, phoneWatchVars, deskCallVars,
                       credentialsVars>>
        /\ WebCallNext
     \/ /\ part = "file"
        /\ UNCHANGED <<clientVars, sourcesVars, phoneCallVars, phoneWatchVars, deskCallVars,
                       webCallVars>>
        /\ CredentialsNext
Spec == Init /\ [][Next]_linksVars
=============================================================================
