---------------------------- MODULE CallPromise ----------------------------
(***************************************************************************)
(* What `await notify.call(...)` promises its caller, with the ladder, the  *)
(* timers and the sockets left out: a placed call reaches one outcome and   *)
(* keeps it, and only a device that was rung can be the one that answered.  *)
(* CallOrchestrator implements this: see Promise in CallOrchestratorProps.  *)
(***************************************************************************)
CONSTANTS Calls, Devices, NoDevice

VARIABLES
  outcome,   \* what the promise of each call resolved to
  rung,      \* the devices tried so far: `attempted` in the result
  answerer   \* the device that took the call

vars == <<outcome, rung, answerer>>

Outcomes == {"answered", "declined", "missed", "cancelled"}

Init ==
  /\ outcome = [c \in Calls |-> "unplaced"]
  /\ rung = [c \in Calls |-> {}]
  /\ answerer = [c \in Calls |-> NoDevice]

\* Nobody to ring at all is an outcome of its own, known at once.
Place(c) ==
  /\ outcome[c] = "unplaced"
  /\ \E o \in {"pending", "failed"} : outcome' = [outcome EXCEPT ![c] = o]
  /\ UNCHANGED <<rung, answerer>>

Ring(c, d) ==
  /\ outcome[c] \in {"pending", "cancelled"}
  /\ answerer[c] = NoDevice
  /\ rung' = [rung EXCEPT ![c] = @ \cup {d}]
  /\ UNCHANGED <<outcome, answerer>>

\* The first answer takes the call; a second one changes nothing.
Take(c, d) ==
  /\ outcome[c] = "pending"
  /\ answerer[c] = NoDevice
  /\ d \in rung[c]
  /\ answerer' = [answerer EXCEPT ![c] = d]
  /\ UNCHANGED <<outcome, rung>>

\* Several calls may be cancelled at once, when the hub stops.
Resolve(cs, o) ==
  /\ cs # {}
  /\ \A c \in cs : outcome[c] = "pending"
  /\ o = "answered" => \A c \in cs : answerer[c] # NoDevice
  /\ o \in {"declined", "missed"} => \A c \in cs : answerer[c] = NoDevice
  /\ outcome' = [c \in Calls |-> IF c \in cs THEN o ELSE outcome[c]]
  /\ UNCHANGED <<rung, answerer>>

Next ==
  \/ \E c \in Calls : Place(c)
  \/ \E c \in Calls, d \in Devices : Ring(c, d) \/ Take(c, d)
  \/ \E cs \in SUBSET Calls, o \in Outcomes : Resolve(cs, o)

Spec == Init /\ [][Next]_vars
=============================================================================
