------------------------------ MODULE Sources ------------------------------
(* The SourceManager of one device (protocol/src/sources.ts): the hubs it is *)
(* subscribed to, the client it keeps for each, the list and the keys in the *)
(* storage, and operations that await the storage, a key pair or the hub     *)
(* while others run.  The storage keeps the order of its calls, so what is   *)
(* written last is what stays.  Which hub says what is Client's and          *)
(* Delivery's; how long snoozes last is Delivery's.                          *)
(* Operators named X_Fault are faults of X the properties must reveal.       *)
EXTENDS Integers, FiniteSets

CONSTANTS
  Ids,          \* the sources that may be made, each a new id
  HubOf         \* the address each is made with

ASSUME SourcesConstants == Ids = DOMAIN HubOf

VARIABLES
  loaded,       \* load(): not called, reading the index, restoring, done
  sources,      \* the list: a source is absent, on or muted
  index,        \* INDEX_KEY in the storage
  used,         \* ids given out: never again
  keys,         \* sources whose credentials are in the storage
  client,       \* the client in the map: none, awaiting the storage, with a socket, disconnected
  strays,       \* clients out of the map that will open a socket, or hold one
  todo          \* operations awaiting something: what, and of which source
sourcesVars == <<loaded, sources, index, used, keys, client, strays, todo>>

Listed == {i \in Ids : sources[i] # "absent"}
Task(op, i) == [op |-> op, id |-> i]

SourcesInit ==
  /\ loaded = "no" /\ used = {} /\ todo = {} /\ strays = {}
  /\ sources = [i \in Ids |-> "absent"] /\ index = sources
  /\ keys = {} /\ client = [i \in Ids |-> "none"]

\* client.disconnect(), where the client leaves the map: one that awaits the storage opens
\* its socket all the same
Strays(i) == IF client[i] = "opening" THEN strays \cup {i} ELSE strays

-----------------------------------------------------------------------------
\* load() and restore(): the enabled ones are connected one by one
Load ==
  /\ loaded = "no" /\ loaded' = "restoring"
  /\ sources' = [i \in Ids |-> IF index[i] # "absent" THEN index[i] ELSE sources[i]]
  /\ UNCHANGED <<index, used, keys, client, strays, todo>>
Unrestored == {i \in Listed : sources[i] = "on" /\ client[i] = "none"}
RestoreOne(i) ==
  /\ loaded = "restoring" /\ i \in Unrestored
  /\ \A j \in Ids : client[j] # "opening"
  /\ client' = [client EXCEPT ![i] = "opening"]
  /\ UNCHANGED <<loaded, sources, index, used, keys, strays, todo>>
Restored ==
  /\ loaded = "restoring" /\ Unrestored = {} /\ \A j \in Ids : client[j] # "opening"
  /\ loaded' = "done"
  /\ UNCHANGED <<sources, index, used, keys, client, strays, todo>>

\* The storage answered: open().  A client disconnected meanwhile does so too.
Opened(i) ==
  /\ client[i] = "opening" /\ client' = [client EXCEPT ![i] = "live"]
  /\ UNCHANGED <<loaded, sources, index, used, keys, strays, todo>>

-----------------------------------------------------------------------------
\* add(), up to the await of its persist(): a hub is subscribed to once
AlreadySubscribed(i) == \E j \in Listed : HubOf[j] = HubOf[i]
Add_Early(i) ==
  /\ i \notin used /\ ~AlreadySubscribed(i)
  /\ used' = used \cup {i}
  /\ sources' = [sources EXCEPT ![i] = "on"] /\ index' = sources'
  /\ todo' = todo \cup {Task("pair", i)}
  /\ UNCHANGED <<loaded, keys, client, strays>>
Add(i) ==
  /\ loaded = "done" /\ i \notin used /\ ~AlreadySubscribed(i)
  /\ used' = used \cup {i}
  /\ sources' = [sources EXCEPT ![i] = "on"] /\ index' = sources'
  /\ todo' = todo \cup {Task("pair", i)}
  /\ UNCHANGED <<loaded, keys, client, strays>>
\* connect() with a code: the client makes its keys and opens
AddConnects(i) ==
  /\ Task("pair", i) \in todo /\ todo' = (todo \ {Task("pair", i)}) \cup {Task("ready", i)}
  /\ client' = [client EXCEPT ![i] = "opening"] /\ strays' = Strays(i)
  /\ UNCHANGED <<loaded, sources, index, used, keys>>
\* `paired`, whose keys the client stores, and `ready`
AddPaired(i) ==
  /\ Task("ready", i) \in todo /\ client[i] = "live"
  /\ keys' = keys \cup {i}
  /\ UNCHANGED <<loaded, sources, index, used, client, strays, todo>>
AddReady(i) ==
  /\ Task("ready", i) \in todo /\ client[i] = "live" /\ i \in keys
  /\ todo' = todo \ {Task("ready", i)}
  /\ UNCHANGED <<loaded, sources, index, used, keys, client, strays>>
\* refused, or unanswered, once pair() has returned: nothing half added is left
AddFails(i) ==
  /\ Task("ready", i) \in todo /\ client[i] # "opening" /\ todo' = todo \ {Task("ready", i)}
  /\ client' = [client EXCEPT ![i] = "none"] /\ strays' = Strays(i)
  /\ sources' = [sources EXCEPT ![i] = "absent"] /\ index' = sources'
  /\ UNCHANGED <<loaded, used, keys>>

-----------------------------------------------------------------------------
\* remove(), up to the await of forgetCredentials()
Remove(i) ==
  /\ loaded = "done" /\ i \in Listed /\ Task("remove", i) \notin todo
  /\ keys' = keys \ {i}
  /\ client' = [client EXCEPT ![i] = IF @ = "live" THEN "left" ELSE @]
  /\ todo' = todo \cup {Task("remove", i)}
  /\ UNCHANGED <<loaded, sources, index, used, strays>>
\* ... and after it: the client in the map goes without a word
RemoveDone(i) ==
  /\ Task("remove", i) \in todo /\ todo' = todo \ {Task("remove", i)}
  /\ strays' = IF client[i] \in {"opening", "live"} THEN strays \cup {i} ELSE strays
  /\ client' = [client EXCEPT ![i] = "none"]
  /\ sources' = [sources EXCEPT ![i] = "absent"] /\ index' = sources'
  /\ UNCHANGED <<loaded, used, keys>>

\* setEnabled(), up to the await of its persist(), and after it
Toggle(i) ==
  /\ loaded = "done" /\ i \in Listed
  /\ sources' = [sources EXCEPT ![i] = IF @ = "on" THEN "off" ELSE "on"] /\ index' = sources'
  /\ todo' = todo \cup {Task(sources'[i], i)}
  /\ UNCHANGED <<loaded, used, keys, client, strays>>
Unmuted(i) ==
  /\ Task("on", i) \in todo /\ todo' = todo \ {Task("on", i)}
  /\ client' = [client EXCEPT ![i] = "opening"] /\ strays' = Strays(i)
  /\ UNCHANGED <<loaded, sources, index, used, keys>>
Muted(i) ==
  /\ Task("off", i) \in todo /\ todo' = todo \ {Task("off", i)}
  /\ client' = [client EXCEPT ![i] = "none"] /\ strays' = Strays(i)
  /\ UNCHANGED <<loaded, sources, index, used, keys>>

\* disconnectAll()
DisconnectAll ==
  /\ \E i \in Ids : client[i] # "none"
  /\ client' = [i \in Ids |-> "none"]
  /\ strays' = strays \cup {i \in Ids : client[i] = "opening"}
  /\ UNCHANGED <<loaded, sources, index, used, keys, todo>>
\* The application is closed, and starts again with what was stored.
Relaunch ==
  /\ loaded # "no" /\ loaded' = "no"
  /\ sources' = [i \in Ids |-> "absent"] /\ client' = [i \in Ids |-> "none"]
  /\ strays' = {} /\ todo' = {}
  /\ UNCHANGED <<index, used, keys>>

SourcesNext ==
  \/ Load \/ Restored \/ DisconnectAll \/ Relaunch
  \/ \E i \in Ids :
       \/ RestoreOne(i) \/ Opened(i) \/ Add(i) \/ AddConnects(i) \/ AddPaired(i) \/ AddReady(i) \/ AddFails(i)
       \/ Remove(i) \/ RemoveDone(i) \/ Toggle(i) \/ Unmuted(i) \/ Muted(i)

SourcesSpec == SourcesInit /\ [][SourcesNext]_sourcesVars

-----------------------------------------------------------------------------
SourcesTypeOK ==
  /\ loaded \in {"no", "restoring", "done"} /\ used \subseteq Ids /\ keys \subseteq Ids /\ strays \subseteq Ids
  /\ {sources, index} \subseteq [Ids -> {"absent", "on", "off"}]
  /\ client \in [Ids -> {"none", "opening", "live", "left"}]
  /\ todo \subseteq [op : {"pair", "ready", "remove", "on", "off"}, id : Ids]

\* The stored list loses a hub only by its removal, or by a pairing that failed: not by what
\* is added while the list is still being read, nor by operations that overlap (load, add).
ListIsKept ==
  [][\A i \in Ids : index[i] # "absent" /\ index'[i] = "absent" =>
       {Task("remove", i), Task("ready", i)} \cap todo # {}]_sourcesVars
=============================================================================
