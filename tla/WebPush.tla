------------------------------ MODULE WebPush ------------------------------
(* Waking a browser that is not connected: the hub's VAPID key and the       *)
(* device's subscription (core/src/server.ts, store.ts), the requests to the *)
(* push service and their late answers (webpush.ts), and the page that       *)
(* subscribes on every `ready` (web/src/app.ts).  One device, one push       *)
(* service; notifications are permitted.  An alert of this model is one the  *)
(* device may see and has not snoozed.                                       *)
EXTENDS Naturals, FiniteSets, Sequences

CONSTANTS
  Endpoints,       \* subscriptions the push service can give out
  Refused,         \* those whose endpoint or keys the hub does not accept
  Unusable,        \* those whose keys turn out not to be a point of the curve
  MaxKeys, MaxRuns, MaxTabs,
  TokenLife, TokenReuse,  \* how long a VAPID header is valid, and is reused
  EvenWhenOnline

None == "none"   \* no subscription

ASSUME WebPushConstants ==
  /\ None \notin Endpoints
  /\ Refused \cap Unusable = {} /\ Refused \cup Unusable \subseteq Endpoints
  /\ MaxKeys \in Nat \ {0} /\ MaxRuns \in Nat \ {0} /\ MaxTabs \in Nat \ {0}
  /\ TokenReuse \in 1..TokenLife - 1 /\ TokenLife \in Nat /\ EvenWhenOnline \in BOOLEAN

VARIABLES
  mem,       \* the store in memory: the key and the device's endpoint
  saved,     \* the store on disk
  header,    \* the cached Authorization header
  requests,  \* endpoints with a POST outstanding
  minted,    \* keys generated so far
  link,      \* the page's socket is ready
  wire,      \* `push.register` frames on it
  offered,   \* vapidPublicKey, as the page last heard it
  sub,       \* the browser's subscription: its endpoint and the key it is bound to
  used,      \* endpoints given out so far
  runs,      \* calls of subscribeToPush() that are awaiting the browser
  visits,    \* readies so far
  excused    \* history: why the hub may not have the subscription, if there is a reason
hubVars == <<mem, saved, header, requests, minted>>
pageVars == <<link, wire, offered, sub, used, runs, visits>>
webPushVars == <<hubVars, pageVars, excused>>

NoKey == 0
NoHeader == [key |-> NoKey, age |-> 0]
NoSub == [at |-> None, key |-> NoKey]

WebPushInit ==
  /\ mem = [key |-> NoKey, endpoint |-> None] /\ saved = mem /\ header = NoHeader
  /\ requests = {} /\ minted = 0
  /\ link = FALSE /\ wire = <<>> /\ offered = NoKey /\ sub = NoSub /\ used = {}
  /\ runs = {} /\ visits = 0
  /\ excused = {}

-----------------------------------------------------------------------------
\* vapid(): a keypair the first time it is asked for
Vapid == IF mem.key = NoKey THEN minted + 1 ELSE mem.key
MintsVapid == minted' = IF mem.key = NoKey THEN minted + 1 ELSE minted

\* authorization(): reused until an hour before it expires, unless the key is another
Authorization ==
  IF header.key = Vapid /\ header.age < TokenReuse THEN header ELSE [key |-> Vapid, age |-> 0]

\* pushToOffline() and webPushTargets(); a call wakes only who is not ringing.
WokenByAlert == mem.endpoint # None /\ (link => EvenWhenOnline)
WokenByCall == mem.endpoint # None /\ ~link
\* sendOne() up to the request: keys that cannot be encrypted to retire the subscription.
SendOne ==
  IF mem.endpoint \in Unusable
  THEN mem' = [mem EXCEPT !.endpoint = None] /\ UNCHANGED <<requests, header, minted>>
  ELSE /\ Vapid <= MaxKeys /\ requests' = requests \cup {mem.endpoint} /\ header' = Authorization
       /\ MintsVapid /\ mem' = [mem EXCEPT !.key = Vapid]
Push ==
  /\ WokenByAlert \/ WokenByCall
  /\ SendOne /\ UNCHANGED <<saved, pageVars, excused>>

\* 404 or 410 comes only for an endpoint that is gone; onUnreachable() then clears whatever
\* endpoint the device has by now.
Gone(e) ==
  /\ e \in requests /\ sub.at # e
  /\ requests' = requests \ {e} /\ mem' = [mem EXCEPT !.endpoint = None]
  /\ excused' = IF mem.endpoint \in {None, e} THEN excused ELSE excused \cup {"late answer"}
  /\ UNCHANGED <<saved, header, minted, pageVars>>

\* delivered, refused, unreachable or timed out: the subscription stays
NotGone(e) ==
  /\ e \in requests /\ requests' = requests \ {e}
  /\ UNCHANGED <<mem, saved, header, minted, pageVars, excused>>

\* isPushEndpoint(), validWebPushKeys()
Acceptable(e) == e \notin Refused
\* handlePushRegister(): no token, or one of a transport that is gone, clears; a subscription
\* that cannot be used is refused, and changes nothing.
HandlePushRegister ==
  /\ wire # <<>> /\ wire' = Tail(wire)
  /\ mem' = IF Acceptable(Head(wire)) THEN [mem EXCEPT !.endpoint = Head(wire)] ELSE mem
  /\ excused' = IF Head(wire) = None THEN excused \cup {"withdrawn"}
                ELSE excused \ {"late answer", "withdrawn"}
  /\ UNCHANGED <<saved, header, requests, minted, link, offered, sub, used, runs, visits>>

\* The store is written a little later; a crash before that loses what changed, and outstanding
\* requests with it.
SaveStore ==
  /\ mem # saved /\ saved' = mem
  /\ UNCHANGED <<mem, header, requests, minted, pageVars, excused>>
RestartHub ==
  /\ mem' = saved /\ header' = NoHeader /\ requests' = {} /\ link' = FALSE /\ wire' = <<>>
  /\ UNCHANGED <<saved, minted, offered, sub, used, runs, visits, excused>>

-----------------------------------------------------------------------------
\* `ready` names the key, and subscribeToPush() begins.
ReadyPage ==
  /\ ~link /\ visits < MaxTabs /\ Vapid <= MaxKeys /\ Cardinality(runs) < MaxRuns
  /\ link' = TRUE /\ visits' = visits + 1 /\ MintsVapid
  /\ mem' = [mem EXCEPT !.key = Vapid] /\ offered' = Vapid
  /\ runs' = runs \cup {[at |-> "look", want |-> NoKey, had |-> NoSub]}
  /\ excused' = excused \ {"gave up"}
  /\ UNCHANGED <<saved, header, requests, wire, sub, used>>

\* registerWebPush(): lost without a socket
Registers(e) == wire' = IF link THEN Append(wire, e) ELSE wire

\* getSubscription(): one bound to another key has to go; one bound to this key is registered.
SubscribedWith_Any(s) == s # NoSub
SubscribedWith(s) == s # NoSub /\ s.key = offered
Look(r) ==
  /\ r \in runs /\ r.at = "look"
  /\ IF SubscribedWith(sub)
     THEN runs' = runs \ {r} /\ Registers(sub.at)
     ELSE /\ runs' = (runs \ {r}) \cup {[at |-> IF sub = NoSub THEN "subscribe" ELSE "unsubscribe",
                                          want |-> offered, had |-> sub]}
          /\ UNCHANGED wire
  /\ UNCHANGED <<hubVars, link, offered, sub, used, visits, excused>>
Unsubscribe(r) ==
  /\ r \in runs /\ r.at = "unsubscribe"
  /\ runs' = (runs \ {r}) \cup {[r EXCEPT !.at = "subscribe"]}
  /\ sub' = IF sub = r.had THEN NoSub ELSE sub
  /\ UNCHANGED <<hubVars, link, wire, offered, used, visits, excused>>
Subscribe(r) ==
  /\ r \in runs /\ r.at = "subscribe" /\ runs' = runs \ {r}
  /\ \/ /\ sub = NoSub
        /\ \E e \in Endpoints \ used :
             sub' = [at |-> e, key |-> r.want] /\ used' = used \cup {e} /\ Registers(e)
     \/ sub.key = r.want /\ Registers(sub.at) /\ UNCHANGED <<sub, used>>
  /\ excused' = IF r.want = offered THEN excused ELSE excused \cup {"gave up"}
  /\ UNCHANGED <<hubVars, link, offered, visits>>
\* The browser refuses: also to subscribe with one key while bound to another.
GivesUp(r) ==
  /\ r \in runs /\ r.at # "look" /\ runs' = runs \ {r} /\ excused' = excused \cup {"gave up"}
  /\ UNCHANGED <<hubVars, link, wire, offered, sub, used, visits>>

\* The push service drops the subscription; unregisterPush(), or a client of a transport the
\* hub no longer has.
Expire ==
  /\ sub # NoSub /\ sub' = NoSub
  /\ UNCHANGED <<hubVars, link, wire, offered, used, runs, visits, excused>>
Withdraw ==
  /\ link /\ wire = <<>> /\ Registers(None)
  /\ UNCHANGED <<hubVars, link, offered, sub, used, runs, visits, excused>>
\* The socket goes, the page with it or not.
LosePage ==
  /\ link /\ link' = FALSE /\ wire' = <<>> /\ runs' \in {runs, {}}
  /\ UNCHANGED <<hubVars, offered, sub, used, visits, excused>>
LetTokenAge ==
  /\ header # NoHeader /\ header.age < TokenLife /\ header' = [header EXCEPT !.age = @ + 1]
  /\ UNCHANGED <<mem, saved, requests, minted, pageVars, excused>>

WebPushNext ==
  \/ Push \/ HandlePushRegister \/ SaveStore \/ RestartHub
  \/ \E e \in Endpoints : Gone(e) \/ NotGone(e)
  \/ ReadyPage \/ Expire \/ Withdraw \/ LosePage \/ LetTokenAge
  \/ \E r \in runs : Look(r) \/ Unsubscribe(r) \/ Subscribe(r) \/ GivesUp(r)

WebPushSpec == WebPushInit /\ [][WebPushNext]_webPushVars

-----------------------------------------------------------------------------
WebPushTypeOK ==
  /\ {mem, saved} \subseteq [key : 0..MaxKeys, endpoint : Endpoints \cup {None}]
  /\ header \in [key : 0..MaxKeys, age : 0..TokenLife] /\ requests \subseteq Endpoints
  /\ minted \in 0..MaxKeys /\ link \in BOOLEAN /\ wire \in Seq(Endpoints \cup {None})
  /\ offered \in 0..MaxKeys /\ sub \in [at : Endpoints \cup {None}, key : 0..MaxKeys]
  /\ used \subseteq Endpoints /\ visits \in 0..MaxTabs
  /\ \A r \in runs : r.at \in {"look", "subscribe", "unsubscribe"}

\* A page that is connected and has done subscribing
Subscribed == link /\ runs = {} /\ wire = <<>> /\ sub.at \in Endpoints \ (Refused \cup Unusable)

\* A page that is connected and has done subscribing can be woken: the hub has its present
\* subscription, which is bound to the hub's present key, and the header the hub would present
\* is signed with that key and has not expired; through crashes that lose the key or the
\* registration, endpoints that go, lost sockets, and visits that overlap.  Excused are a late
\* 404 or 410 about an earlier endpoint, which clears the newer one (server.ts:272), a
\* subscription that cannot be used, the browser's refusal and the device's own withdrawal.
Wakeable ==
  Subscribed /\ excused = {} =>
    /\ mem.endpoint = sub.at /\ mem.key = sub.key
    /\ Authorization.key = sub.key /\ Authorization.age < TokenLife
=============================================================================
