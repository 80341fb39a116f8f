# NotifyJS: a verification development

NotifyJS is a self-hosted paging hub. Applications embed it (`@osqd/notifyjs`), devices
pair with it over a WebSocket, and it pushes notifications, critical alerts and *calls* to
them. This directory holds TLA+ models of the parts whose correctness depends on the order
of events, the TLC runs that check them on small instances, and TLAPS proofs for every
instance. `PROJECT.json` maps each definition to the lines it was translated from.

## 1. The system

| part | source | state it keeps | operations | module |
|---|---|---|---|---|
| Call orchestrator | `core/src/calls.ts` | active calls: ladder, cursor, pass, who rings, who refused, timers | place, answer, decline, ended, dropped, cancel | `CallOrchestrator`, `CallPromise` |
| Ladders and targeting | `core/src/server.ts`, `protocol/src/rbac.ts` | none: pure | sanitize a policy or a targeting, who may receive, who is awake, rank, build the rungs | `Targeting`, `Ladders` |
| Delivery | `server.ts`, `client.ts`, `web/src/app.ts` | alerts, cursors, snoozes, retries, frames in flight | notify, deliver, replay, ack, sync, snooze, resolve, action | `Delivery` |
| Sessions and guard | `core/src/session.ts`, `guard.ts`, `server.ts` | per connection: nonce, state, timer; per address: counts, bans; codes; devices | admit, pair, auth, promote, close, revoke, stop, start | `Sessions` |
| Store | `core/src/store.ts` | a document, an append-only log, and the memory both are written from | push, touch, resolve, flush, drain, compact, open, reopen, close | `Store` |
| Flood control | `core/src/flood.ts` | per key: window, count, suppressed | admit, flush, release | `Flood` |
| Watchdog | `core/src/watchdog.ts` | per name: last seen, missing; a sweep | expect, checkIn, forget, sweep, restore | `Watchdog` |
| Rights | `rbac.ts`, `server.ts` | roles, members, codes, tokens, each session's copy of its role | admin operations, pairing, revocation | `Rights` |
| Web Push | `core/src/webpush.ts`, `web/src/app.ts` | the VAPID key, a cached header, subscriptions, requests in flight | register, push, subscribe | `WebPush` |
| HTTP ingest | `core/src/ingest.ts`, `server.ts` | tokens, their limiters, the address's failures | a request, mint, revoke | `Ingest` |
| Remote publisher | `core/src/remote.ts`, `client.ts` | one cached attempt to connect | connect, establish, send, disconnect | `Remote` |
| Client | `protocol/src/client.ts` | socket, status, credentials, timers, the local watchdog | connect, pair, resume, handshake, disconnect | `Client` |
| Source manager | `protocol/src/sources.ts` | one client per hub, the list in the storage | load, add, remove, enable, connect | `Sources` |
| Phone: calls | `mobile/src`, its Kotlin module | call on screen, ringer, notification, queued taps, held declines, speech | call, cancel, taps, answer, decline, hang up | `PhoneCall` |
| Phone: watching | the same | the choice to watch, the service, its alarm, the notice | start, stop, alarm, boot | `PhoneWatch` |
| Desktop: calls | `desktop/src` | active call in the main process, what the window shows, rings and reads | answer, decline, hang up, speech | `DeskCall` |
| Dashboard: calls | `web/src/app.ts`, `speech.ts` | the call on screen, whether it was picked up, the tone, the voice | call, cancel, answer, decline, revoked, a lost hub | `WebCall` |
| Directory and backups | `store.ts`, `backup.ts`, `cli/src/bin.ts` | who claims the directory, the files in it, a restore | open, start, stop, close, export, import | `DataDir` |
| Credential files | `cli/src/storage.ts`, `desktop/src/main/storage.ts`, `remote.ts` | a document of private seeds | load, set, remove, get | `Credentials` |

How they interact. The hub is one JavaScript thread: frames, timers, close events and API
calls are handlers that run to their next `await`. Inside a handler, `emit` runs the
application's listeners synchronously. The server owns sessions and calls the guard on
admission and closing, the store on every change worth keeping, flood control before
delivering, and the orchestrator for calls; the orchestrator talks back through `emit` and
through the `send` of the sessions it captured. The watchdog publishes through flood control.
Devices talk to the hub in frames that may be late, duplicated or lost with their socket; a
phone's or a desktop's call is the last leg of the orchestrator's ladder.

What is hard, and what must hold:

* **calls**: refusals, timeouts, lost phones, late answers and cancellations in any order,
  including from inside the orchestrator's own callbacks. One outcome per call; never two
  rungs ringing; never a call without a timer; no phone ringing for a call that is over.
* **sessions**: signature checks are awaited, and the socket may close meanwhile. Connection
  slots are released once; a closed session never comes back; a code pairs one device.
* **delivery**: live pushes race replays, acknowledgements and retries; a snooze holds alerts
  back and must give them all back; a device's cursor must not pass an alert it never got.
* **store**: crashes between a change and its write, writes that fail, sequence numbers that
  must never be handed out twice.
* **client**: connection attempts, pairing, expiry of credentials and reconnect timers
  overlap; status must not latch in a state nobody leaves.
* **watchdog, flood**: a beat racing the sweep that reports its absence; a window's summary
  counts each suppressed alert once.
* **rights, ingest, push**: operations that are each harmless compose; what was read before an
  `await` is used after it; a push service answers about a subscription that is gone.
* **directory**: several hubs over one directory, each of which writes the whole document, and a
  restore of several files that a hub may start in the middle of.
* **phone, desktop, dashboard, files**: two runtimes in one process, either of which may end at any
  moment; messages between processes that name no call; a document rewritten by programs that crash.

## 2. Plan

1. `CallOrchestrator`, its abstract specification `CallPromise`, and proofs. *Done.*
2. `Delivery`: notify to cursor, with sockets that close between any two steps. *Modelled and
   checked.*
3. `Sessions`, `Store`, `Flood`, `Watchdog`, `Rights`, `WebPush`, `Ingest`, `Remote`, `DataDir`: the
   rest of the hub. *Modelled and checked.*
4. `Client`, `Sources`, `PhoneCall`, `PhoneWatch`, `DeskCall`, `WebCall`, `Credentials`: the devices.
   *Modelled and checked.*
5. `Targeting`, `Ladders`: the functions that decide who a call rings. *Modelled, checked against
   reference definitions, and the source of the ladders of step 1's runs.*
6. Proofs: every invariant and action property of the passing runs, component by component. *Done.*
7. Still to write: an abstract inbox (each alert owed, then shown or excused, never forgotten) for
   Delivery to refine, and the safety part of the other promises that are now checked under fairness.

Compositions. Ladders with the orchestrator; Delivery with the client's cursor and the source
manager's catch-up; the watchdog with flood control; admission, handshake, pairing, bans, the
device registry and the hub's stop and start in `Sessions`. `MCUpkeep` and `MCLink` put modules
that share no state beside each other in one run (section 4).

## 3. What is modelled

In every module an action is a handler up to its next `await` (or, where a listener may cut in,
its next `emit`), its guard the conditions and early returns of the code. A `history` variable
records what happened for a property to speak about; no action reads one.

### CallOrchestrator (`calls.ts`, the server's `closeSession` and `promote` as far as calls go)

| state | code |
|---|---|
| `active`, `ladder`, `repeat`, `cursor`, `pass`, `attempted`, `declined`, `ringing`, `answeredBy` | the fields of `ActiveCall` in the orchestrator's map |
| `timer` | the call's one timer slot: the pause before a rung, or the rung's ring time |
| `reaper` | the 15 minute timer of an answered call |
| `outcome` | what the promise of `place()` resolved to |
| `frame` | the JavaScript stack: where the running handler resumes after an `emit` |
| `sweep` | the rest of `dropped()`'s loop |
| `online`, `bound` | `byDevice`, and the sessions whose `send` the ladder captured |
| `screen`, `refusals` | history: phones told to ring and not told otherwise; refusals per pass |

Each method is an action, cut at its emits because the application's listener runs there
and may call `cancelCall()` (`ListenerCancel`). `Quiet` says no handler is running: timers,
frames and closes wait for it, as they do in Node. The order of targets within a rung, wording
and seconds are left out, as is `vanished`, which nothing reads. A listener that places a call
from inside an emit is not modelled.

`CallPromise` is what a caller is promised: a call is placed once, and settles once, with an
answer only by a device that was rung. `KeepsPromise` is the refinement.

### Targeting and Ladders (`rbac.ts`, and the functions of `server.ts` that build a ladder)

Pure functions. `Targeting` has the walk of `globMatch()` as a recursive function over both
positions and the last star, `channelMatches()` with its exclusions, `inQuietHours()`,
`matchesTargeting()`, `sanitizeTargeting()` and `canDeliver()`. A list of a restriction is
absent, a list, or something that cannot be read. `Ladders` has `sanitizePolicy()`,
`callTargets()` with its ranking of devices, and `buildLadder()` for broadcast, escalation and
policy. A quantity is a clamp of what came in; device names are compared as values, their case
being folded before. `LadderOf` is what `CallOrchestrator` runs.

### Delivery (`server.ts`, with `client.ts`, `sources.ts` and the page of `web/src/app.ts`)

| state | code |
|---|---|
| `log`, `expired`, `resolved`, `taken` | the notifications of the store; a sequence number is an index |
| `waiters`, `attempts` | `ackWaiters` and the count in each retry closure |
| `cursor`, `snoozed`, `held` | `ackedSeq`, `snoozedUntil`, `snoozeHeldFrom` of each device record |
| `sock`, `snap` | each client's session, and `snoozedUntil` in that session's copy of the record |
| `down`, `up` | frames in flight |
| `mine`, `feed`, `cleared`, `nap` | the client's `ackedSeq`, what it shows, and what its catch-up timer waits for |
| `fan` | `deliver()`'s loop: the order in which sessions are visited changes what stale copies do |
| `overnaps` | snoozes that have run out: `Date.now()` has passed them |
| `filed` | the marks `resolved` and `taken` as the history file has them |
| `withheld`, `cut`, `omitted`, `acked`, `fired`, `forgotten` | history; `cut` is what was withheld and went with its socket, `forgotten` counts new processes that found no record of a press |

A session works from its own copy of the device record. `Refreshed` is the assignment that
brings every session of a device up to date, made by `markSnoozeHeld`, `handleSync` and
`touchDevice`; `handleSnooze`, `handleAck` and `promote` refresh one session. `touchDevice`
runs before every frame but is throttled, so a handler starts from either copy (`Touched`).
`held` needs no copy of its own: every write of it refreshes every session.

A socket is open, lost (half-open: both sides write into nothing) or closed. Losing it loses
what is in flight. A restart ends sessions and retries; the next process has the marks of memory, if
it was an orderly one, or those of the file. `touchHistory()` rewrites the file with a press or a
resolution, and that write may fail or be cut off by a crash, so the two may differ until `Compact`.

Simplifications: calls share the sequence numbers of alerts, which only leaves gaps; rights are
the set `to` of an alert, fixed when it is published; client and hub agree on when a snooze
ends; a frame acknowledges one alert; the session of a client that reconnects replaces its
half-open one; `awake()` only affects the returned `reached` and Web Push.

### The hub beside its deliveries

| module | state and the code it stands for |
|---|---|
| `Sessions` | `tracked`, `state`, `socket`, `nonce`, `promoted`, `device`, `alive`: a `Session` and its ws; `byDevice`; `slots`, `unauth`: the Guard's counts; `ban`, `code`, `status`: records of the store; `failing`: answers that `uniformDelay` holds back. A pair or auth frame and the rest of its handler are one step, since `verify()` settles in the same turn of the event loop, with the things that can come between as a choice (a second frame of the same chunk, an error of the socket). |
| `Store` | `up`, `closed`, `timer`, `dirty`, `flushing`: the store's life and where `flush()` is; `seq`, `cache`, `queue`, `lines`, `written`: its memory; `doc`, `log`, `torn`, `junk`: what is on the disk, with a line cut short at its end and lines that swallowed another. A flush is cut at each of its writes, an append may stop in the middle, any write may fail, and a process may die between any two. The audit log is drained as the history is and is left out. |
| `Flood` | `window` per key: open or not, its age, what passed, what is held; `tally` is history. A key doubles as the `resolveKey` of its alerts. |
| `Watchdog` | EXTENDS `Flood`. `hub`, `beat` (registered, missing, time since last seen), `sweeper`, `todo` (the rest of the sweep's loop). Time passes in ticks once what is due has fired. `quiet` is history: the alarms of the silence under way that a window holds, and that its summary told of. |
| `Rights` | `roles`, `member`, `codes`, `tokens`, and `session`: the copy of its role each live session has; `given` is history. |
| `WebPush` | `mem`, `saved`: the key and the device's endpoint in memory and on disk; `header`; `requests`; the page: `link`, `wire`, `offered`, `sub`, `runs`. |
| `DataDir` | per hub: `life`, and the claim as it reads, writes and judges it (`found`, `shared`); `owner`, `storeFile`, `logFiles`: the disk; `document`: the identity each store holds; `backup`, `restore`: a backup at hand and where an import is. A claim is read and written in two steps, an import checks and writes in several. Two hubs whose claims cross cannot know of each other (`blind`), nor can a hub know of one whose claim was replaced by a hub that has gone since. A process is a value: no pid is reused. |
| `Ingest` | `records`, `recordsOnDisk`, `request` (arrived, waiting for the body, for a call, for its delay), `limiter`, `powers`, `charged`. |
| `Remote` | `ready` (the cached promise), `attempt` (where each `establish()` is), `channel` (the client's socket), `sender` (what each caller awaits), `coded`, `enrolled`, `meant`. |

### The devices

| module | state and the code it stands for |
|---|---|
| `Client` | a `NotifyClient`: `wanted`, `status`, `stored`, `creds`, `code`, `rejected`; `opening`, `sock`, `live`, `signing`: its sockets and what it awaits; `retry`, `deadline`, `keepalive`, `watch`, `hold`: its timers; `missing`; `probing`: answers of `isOnline()` it awaits. `live` counts sockets whose handlers are still attached, `orphans` those among them that the client dropped without `abandon()`, as it does a wrong hub's: their frames are received until they close. `cast`, `stirred`, `spurious`, `silent` are history. Admin calls are in `Remote`. |
| `Sources` | `sources`, `index` and `keys` in the storage, the `client` of each source, `strays` (clients that left the map and may still open a socket), `todo`: operations in the middle of an await. |
| `PhoneCall` | `process`; `notes`, `ringing`, `taps`, `launch`: Kotlin's; `ready`, `declines`, `active`, `answered`, `screen`: JavaScript's; `asked`, `speaking`, `settled`: speech. `inbox` is a hub's frames, `rung` what the hub makes of the phone. |
| `PhoneWatch` | `isWanted`, `noticeFlag`: `WatchState`; `alarm`, `notice`, `commands`, `service`, `receiver`, `booting`: Android's; `js`, `should`, `watching`, `task`: `hub.ts`. |
| `DeskCall` | `deskCall`, `deskAnswered`: the main process; `shown`, `ring`, `answering`, `readingOut`, `run`: the window; `toPage`, `toMain`: messages on their way. |
| `WebCall` | `webCall`, `pickedUp`, `tone`, `reading`, `stale`: the tab's screen, its ring, the call being read out and the runs of Answer that were superseded; `tab`, `session`: the two ends of the socket; `toTab`, `toHub`: frames on it; `placing`: what the hub makes of each call. One tab, whose preferences are fixed, and which a hub rings once for a call. |
| `Credentials` | `file`, `tmp`, `aside`: what is on the disk; `program`: where each process is in `mutate()`. |

What Android, the push service, a browser and a hub may do to these is at its worst within what
their documentation says, and is marked external in `PROJECT.json`.

## 4. Runs

Passing runs, each with one fault of the code per property that makes it fail (`PROJECT.json`
"mutants"; a fault is an operator `X_Fault` beside the `X` it replaces):

| run | instance | shows |
|---|---|---|
| `calls_one` | one call, two devices, the ladders built for six shapes of call and policy, one repeat, fair | silence once settled, unanimous refusals and the refinement of `CallPromise` over every shape of ladder; the call settles and its record is released |
| `calls_two` | two calls, two devices, a listener that cancels | timers, rungs and promises stay in order where calls share devices and handlers are re-entered |
| `delivery_core` | two tabs of one device, three alerts with buttons, history of two, replay of one; a drop, a restart that may find no record of a press | no alert passed over; a button acts once, and once more only for a process that found no record of it |
| `delivery_snooze` | three alerts, a snooze that may be lifted early, a lost socket, fair | what was held stays noted until it is on its way, and is asked for; the one way out is a socket that goes with the hand-over on it |
| `delivery_live` | two devices, one that may not acknowledge, an alert with a ttl, a retry, a resolution, fair | arrival, and the end of nagging, at once when an alert is settled |
| `hub_sessions` | two connections of one address, one device, a code of one use, two failures to a ban, fair | slots, presence, code uses and bans add up; a revoked device is not served; handshakes and half-open sockets end |
| `hub_upkeep` | one of seven parts, see below | numbers, alerts, timers of the store; silence noticed, one alarm; nothing lost in a flood window; no escalation; a browser that can be woken; revoked tokens; no useless cached connection; hubs that share a directory, restores |
| `device_link` | one of seven parts, see below | a way back to the hub, a true alarm; the list of hubs; refusals, rings and watching on a phone; the desktop's ring; the dashboard's; private seeds |

`MCUpkeep` has the parts `store`, `watchdog` (with flood control), `rights`, `push`, `ingest`,
`remote` and the directory; `MCLink` has `client`, `sources`, `call`, `watch`, `desk`, the dashboard
and `file`. The parts of one run
share no variable of the code, so the first state chooses one and the others rest: the union of
their behaviours, not a product in which every pair of unrelated steps is reordered.

`MCCallOrchestrator` also evaluates two assumptions. `GlobIsRight`: the walk of `globMatch()` agrees,
for every pattern and value up to length four, with the meaning of a pattern (each `*` stands for
some stretch). `LaddersAreRight`: for every pair of sockets, role, severity, targeting, hour and
shape of call, a ladder names exactly the devices that are there, awake and entitled, each once on a
rung; broadcast and escalation name the same; a policy never widens the call.

Types. Each module states the shape of its state (`TypeOK`, or its name before it). The cfgs do not
list these: TLC finds none of them violated in the configurations above, and in the modules with
proofs they are theorems (`TypeCorrect`) or part of the inductive invariant.

Runs that reproduce a disagreement between the code and what the repository says of it
(the line each contradicts is quoted in `PROJECT.json` "findings"):

| run | what happens |
|---|---|
| `delivery_passed` | reconnecting while snoozed: the replay skips what the snooze holds without noting it; the next critical alert moves the cursor past it |
| `delivery_dropped` | a snooze ends, its client asks, `handleSync()` forgets what was held, and the socket goes before the frames arrive: the cursor is past the alert, moved by a critical one that was acknowledged meanwhile, so no replay finds it again |
| `hub_ghost` | a socket that fails between a frame and its verified signature is promoted after it was closed, and stays online until the hub stops |
| `client_alarm` | every close arms the deadline anew, so a hub that refuses each reconnect never raises the alarm |

Bounds. One or two of everything that can collide: two devices share a rung, two calls share
a device, two sessions share a device record, two sockets share an address, two hubs ring a phone,
two programs share a file, two hubs a directory with one
log, two calls a tab. One repeat reaches every branch of the ladder's wrap-around (refusals
cleared, `attempted` kept). Three alerts against a history of two and a replay of one reach an
alert forgotten, one omitted and one shown; an early alert held, a later one held, and a critical
one in between need three. `MaxRetries` and `MaxWaiters` stand for 20 and 500: at 1, the ceiling and
the cap are both reached. In the store three numbers against a history of one reach a rewrite, a
compaction and an append to what each left. A burst of one and one window reach the coalescing and
the cap on windows; three occurrences, a summary with a remainder. Four subscriptions are a good
one, its successor, one the hub refuses and one whose keys are no use. Two requests of one token
are enough for either to act on what the other changed. Three attempts of a remote publisher are the
one under way, one left behind by `disconnect()`, and one that replaces it. A deadline of two ticks
and a farewell of three let each end first. One socket of a wrong hub at a time (`StrayLimit`) still
meets every state of the client's next one; two answers of `isOnline()` awaited at once
(`ProbeLimit`) are one that was overtaken and one that was not. Two taps fill the queue of a phone. `Limit`,
`MaxPending`, `MaxLevel`, `CommandLimit`, `PressLimit`, `MaxTabs` and `MaxOut` bound what people,
networks and operators do, not what the code does. `CHECK_DEADLOCK FALSE`: with those events spent
and every frame handled, the system rests.

Fairness. A JavaScript handler that was entered finishes (`WF` on its continuation), an
armed timer fires (`SF` for calls, since a timer waits for the thread to be free, which it is
again and again; `WF` in Delivery and Sessions, where the thread is eventually left free), an open
socket carries its frames, a closed one says so, and a client without a socket connects again.
Nothing is assumed of people, of the application, of networks or of ttls. `hub_upkeep` and
`device_link` check safety only and assume nothing.

## 5. Seen while modelling

Each of these is a behaviour of the code that the models have, or had to be told to excuse. They
have no run of their own; where a property excuses one, its comment or the model says so.

* **Calls.** A listener that cancels a call from its `call` event lets the interrupted handler go
  on ringing (`calls.ts:159`); a rung rings a device that left since the call was placed. A
  restriction of a policy's rung that is empty or cannot be read becomes no restriction
  (`server.ts:3413`, `3432`), where `rbac.ts:94` calls widening "the wrong way to fail".
* **Delivery.** What a snooze held is forgotten as the sync is handled, before any of it has arrived
  (`server.ts:2419`): a socket that goes then may take it for good, although "a snooze holds alerts
  rather than dropping them" (`server.ts:2413`). `HeldWithinReach` excuses exactly this (`cut`), and
  `delivery_dropped` shows that the alert is then lost for good. A button whose press
  could not be filed (a failed `touchHistory()`, a crash before it) is available to the next process
  once more, where `server.ts:2246` says that recording it on the notification prevents that; `ActsOnce`
  allows one press for each process that found no record (`forgotten`). A device that was away shows a resolved alert as open (`server.ts:427`); a button
  pressed on a snoozed device is ignored (`server.ts:2191`); a sync sent while another tab of the device snoozes again works
  from an old copy of the record, so it forgets what the first snooze held and the new one filters the
  replay (`server.ts:2417`); the catch-up sync may go into a
  dead socket and is not sent again (`sources.ts:473`); a second session of a snoozed device keeps
  receiving until its copy is refreshed (`server.ts:2400`); re-delivery ends at its ceiling, its cap
  or a restart before anybody acknowledged (`server.ts:2850`); a snooze sent before `ready` is
  overwritten by it (`web/src/app.ts:656`; `EarlySnoozes` admits it, and `delivery_snooze` does not
  set it, since its liveness fails with it).
* **Store.** A crash before the first write of an alert hands its number out again, though a device
  may have seen it; a record that could not be edited in the log is not tried again; the line after
  a torn one is lost (`store.ts:44` says otherwise); `reopen()` arms no timer for what a failed final
  flush left; a second store on the same directory takes the first one's claim with it.
* **Flood, watchdog.** A summary carries no `resolveKey`, so a recovery does not take it down: a
  'No check-in' that a window held back stays up as part of its summary, or comes up with it after the
  recovery, where `server.ts:366` says that the recovery clears the alert "from every screen".
  `AlarmMatches` says so: of a heartbeat that is back nothing is up under its key, and what lingers is no
  more than flood control held back. `forget()` leaves an alarm standing; a
  crash between the resolution and the saving of a heartbeat leaves it missing with no alert up.
* **Web Push.** A late 404 or 410 about an old endpoint clears the newer one (`server.ts:272`).
* **Ingest.** A request whose token is revoked while its body is awaited still publishes
  (`server.ts:1486`, `1496`); requests at once each write `lastUsedAt` from their own copy.
* **Remote, credentials.** After `disconnect()` and `connect()` the first attempt's end clears the
  second's promise, so the work is done twice (`remote.ts:77`), and an attempt that outlives
  `disconnect()` opens its socket all the same. The third copy of the credential storage has no guard
  against a file that could not be read (`remote.ts:289`); two programs that change the file at once
  lose each other's keys; a damaged document that cannot be moved aside is written over.
* **Client, sources.** A signature for a hello of an earlier socket is written to the new one, and
  the refusal latches `rejected` (`client.ts:344`, 718), which `WayBack` cannot tell from a refusal that was
  meant. A wrong hub's socket is closed and dropped without `abandon()` (`client.ts:543`): until it has
  closed, its `ready`, refusal or `revoked` is received like the current hub's, although line 531
  refuses to talk to it, and a refusal or a revocation by it stops the client as
  well, which `WayBack` excuses too. A second `hello` or a `paired` from such a socket is not modelled.
  Nobody looks again once `isOnline()` has answered (`client.ts:1011`), so the alarm is raised though
  a frame or a `bye` came while the answer was awaited, or the application disconnected: `AlarmIsTrue` speaks of
  every other alarm (`spurious`). `disconnect()` while `connect()` reads the storage does not keep
  the socket from opening; a removed source may keep one (`sources.ts:13`); an `add()` cut short by
  the end of the application leaves a source without keys.
* **Phone.** Answering a superseded call's notification is never told to its hub; speech is started
  asynchronously and stopped at once, so a hang-up before it starts does not stop it; a decline of a
  call whose hub has just disconnected is dropped; `start()` resets the record of the notice before
  it may be refused, so the notice is posted again at each alarm (`WatchAlarm.kt:112`); JavaScript
  notes that it is watching before `startWatching` may throw (`denied` excuses it).
* **Desktop.** Answer and Decline name no call, so one pressed as another call replaces it acts on
  that one (`desktop/src/main/hub.ts:128`); with speech off the end of a run resets another's ring
  (`renderer/index.ts:90`); a call that arrives while the window loads is shown and does not ring.

## 6. Proofs

Eight modules hold theorems. They assume only the named assumptions of the modules they extend
(`ConstantsAssumption`, `SessionConstants`, `RightsConstants` and their like), which TLC evaluates in
the runs, and, where it is said below, a hypothesis of their own. Every theorem is `Inv => property`
and `PTL` over an inductive `Inv`, of which `Init` is a lemma and each action, or each group of
actions that does the same to it, another.

| module | what it proves, and what is inductive |
|---|---|
| `CallOrchestrator_proofs` | six properties of the ladder and the refinement; `IInv` |
| `Delivery_proofs` | `OneActionPerButton`, `SettledIsLeftAlone`, `NothingIsPassedOver`, `HeldIsNotDropped`; `ActInv`, `NagInv`, `PassInv`, `HeldInv` |
| `Sessions_proofs` | `NoUseIsLost`, `SessionsAreCounted`, `RevokedAreOut`, `BansAreServed` |
| `Store_proofs` | `NumbersStayFresh`, `LogHasNoDoubles`, `NothingStaysUnwritten`; `StoreInv` |
| `Access_proofs` | of `Rights`: `NothingIsEscalated`, `SessionsAreCurrent`; of `Ingest`: `RevocationIsFinal` |
| `Upkeep_proofs` | of `Flood` and `Watchdog`: `EveryAlertIsCounted`, `NoSilenceIsOverlooked`, `AlarmsAreTrue`; of `WebPush`: `PagesCanBeWoken`; of `Remote`: `NoUselessConnect`; of `DataDir`: `OverlapsAreSaid`, `RestoresAreWhole` |
| `Device_proofs` | of `Client`: `AlarmsTellOfSilence`, `ThereIsAWayBack`; of `Sources`: `TheListIsKept`; of `WebCall`: `TheTabRings`; of `Credentials`: `SeedsAreKept` |
| `Phone_proofs` | of `PhoneCall`: `RingsCanBeAnswered`, `DeclinesAreHeard`; of `PhoneWatch`: `TheWatchGoesOn`; of `DeskCall`: `TheRingFollowsTheCall` |

**Calls.** `CallOrchestrator_proofs` proves, for any calls, devices, ladders, repeats and with or
without a cancelling listener: `TypeCorrect`, `NoCallIsStranded`, `RungsRingInTurn`,
`DeclinesAreUnanimous`, `SettledCallsAreSilent` (without a cancelling listener) and `PromiseKept`, the
refinement of `CallPromise`. The properties are not inductive. A
decline may climb the ladder only because the rung it belongs to is still in `ringing`; that is
so only because timers are cleared whenever a call leaves the map; and the continuation in
`frame` may touch a call only because of what held when the handler was entered. `IInv` collects
these: `TypeOK`; `Life`, what the map, promise, timer and reaper of one call may be together,
including at each point of `frame`; `OnRung`, who may be in `ringing` given the cursor;
`OnScreen`, whose phone rings; and `Refusals`, that `declined` is exactly what was refused in
this pass. There is one lemma per action, one for `Init`, and `NextGood` assembles them; each
theorem is then `IInv => property` and `PTL`. The refinement shows each action is a step of
`CallPromise` or leaves `outcome` alone.

**Sessions.** `NoUseIsLost` (`CodeUsesAddUp`) holds of every hub; `SessionsAreCounted`
(`SessionsAddUp`: slots and presence) and `RevokedAreOut` assume `ErrorsInFlight = FALSE`, and
`hub_ghost` shows why. A slot is returned once because `Standing` says that whoever is still in its
handshake or served is tracked, and that one in its handshake is counted as such and has no device;
the counts themselves are cardinalities of sets that are finite because `tracked` grows by one at a
time. A revoked device is out because presence is real: revoking closes exactly the sessions it has.
`BansAreServed`, an action property, needs no such assumption: a failure can only raise the level,
which saturates, and a success clears the whole record only if the level is nought and no ban runs.

**Delivery.** `OneActionPerButton` (`ActInv`: what fired is paid for by the record of it, or by a process
that found none) and `SettledIsLeftAlone` (`NagInv`, which also bounds what the file can mark) hold as they
stand. `NothingIsPassedOver`
assumes `NoSnoozes` (the budget of snoozes is zero), since `delivery_passed` shows that a snooze breaks
it; drops, restarts, expiry, resolutions, several clients of a device and replays cut to a limit are all
in it. A cursor moves by acknowledgements, which are themselves on their way: so `PassInv` says, of
every alert that is due to a device (`DueTo`: it could see it, was not shown it, and nothing excuses
that), that each of its open sockets carries it (`Whole`), that no frame ahead of it carries a later one
(`InTurn`), that no acknowledgement on its way is past it (`Answered`), that no screen has read past it
(`ReadThrough`), and so that no cursor is (`Behind`). Half of the lemmas are about lists of frames; the
rest show that a replay, which hands over the oldest of what is left, and `deliver()`'s loop keep all
five. `HeldIsNotDropped` assumes `OneClientEach`: with two tabs, one that snoozes again while the
other syncs from its old copy of the record drops what was held (section 5). What `HeldInv` adds is
that a session's copy is up to date where it is the only one (`Fresh`), that nothing is on a socket that
is gone (`Dry`), and that what was withheld is still noted, on its way, shown or excused, or
was on the wire when a socket went (`cut`), the case that `delivery_dropped` exhibits.

**Store.** Each of the three lists rises, what is queued is past what the log holds, memory is past
both, and what is safe is in the document or on the last line of the log. Compaction replaces the log
by a cache that holds all of its numbers; a torn line can only be the last; a rewrite that fails
leaves a log that holds what it held. `Pending` has the timer's side of it: what is left unwritten at
the end of a flush, which of its steps failed notwithstanding.

**Flood and watchdog.** An occurrence is sent or counted as held, and a window that closes tells of
what it held. That no silence is overlooked needs a clock: `InTime` says that a heartbeat the last sweep
left alone was in time then, and has aged since by no more than the interval; `AlarmsAreTrue` needs
that the alert and the recovery of two heartbeats never share a key, which is an assumption of the
module. Its `Alarmed` follows each alarm of the silence under way from the sweep to the screen, to the window
that holds it (`Fits`: the window holds at least that many) and to the summary that tells of it (`Told`); the
bound on what a recovery leaves behind comes from the flood invariant, by which no summary tells of more
than was held back.

**Web Push.** A key that was lost was never saved, and is not used again; so the hub's key is its
latest, and nobody knows a later one (`LatestKey`). A run under way removes only subscriptions bound to
an earlier key (`RunsLookBack`), and what the hub has, or will have read last, about a page's
subscription is the present one, unless a run has still to see to it (`Subscribing`).

**Directory.** Of two hubs with claims one knows of the other, or neither could (`Aware`); what each
knows it says when it starts. For restores, `Clear` says that no file still to be written is there,
unless one appeared since the import looked, and `Sole` that nobody who could be known of holds the
document while it does, and that afterwards those who hold it have the identity of the backup.

**Remote.** `NoUselessConnect`. What is inductive (`Cached`) speaks of the cached attempt while it is
under way as well: once it has asked, its client is meant to be connected; once it has a socket,
there is one or a way to one; and attempts that `disconnect()` left behind change neither.

**Client.** A watch that runs will not ring before the hub has been silent for the deadline, and of the
answers of `isOnline()` that are awaited, those not overtaken (`stirred`) were asked for in a silence that
still lasts (`Fair`). So an alarm is true unless it was raised on an overtaken answer, whether or not the
application answers `isOnline()`.
`ThereIsAWayBack` holds for every client; one made not to reconnect is excused by its property. `Ways` says when the deadline, the keepalive or the reconnect timer is
due; it rests on `Enrolments` (who is enrolled has no pairing under way, who is told to pair has nothing
to come back with) and on `Signatures` (at most one is for the hello of the present socket), since a
signature that returns late is written to whatever socket there is.

**Sources.** `TheListIsKept`: from the moment that the list was read, what is stored is what is held
(`InStep`), since each operation persists before its first await; before that moment nothing is under way,
so nothing stores a list that was not read.

**Dashboard.** Frames in flight carry the proof. A call is announced once (`Firsts`); a call still
announced on the wire rings, or its cancel comes later on it (`Cancels`); a call that rings is on
its way, on the screen and sounding, or its answer is on its way back (`Rings`); and one that was answered
is read out until the frame that ends it is on the wire (`Answers`). `TabRings` is what is left of these
when both directions are empty.

**Phone.** Of `RingsCanBeAnswered`: a call that was answered, tapped or opened is `Past`: its frame
has been handled and it does not ring. That is for good because a hub announces a call once
(`Once`) and only `GetsCall` starts a ring, so no step can make a ring out of a call that was
answered; and the call on screen is `Known`, so it does not come back once its screen closed it.
The lemmas on inboxes (`Arriving`, `Taking`, `Leaving`) and on the queue (`Queueing`,
`AnswerTapped`) carry this through the sequences. `DeclinesAreHeard`
adds that a call is tapped once (`DeclineInv`), so that a refusal in the queue is not overtaken, and that
calls only go on (`Onward`). `TheWatchGoesOn`: the choice to watch is recorded before the start is asked
for, and the choice not to before the stop; so a stop still to be heard of a phone that is to watch was
followed by a start, or by a refusal that the notice tells of (`Standby`).

**Desktop.** `TheRingFollowsTheCall`: the last message to the window that names a call names the one
the main process holds, and each ring is preceded by the screen it belongs to (`Latest`); so when the
window has read them all it shows that call. It rings for it (`Sounds`) unless the call was answered or
a press is on its way that will answer or decline whatever is held by then, since a press names no call.
A run of `answer()` that ends may reset the ring only of its own call, and if that is the one held, its
press was heard (`Heard`). That nothing is read out once all is quiet follows from `Awaits`: each run
awaits one invocation, one reply or one voice, so none ends with its voice still reading.

**Rights.** `NothingIsEscalated` says that no chain of role edits, re-rolings, codes and tokens adds
up to a privileged capability nobody in authority handed out, for any devices, role names and
capabilities. `NoEscalation` speaks of devices, sessions and tokens; what is inductive speaks of
roles: `RolesAreGiven` (every role's privileged capabilities, `admin` apart, were given), `AdminIsGiven`
(a role with `admin` that a device other than the first administrator, a code or a token points at
means that `admin` was given), and `SessionsAreCurrent`, a theorem too: without it a
stale session could spend rights its role has lost. `GivenIsEnough` derives the property.

**Ingest.** `RevocationIsFinal`: once a revocation is written no request brings the token back,
though a request writes to the record after its body arrived, by what it read before. `RevokedIsFinal`
with the shape of the state (`IngestShape`) is inductive: the write touches `lastUsedAt` alone.

**Credentials.** `SeedsAreKept`: short of perils, every seed stored and not removed is on the disk.
The property alone does not survive a rename. `Careful` adds that there is one writer (`OneWriter`),
that what it is about to write holds every seed that is not set aside (`Carried`), and that the
temporary file is its own by the time it is renamed (`OwnTmp`); each is lost with the first peril.

Left to TLC: every liveness property and every property under fairness, out of the prover's reach;
the pure functions of `Targeting` and `Ladders`, whose reference definitions are compared by
evaluation; and the properties of the runs that expect a violation. Every other invariant and action
property of the passing runs is a theorem.

## 7. Not modelled

`PROJECT.json` "components" lists every part with its status, and "hazards" what is delicate in
each. Left out, with the reason:

* **options, metrics, QR**: validation of numbers, counters and drawing, each a function of its input
  with no order of events.
* **wire format and cryptography**: encodings and primitives. The models use only whether a
  signature verifies, a frame parses and a code expands to its fields.
* **command line**: arguments, processes, certificates and updates. Its export and import are in
  `DataDir`, what it stores in `Credentials`.
* **crash reporting adapters**: one publication raced against a timer.
* **rendering**: the dashboard, the desktop's feed, tray and settings, the phone's screens. What
  of them decides when something is acknowledged, shown once, rung or silenced is modelled.
* **Web Push encryption** and the choice of urgency and topic; **audit log** lines and the
  wording of errors.
