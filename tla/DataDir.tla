------------------------------ MODULE DataDir ------------------------------
(* The directory a hub keeps its files in, and who opens it: hubs, which     *)
(* claim it when they are built and whenever they start (core/src/store.ts), *)
(* and the command that copies the files out and back in (core/src/backup.ts *)
(* and cli/src/bin.ts).  All are processes of their own, so a claim is read  *)
(* and then written, a restore looks and then writes file by file, and the   *)
(* others move in between.  A claim of a process that is gone counts for     *)
(* nothing and is left out; no pid is given out twice.                       *)
(* Operators named X_Fault are faults of X the properties must reveal.       *)
CONSTANTS
  Hubs,     \* stores opened, each in a process of its own
  NoHub,
  Logs      \* the append-only logs beside the document

ASSUME DataDirConstants == NoHub \notin Hubs

VARIABLES
  life,      \* where each hub is
  owner,     \* disk: whom owner.json names
  found,     \* while claiming: it read the name of a live hub
  shared,    \* sharedWith is set; start() logs it
  document,  \* the identity (serverId) each store holds in memory
  storeFile, \* disk: the identity in store.json
  logFiles,  \* disk: the logs there are
  backup,    \* the backup at hand: its identity and the logs it carries
  restore,   \* where an import is, and whether it was forced
  wrote,     \* history: the files this import has written
  raced,     \* history: a file appeared after it looked for files in its way
  unknown,   \* history: a hub had the directory open that it could not have known of
  trampled,  \* history: an import that was not forced has replaced a file
  blind      \* history: pairs of hubs that could not have known of each other
claimVars == <<life, owner, found, shared, blind>>
importVars == <<backup, restore, wrote, raced, unknown, trampled>>
dataDirVars == <<claimVars, document, storeFile, logFiles, importVars>>

Without(h, S) == {p \in S : h \notin p}
Claimants == {h \in Hubs : life[h] \in {"claiming", "built", "reclaiming", "up"}}
HubHolding == owner # NoHub
Holding == {h \in Hubs : document[h] # NoHub}
NothingAtHand == [id |-> NoHub, logs |-> {}]

DataDirInit ==
  /\ life = [h \in Hubs |-> "off"] /\ owner = NoHub /\ blind = {}
  /\ found = [h \in Hubs |-> FALSE] /\ shared = [h \in Hubs |-> FALSE]
  /\ document = [h \in Hubs |-> NoHub] /\ storeFile = NoHub /\ logFiles = {}
  /\ backup = NothingAtHand /\ restore = [at |-> "idle", force |-> FALSE]
  /\ wrote = {} /\ raced = FALSE /\ unknown = FALSE /\ trampled = FALSE

-----------------------------------------------------------------------------
(* Claims *)

\* claimDirectory(), its two halves.  Who reads no live claim cannot know of the hubs there are.
ReadsClaim(h) ==
  /\ found' = [found EXCEPT ![h] = HubHolding /\ owner # h]
  /\ blind' = IF HubHolding THEN blind ELSE blind \cup {{h, g} : g \in Claimants \ {h}}
WritesClaim(h) == owner' = h /\ found' = [found EXCEPT ![h] = FALSE]

\* The constructor: it claims, then loads the document or makes up an identity.
Construct(h) ==
  /\ life[h] = "off" /\ life' = [life EXCEPT ![h] = "claiming"] /\ ReadsClaim(h)
  /\ UNCHANGED <<owner, shared, document, storeFile, logFiles, importVars>>
Built(h) ==
  /\ life[h] = "claiming" /\ life' = [life EXCEPT ![h] = "built"] /\ WritesClaim(h)
  /\ shared' = [shared EXCEPT ![h] = found[h]]
  /\ document' = [document EXCEPT ![h] = IF storeFile = NoHub THEN h ELSE storeFile]
  /\ unknown' = (unknown \/ restore.at \in {"checking", "store"})
  /\ UNCHANGED <<blind, storeFile, logFiles, backup, restore, wrote, raced, trampled>>

\* start(), once it listens: reopen() keeps what the constructor found.
Begin(h) ==
  /\ life[h] \in {"built", "stopped"} /\ life' = [life EXCEPT ![h] = "reclaiming"]
  /\ ReadsClaim(h)
  /\ UNCHANGED <<owner, shared, document, storeFile, logFiles, importVars>>
SharedAfter_Plain(h) == found[h]
SharedAfter(h) == found[h] \/ shared[h]
Begun(h) ==
  /\ life[h] = "reclaiming" /\ life' = [life EXCEPT ![h] = "up"] /\ WritesClaim(h)
  /\ shared' = [shared EXCEPT ![h] = SharedAfter(h)]
  /\ UNCHANGED <<blind, document, storeFile, logFiles, importVars>>

\* close(), which first writes what it has not, and gives back only its own claim; and a process
\* that ends, whose place a new one may take.
GivesBack(h) == owner' = IF owner = h THEN NoHub ELSE owner
Stop(h) ==
  /\ life[h] = "up" /\ life' = [life EXCEPT ![h] = "stopped"]
  /\ storeFile' \in {storeFile, document[h]} /\ GivesBack(h)
  /\ UNCHANGED <<found, shared, blind, document, logFiles, importVars>>
Die(h) ==
  /\ life[h] # "off" /\ life' = [life EXCEPT ![h] = "off"] /\ GivesBack(h)
  /\ document' = [document EXCEPT ![h] = NoHub] /\ found' = [found EXCEPT ![h] = FALSE]
  /\ shared' = [shared EXCEPT ![h] = FALSE] /\ blind' = Without(h, blind)
  /\ UNCHANGED <<storeFile, logFiles, importVars>>

\* drain() and flush(), of a document that changes all the time
Writing == restore.at \in {"store", "logs"}
Drains(h, l) ==
  /\ life[h] \in {"built", "reclaiming", "up"} /\ logFiles' = logFiles \cup {l}
  /\ raced' = (raced \/ (Writing /\ l \notin logFiles))
  /\ UNCHANGED <<claimVars, document, storeFile, backup, restore, wrote, unknown, trampled>>
Flushes(h) ==
  /\ life[h] \in {"built", "reclaiming", "up"} /\ storeFile' = document[h]
  /\ raced' = (raced \/ (Writing /\ storeFile = NoHub))
  /\ UNCHANGED <<claimVars, document, logFiles, backup, restore, wrote, unknown, trampled>>

-----------------------------------------------------------------------------
(* Backups *)

InProgress == restore.at \in {"checking", "store", "logs"}
Moves(at) == restore' = [restore EXCEPT !.at = at]

\* exportStore(): a log that is not there is empty; one that cannot be read, or no document,
\* is an error.  A running hub is only warned about.
Export(asked) ==
  /\ storeFile # NoHub /\ ~InProgress
  /\ backup' = [id |-> storeFile, logs |-> IF asked THEN logFiles ELSE {}]
  /\ UNCHANGED <<claimVars, document, storeFile, logFiles, restore, wrote, raced, unknown, trampled>>

\* The import command refuses when a hub holds the directory.
RefusesRunning_Never(force) == FALSE
RefusesRunning(force) == HubHolding /\ ~force
Import(force) ==
  /\ backup.id # NoHub /\ ~InProgress
  /\ restore' = [at |-> IF RefusesRunning(force) THEN "refused" ELSE "checking", force |-> force]
  /\ wrote' = {} /\ raced' = FALSE
  /\ unknown' = (Holding \ {owner} # {})
  /\ UNCHANGED <<claimVars, document, storeFile, logFiles, backup, trampled>>

\* importStore(): every target is looked for before any is written,
InTheWay == storeFile # NoHub \/ backup.logs \cap logFiles # {}
ImportChecks ==
  /\ restore.at = "checking"
  /\ Moves(IF InTheWay /\ ~restore.force THEN "refused" ELSE "store")
  /\ UNCHANGED <<claimVars, document, storeFile, logFiles, backup, wrote, raced, unknown, trampled>>
\* and each is written by a call that fails if it has appeared since.
MayWrite(there) == restore.force \/ ~there
ImportsStore ==
  /\ restore.at = "store"
  /\ \/ /\ MayWrite(storeFile # NoHub) /\ Moves("logs")
        /\ storeFile' = backup.id /\ wrote' = {"store"}
        /\ trampled' = (trampled \/ (~restore.force /\ storeFile # NoHub))
     \/ ~MayWrite(storeFile # NoHub) /\ Moves("refused") /\ UNCHANGED <<storeFile, wrote, trampled>>
  /\ UNCHANGED <<claimVars, document, logFiles, backup, raced, unknown>>
ImportsLog(l) ==
  /\ restore.at = "logs" /\ l \in backup.logs \ wrote
  /\ \/ /\ MayWrite(l \in logFiles) /\ UNCHANGED restore
        /\ logFiles' = logFiles \cup {l} /\ wrote' = wrote \cup {l}
        /\ trampled' = (trampled \/ (~restore.force /\ l \in logFiles))
     \/ ~MayWrite(l \in logFiles) /\ Moves("refused") /\ UNCHANGED <<logFiles, wrote, trampled>>
  /\ UNCHANGED <<claimVars, document, storeFile, backup, raced, unknown>>
ImportDone ==
  /\ restore.at = "logs" /\ backup.logs \subseteq wrote /\ Moves("done")
  /\ wrote' = {} /\ raced' = FALSE
  /\ UNCHANGED <<claimVars, document, storeFile, logFiles, backup, unknown, trampled>>
\* A write fails, or the command is interrupted: no more is heard of this import.
NoImport == restore' = [at |-> "idle", force |-> FALSE] /\ wrote' = {} /\ raced' = FALSE /\ unknown' = FALSE
ImportFails ==
  /\ restore.at \in {"store", "logs"} /\ NoImport
  /\ UNCHANGED <<claimVars, document, storeFile, logFiles, backup, trampled>>

\* The directory is lost, or left behind for another machine.
LoseDirectory ==
  /\ ~InProgress /\ \A h \in Hubs : life[h] = "off"
  /\ storeFile' = NoHub /\ logFiles' = {} /\ NoImport
  /\ UNCHANGED <<claimVars, document, backup, trampled>>

DataDirNext ==
  \/ \E h \in Hubs :
       \/ Construct(h) \/ Built(h) \/ Begin(h) \/ Begun(h) \/ Stop(h) \/ Die(h) \/ Flushes(h)
       \/ \E l \in Logs : Drains(h, l)
  \/ \E b \in BOOLEAN : Export(b) \/ Import(b)
  \/ ImportChecks \/ ImportsStore \/ (\E l \in Logs : ImportsLog(l)) \/ ImportDone \/ ImportFails
  \/ LoseDirectory

DataDirSpec == DataDirInit /\ [][DataDirNext]_dataDirVars

-----------------------------------------------------------------------------
DataDirTypeOK ==
  /\ life \in [Hubs -> {"off", "claiming", "built", "reclaiming", "up", "stopped"}]
  /\ owner \in Hubs \cup {NoHub} /\ storeFile \in Hubs \cup {NoHub}
  /\ {found, shared} \subseteq [Hubs -> BOOLEAN] /\ document \in [Hubs -> Hubs \cup {NoHub}]
  /\ logFiles \subseteq Logs /\ backup \in [id : Hubs \cup {NoHub}, logs : SUBSET Logs]
  /\ restore \in [at : {"idle", "checking", "store", "logs", "done", "refused"},
                  force : BOOLEAN]
  /\ wrote \subseteq {"store"} \cup Logs /\ {raced, unknown, trampled} \subseteq BOOLEAN
  /\ blind \subseteq SUBSET Hubs

\* Two hubs that run on one directory "overwrite each other's whole document": one of them said
\* so when it started, however claims, stops, starts and deaths followed one another (sharedWith,
\* reopen, releaseDirectory).  Left out are hubs whose claims crossed, and a hub whose claim was
\* replaced by one that has gone since.
OverlapIsSaid ==
  \A a, b \in Hubs : life[a] = "up" /\ life[b] = "up" /\ a # b =>
    shared[a] \/ shared[b] \/ {a, b} \in blind

\* "A half-done restore is worse than either outcome" (backup.ts:149): an import that was not
\* forced has replaced no file; one that refused has written none, unless a hub created one after
\* it looked; and one that succeeded stays: no hub that it could have known of writes its own
\* identity over the one that the devices of the backup were paired with.
RestoreIsWhole ==
  /\ ~trampled
  /\ restore.at = "refused" /\ ~raced => wrote = {}
  /\ restore.at = "done" /\ ~restore.force /\ ~unknown => storeFile = backup.id
=============================================================================
