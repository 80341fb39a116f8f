------------------------------- MODULE Store -------------------------------
(* The store on disk (core/src/store.ts): a document written through a       *)
(* rename, a log of alerts that is appended to and now and then rewritten,   *)
(* and the memory both are written from.  Any write may fail, an append may  *)
(* stop half way, and the process may die between any two of them.  The      *)
(* audit log is drained and compacted as the history is and is left out.     *)
(* Operators named X_Fault are faults of X the properties must reveal.       *)
EXTENDS Integers, Sequences

CONSTANTS
  MaxSeq,        \* bound on the numbers handed out
  MaxLog,        \* bound: nothing is published while the log file holds more lines
  HistoryLimit   \* limits.history

ASSUME StoreConstants == {MaxSeq, MaxLog, HistoryLimit} \subseteq Nat \ {0}

VARIABLES
  up,         \* a process has the store open
  closed, timer, dirty,
  flushing,   \* where flush() is, "no" when nobody is in it
  seq,        \* data.seq
  cache,      \* historyCache
  queue,      \* historyPending: lines as they were when pushed
  lines,      \* historyLines
  written,    \* something was written in this life of the store, since open or reopen
  doc,        \* disk: the seq store.json holds, or Missing or Corrupt
  log,        \* disk: the lines of history.jsonl that can be read
  junk,       \* disk: how many others there are among them
  torn,       \* disk: a last line has no newline and no end
  safe        \* history: the highest number a crash may no longer hand out again
memoryVars == <<closed, timer, dirty, flushing, seq, cache, queue, lines, written>>
diskVars == <<doc, log, junk, torn>>
storeVars == <<up, memoryVars, diskVars, safe>>

Missing == -1
Corrupt == -2
Line(n, done) == [n |-> n, done |-> done]

Kept(ls) == SubSeq(ls, IF Len(ls) > HistoryLimit THEN Len(ls) - HistoryLimit + 1 ELSE 1, Len(ls))
Highest(ls) == IF ls = <<>> THEN 0 ELSE ls[CHOOSE i \in DOMAIN ls : \A j \in DOMAIN ls : ls[j].n <= ls[i].n].n
Larger(a, b) == IF a > b THEN a ELSE b

\* appendFileSync: a file that ends in a torn line swallows the first of the new ones.
Swallows(ls) == torn /\ ls # <<>>
Appends(ls) ==
  /\ log' = log \o (IF Swallows(ls) THEN Tail(ls) ELSE ls)
  /\ junk' = IF Swallows(ls) THEN junk + 1 ELSE junk
\* What the log holds can be read back: none of its numbers is lost in a crash.
Reaches == safe' = Larger(safe, Highest(log'))

Blank ==
  /\ closed = FALSE /\ timer = FALSE /\ dirty = FALSE /\ flushing = "no" /\ seq = 0
  /\ cache = <<>> /\ queue = <<>> /\ lines = 0 /\ written = FALSE
Forgotten ==
  /\ closed' = FALSE /\ timer' = FALSE /\ dirty' = FALSE /\ flushing' = "no" /\ seq' = 0
  /\ cache' = <<>> /\ queue' = <<>> /\ lines' = 0 /\ written' = FALSE

StoreInit ==
  /\ up = FALSE /\ Blank
  /\ doc = Missing /\ log = <<>> /\ junk = 0 /\ torn = FALSE /\ safe = 0

-----------------------------------------------------------------------------
(* Opening *)

\* load() and readTail(); a number the log holds and the document has forgotten counts.
RecoveredSeq_DocumentOnly == Larger(doc, 0)
RecoveredSeq == Larger(Larger(doc, 0), Highest(Kept(log)))
Open ==
  LET behind == doc < 0 \/ RecoveredSeq > doc IN
  /\ ~up /\ up' = TRUE
  /\ seq' = RecoveredSeq
  /\ cache' = Kept(log)
  /\ lines' = Len(log) + junk + IF torn THEN 1 ELSE 0
  /\ doc' = IF doc = Corrupt THEN Missing ELSE doc
  /\ dirty' = behind /\ timer' = behind /\ written' = TRUE
  /\ UNCHANGED <<closed, flushing, queue, log, junk, torn, safe>>

-----------------------------------------------------------------------------
(* Writing *)

Idle == up /\ flushing = "no"
\* scheduleDrain
Armed == ~closed
Scheduled == timer' = (timer \/ Armed) /\ written' = (written \/ Armed)

\* nextSeq alone, for a call or an alert that flood control swallows; and, but for the
\* number, any other record.
TakeNumber ==
  /\ Idle /\ seq < MaxSeq
  /\ seq' = seq + 1 /\ dirty' = TRUE /\ Scheduled
  /\ UNCHANGED <<up, closed, flushing, cache, queue, lines, diskVars, safe>>

\* nextSeq and pushHistory
Publish ==
  /\ Idle /\ seq < MaxSeq /\ Len(log) + junk + Len(queue) < MaxLog
  /\ seq' = seq + 1 /\ dirty' = TRUE /\ Scheduled
  /\ cache' = Kept(Append(cache, Line(seq + 1, FALSE)))
  /\ queue' = Append(queue, Line(seq + 1, FALSE))
  /\ UNCHANGED <<up, closed, flushing, lines, diskVars, safe>>

\* compact(): the log rewritten from the cache, or left as it was
Compacted(ls) == log' = ls /\ junk' = 0 /\ torn' = FALSE /\ lines' = Len(ls)

\* A cached alert is marked resolved or acted on, and touchHistory() rewrites the log:
\* what is queued is in the cache, and stays queued if the rewrite fails.
Settle_KeepsQueue(i, ok) ==
  /\ Idle /\ i \in DOMAIN cache /\ ~cache[i].done
  /\ cache' = [cache EXCEPT ![i].done = TRUE]
  /\ \/ ok /\ Compacted(cache')
     \/ ~ok /\ UNCHANGED <<log, junk, torn, lines>>
  /\ Reaches
  /\ UNCHANGED <<up, closed, timer, dirty, flushing, seq, queue, written, doc>>
Settle(i, ok) ==
  /\ Idle /\ i \in DOMAIN cache /\ ~cache[i].done
  /\ cache' = [cache EXCEPT ![i].done = TRUE]
  /\ \/ ok /\ Compacted(cache') /\ queue' = <<>>
     \/ ~ok /\ UNCHANGED <<log, junk, torn, lines, queue>>
  /\ Reaches
  /\ UNCHANGED <<up, closed, timer, dirty, flushing, seq, written, doc>>

-----------------------------------------------------------------------------
(* flush(), synchronous for everybody but a crash *)

Flush ==
  /\ Idle /\ timer
  /\ timer' = FALSE /\ flushing' = "drain"
  /\ UNCHANGED <<up, closed, dirty, seq, cache, queue, lines, written, diskVars, safe>>

\* An append that failed or was cut short: k lines are there, and perhaps part of one.
PartOf(k, cut) ==
  /\ k < Len(queue)
  /\ Appends(SubSeq(queue, 1, k))
  /\ torn' = IF k = 0 THEN torn \/ cut ELSE cut
  /\ Reaches

\* drain(): lines that could not be written are gone from the queue all the same.
Drain ==
  /\ flushing = "drain" /\ flushing' = "compact"
  /\ \/ /\ Appends(queue)
        /\ torn' = (torn /\ queue = <<>>)
        /\ lines' = lines + Len(queue)
        /\ Reaches
     \/ \E k \in 0..Len(queue), cut \in BOOLEAN : PartOf(k, cut) /\ lines' = lines
  /\ queue' = <<>>
  /\ UNCHANGED <<up, closed, timer, dirty, seq, cache, written, doc>>

\* The log has grown to twice what is retained.
Compact ==
  /\ flushing = "compact" /\ flushing' = "save"
  /\ \/ lines > 2 * HistoryLimit /\ Compacted(cache)
     \/ UNCHANGED <<log, junk, torn, lines>>
  /\ Reaches
  /\ UNCHANGED <<up, closed, timer, dirty, seq, cache, queue, written, doc>>

\* The document, which stays dirty and is tried again when it could not be written.
Save_CleanFirst ==
  /\ flushing = "save" /\ flushing' = "no" /\ dirty' = FALSE
  /\ \/ dirty /\ doc' = seq /\ safe' = Larger(safe, seq)
     \/ UNCHANGED <<doc, safe>>
  /\ UNCHANGED <<up, closed, timer, seq, cache, queue, lines, written, log, junk, torn>>
Save ==
  /\ flushing = "save" /\ flushing' = "no"
  /\ \/ dirty /\ doc' = seq /\ dirty' = FALSE /\ timer' = timer /\ safe' = Larger(safe, seq)
     \/ dirty /\ timer' = (timer \/ Armed) /\ UNCHANGED <<doc, dirty, safe>>
     \/ ~dirty /\ UNCHANGED <<doc, dirty, timer, safe>>
  /\ UNCHANGED <<up, closed, seq, cache, queue, lines, written, log, junk, torn>>

-----------------------------------------------------------------------------
(* Closing, opening again, dying *)

Close ==
  /\ Idle /\ ~closed
  /\ closed' = TRUE /\ timer' = FALSE /\ flushing' = "drain"
  /\ UNCHANGED <<up, dirty, seq, cache, queue, lines, written, diskVars, safe>>

\* reopen(), for a hub that starts again, which arms nothing
Reopen ==
  /\ Idle /\ closed
  /\ closed' = FALSE /\ written' = FALSE
  /\ UNCHANGED <<up, timer, dirty, flushing, seq, cache, queue, lines, diskVars, safe>>

\* The process ends, in the middle of an append perhaps.
Crash ==
  /\ up /\ up' = FALSE /\ Forgotten
  /\ \/ UNCHANGED <<log, junk, torn, safe>>
     \/ flushing = "drain" /\ \E k \in 0..Len(queue), cut \in BOOLEAN : PartOf(k, cut)
  /\ UNCHANGED doc

\* Somebody truncates or mangles store.json while no hub is running: only the log is
\* left to recover numbers from.
Mangle ==
  /\ ~up /\ doc >= 0 /\ doc' = Corrupt
  /\ safe' = Highest(log)
  /\ UNCHANGED <<up, memoryVars, log, junk, torn>>

StoreNext ==
  \/ Open \/ TakeNumber \/ Publish \/ Flush \/ Drain \/ Compact \/ Save
  \/ Close \/ Reopen \/ Crash \/ Mangle
  \/ \E i \in 1..HistoryLimit, ok \in BOOLEAN : Settle(i, ok)

StoreSpec == StoreInit /\ [][StoreNext]_storeVars

-----------------------------------------------------------------------------
(* What the store promises *)

StoreTypeOK ==
  /\ {up, closed, timer, dirty, written, torn} \subseteq BOOLEAN
  /\ flushing \in {"no", "drain", "compact", "save"}
  /\ seq \in 0..MaxSeq /\ safe \in 0..MaxSeq /\ doc \in -2..MaxSeq /\ {lines, junk} \subseteq Nat
  /\ \A ls \in {cache, queue, log} : \A i \in DOMAIN ls :
       ls[i].n \in 1..MaxSeq /\ ls[i].done \in BOOLEAN

\* A number that reached the disk, in the document or on a line of the log, is never
\* handed out again, whatever was written before the crash and whatever failed
\* ("Handing one out twice is far worse than skipping it", store.ts:324).
NumbersAreFresh == up => seq >= safe

\* What a restart reads back is each alert once, in order: a rewrite and an append
\* never both put an alert into the log (touchHistory, drain, compact).
EachAlertOnce == \A i, j \in DOMAIN log : i < j => log[i].n < log[j].n

\* What waits to be written has a timer that will write it, once a write was made in this
\* life of the store: a failed write is tried again, and a store is clean only when the disk
\* agrees with it (markDirty, scheduleDrain, flush).
ArmedOrWritten ==
  up /\ flushing = "no" =>
    /\ ~dirty => doc = seq
    /\ ~closed /\ written /\ (dirty \/ queue # <<>>) => timer
=============================================================================
