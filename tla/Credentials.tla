---------------------------- MODULE Credentials ----------------------------
(* The file that holds a machine's private seeds, one per hub                *)
(* (cli/src/storage.ts, desktop/src/main/storage.ts and a third copy in      *)
(* core/src/remote.ts): every change reads the whole document and writes it  *)
(* back through a temporary file, in processes that crash between any two    *)
(* operations on the disk, and over a file that may be damaged or unreadable.*)
EXTENDS Naturals, FiniteSets

CONSTANTS
  Programs,   \* processes that open the file
  Guarded,    \* those with the command line's copy of the storage, or the desktop's
  Seeds       \* keys of the document

ASSUME CredentialsConstants == Guarded \subseteq Programs

VARIABLES
  file, tmp,   \* credentials.json and credentials.json.tmp
  aside,       \* seeds in files that were set aside
  program,     \* where each process is in mutate(), and what it remembers
  held,        \* history: seeds stored and not removed since
  perils       \* history: what this storage does not promise to survive, that happened
credentialsVars == <<file, tmp, aside, program, held, perils>>

Absent == [is |-> "absent", seeds |-> {}]
Whole(ss) == [is |-> "whole", seeds |-> ss]
Broken(ss) == [is |-> "broken", seeds |-> ss]
Fresh == [at |-> "idle", data |-> {}, unreadable |-> FALSE]

CredentialsInit ==
  /\ file = Absent /\ tmp = Absent /\ aside = {} /\ program = [p \in Programs |-> Fresh]
  /\ held = {} /\ perils = {}

-----------------------------------------------------------------------------
\* What was read: a document that cannot be parsed is set aside, where that can be done.  `data`
\* is what load() returns, `peril` the peril of writing that back.
Parsed(data, peril) ==
  \/ file.is = "whole" /\ data = file.seeds /\ peril = {} /\ UNCHANGED <<file, aside>>
  \/ /\ file.is = "broken" /\ data = {}
     /\ \/ peril = {} /\ file' = Absent /\ aside' = aside \cup file.seeds
        \/ peril = {"stuck"} /\ UNCHANGED <<file, aside>>
NothingRead(data) == data = {} /\ UNCHANGED <<file, aside>>
\* load() of the command line and the desktop remembers that the file could not be read ...
LoadGuarded(p, data, unreadable, peril) ==
  \/ file = Absent /\ NothingRead(data) /\ unreadable = program[p].unreadable /\ peril = {}
  \/ ~unreadable /\ Parsed(data, peril)
  \/ file # Absent /\ NothingRead(data) /\ unreadable /\ peril = {}
\* ... and that of RemoteNotifier takes it for an empty one.
LoadPlain(data, unreadable, peril) ==
  /\ ~unreadable
  /\ \/ file = Absent /\ NothingRead(data) /\ peril = {}
     \/ Parsed(data, peril)
     \/ file # Absent /\ NothingRead(data) /\ peril = {"unguarded"}
LoadFile(p, data, unreadable, peril) ==
  IF p \in Guarded THEN LoadGuarded(p, data, unreadable, peril) ELSE LoadPlain(data, unreadable, peril)

Get(p) ==
  /\ program[p].at = "idle"
  /\ \E data \in SUBSET Seeds, u \in BOOLEAN, peril \in SUBSET {"stuck", "unguarded"} :
       LoadFile(p, data, u, peril) /\ program' = [program EXCEPT ![p].unreadable = u]
  /\ UNCHANGED <<tmp, held, perils>>

\* mutate(): nothing is written over a document that could not be read.
Refuses_Never(unreadable) == FALSE
Refuses(unreadable) == unreadable
Mutate(p, plus, minus) ==
  /\ program[p].at = "idle"
  /\ \E data \in SUBSET Seeds, u \in BOOLEAN, peril \in SUBSET {"stuck", "unguarded"} :
       /\ LoadFile(p, data, u, peril)
       /\ IF Refuses(u)
          THEN program' = [program EXCEPT ![p].unreadable = u] /\ UNCHANGED perils
          ELSE /\ program' = [program EXCEPT ![p] =
                    [at |-> "writing", data |-> (data \cup plus) \ minus, unreadable |-> u]]
               /\ perils' = perils \cup peril
                    \cup (IF \A q \in Programs : program[q].at = "idle" THEN {} ELSE {"overlap"})
  /\ UNCHANGED tmp
SetSeed(p, s) == Mutate(p, {s}, {}) /\ UNCHANGED held
RemoveSeed(p, s) == Mutate(p, {}, {s}) /\ held' = held \ {s}

\* save(): the temporary file, which a crash or a full disk leaves in part, then the rename
WriteTmp(p) ==
  /\ program[p].at = "writing"
  /\ tmp' = Whole(program[p].data) /\ program' = [program EXCEPT ![p].at = "renaming"]
  /\ UNCHANGED <<file, aside, held, perils>>
WriteFails(p) ==
  /\ program[p].at = "writing" /\ tmp' \in {tmp, Broken({})}
  /\ program' = [program EXCEPT ![p].at = "idle"]
  /\ UNCHANGED <<file, aside, held, perils>>
Rename(p) ==
  /\ program[p].at = "renaming" /\ program' = [program EXCEPT ![p].at = "idle"]
  /\ IF tmp = Absent THEN UNCHANGED <<file, tmp, held>>    \* another process has renamed it
     ELSE file' = tmp /\ tmp' = Absent /\ held' = held \cup program[p].data
  /\ UNCHANGED <<aside, perils>>
RenameFails(p) ==
  /\ program[p].at = "renaming" /\ program' = [program EXCEPT ![p].at = "idle"]
  /\ UNCHANGED <<file, tmp, aside, held, perils>>
CrashProgram(p) ==
  /\ program[p] # Fresh /\ program' = [program EXCEPT ![p] = Fresh]
  /\ tmp' \in IF program[p].at = "writing" THEN {tmp, Broken({})} ELSE {tmp}
  /\ UNCHANGED <<file, aside, held, perils>>

\* What else can happen to the file: a damaged block, an editor, an owner who deletes it.
Damage ==
  /\ file.is = "whole" /\ file' = Broken(file.seeds)
  /\ UNCHANGED <<tmp, aside, program, held, perils>>
Deleted ==
  /\ file # Absent /\ file' = Absent /\ held' = {}
  /\ UNCHANGED <<tmp, aside, program, perils>>

CredentialsNext ==
  \/ perils = {} /\ (Damage \/ Deleted)   \* bound: after a peril only what is under way ends
  \/ \E p \in Programs :
       \/ Get(p) \/ WriteTmp(p) \/ WriteFails(p) \/ Rename(p) \/ RenameFails(p) \/ CrashProgram(p)
       \/ perils = {} /\ \E s \in Seeds : SetSeed(p, s) \/ RemoveSeed(p, s)

CredentialsSpec == CredentialsInit /\ [][CredentialsNext]_credentialsVars

-----------------------------------------------------------------------------
\* A seed that was stored and not removed is on the disk: in the document, damaged or not, or in
\* one that was set aside; whatever reads, writes and renames fail and wherever a process crashes
\* ("a keypair cannot be regenerated", storage.ts:90).  Two writers at once are the exception,
\* for the document has no lock, and so are the unguarded copy of the storage, which writes over
\* what it could not read, and a damaged document that could not be moved.
SeedsKept == perils = {} => held \subseteq file.seeds \cup aside
=============================================================================
