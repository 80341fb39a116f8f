------------------------------- MODULE Ingest -------------------------------
(* Publishing over HTTP (core/src/server.ts, ingest.ts): a request is judged *)
(* when it arrives, waits for its body or for a call's outcome, and acts     *)
(* afterwards, while tokens are minted, revoked and re-roled, bans come and  *)
(* go, and the hub stops or crashes.  One address; what its other failures   *)
(* do to it is in Sessions.                                                  *)
EXTENDS Naturals, FiniteSets

CONSTANTS
  Tokens,
  Requests,    \* requests there can be at once
  BanAfter,    \* failures of an address before it is banned
  RatePerMinute

ASSUME IngestConstants == BanAfter \in Nat \ {0} /\ RatePerMinute \in Nat \ {0}

VARIABLES
  records,    \* the store's records, in memory
  recordsOnDisk,
  request,   \* where each request is
  limiter,   \* per token, requests in its window; absent until first used
  powers,    \* what each token's role may do
  charged,   \* failures held against the address; BanAfter while it is banned
  dead       \* history: tokens whose revocation this process knows of
ingestVars == <<records, recordsOnDisk, request, limiter, powers, charged, dead>>

Kinds == {"notify", "call"}
Nowhere == [at |-> "idle"]
NoToken == [there |-> FALSE, revoked |-> FALSE, usedLately |-> FALSE]
NoLimiter == [count |-> 0, over |-> TRUE]

IngestInit ==
  /\ records = [t \in Tokens |-> NoToken] /\ recordsOnDisk = records
  /\ request = [r \in Requests |-> Nowhere] /\ limiter = [t \in Tokens |-> NoLimiter]
  /\ powers = [t \in Tokens |-> Kinds] /\ charged = 0 /\ dead = {}

-----------------------------------------------------------------------------
\* findIngestToken(): revoked ones are passed over.
Live == {t \in Tokens : records[t].there /\ ~records[t].revoked}

\* allow(), on the limiter of the token
Counting(t) ==
  [limiter EXCEPT ![t] = IF @.over THEN [count |-> 1, over |-> FALSE]
                         ELSE [@ EXCEPT !.count = IF @ > RatePerMinute THEN @ ELSE @ + 1]]
Within(t) == Counting(t)[t].count <= RatePerMinute

Waits(r, t, k) ==
  request' = [request EXCEPT ![r] =
    [at |-> "body", token |-> t, kind |-> k, usedLately |-> records[t].usedLately,
     late |-> t \in dead]]

\* handleIngest() up to the body.  Off, not a POST, a refused address, a banned one, clear text
\* from elsewhere and a missing header are answered before anything is kept.
ArriveWithToken(r, t, k) ==
  /\ request[r] = Nowhere /\ charged < BanAfter /\ t \in Live
  /\ charged' = 0 /\ limiter' = Counting(t)
  /\ IF Within(t) /\ k \in powers[t] THEN Waits(r, t, k) ELSE UNCHANGED request
  /\ UNCHANGED <<records, recordsOnDisk, powers, dead>>
ArriveUnknown(r) ==
  /\ request[r] = Nowhere /\ charged < BanAfter
  /\ charged' = charged + 1
  /\ request' = [request EXCEPT ![r] = [at |-> "refusing"]]
  /\ UNCHANGED <<records, recordsOnDisk, limiter, powers, dead>>
\* uniformDelay()
RefusedAtLast(r) ==
  /\ request[r].at = "refusing" /\ request' = [request EXCEPT ![r] = Nowhere]
  /\ UNCHANGED <<records, recordsOnDisk, limiter, powers, charged, dead>>

\* The body was too long, cut off or not an object.
BodyFails(r) ==
  /\ request[r].at = "body" /\ request' = [request EXCEPT ![r] = Nowhere]
  /\ UNCHANGED <<records, recordsOnDisk, limiter, powers, charged, dead>>

\* The body is there: the use is recorded by what the token said when it was found, and the
\* alert is published or the call placed.
Stamped_Whole(t) == [records EXCEPT ![t] = [there |-> TRUE, revoked |-> FALSE, usedLately |-> TRUE]]
Stamped(t) == [records EXCEPT ![t].usedLately = TRUE]
BodyArrives(r) ==
  /\ request[r].at = "body"
  /\ records' = IF request[r].usedLately THEN records ELSE Stamped(request[r].token)
  /\ \/ request[r].kind = "call" /\ request' = [request EXCEPT ![r].at = "calling"]
     \/ request' = [request EXCEPT ![r] = Nowhere]  \* published, or rejected for what it says
  /\ UNCHANGED <<recordsOnDisk, limiter, powers, charged, dead>>
CallSettles(r) ==
  /\ request[r].at = "calling" /\ request' = [request EXCEPT ![r] = Nowhere]
  /\ UNCHANGED <<records, recordsOnDisk, limiter, powers, charged, dead>>

-----------------------------------------------------------------------------
MintToken(t) ==
  /\ ~records[t].there /\ t \notin dead
  /\ records' = [records EXCEPT ![t] = [NoToken EXCEPT !.there = TRUE]]
  /\ UNCHANGED <<recordsOnDisk, request, limiter, powers, charged, dead>>
RevokeToken(t) ==
  /\ t \in Live
  /\ records' = [records EXCEPT ![t].revoked = TRUE] /\ limiter' = [limiter EXCEPT ![t] = NoLimiter]
  /\ dead' = dead \cup {t}
  /\ UNCHANGED <<recordsOnDisk, request, powers, charged>>
SetPowers(t) ==
  /\ \E p \in SUBSET Kinds : powers' = [powers EXCEPT ![t] = p]
  /\ UNCHANGED <<records, recordsOnDisk, request, limiter, charged, dead>>

\* Time: a limiter's window and a token's minute run out, a ban expires.
WindowRunsOut(t) ==
  /\ ~limiter[t].over /\ limiter' = [limiter EXCEPT ![t].over = TRUE]
  /\ UNCHANGED <<records, recordsOnDisk, request, powers, charged, dead>>
MinuteRunsOut(t) ==
  /\ records[t].usedLately /\ records' = [records EXCEPT ![t].usedLately = FALSE]
  /\ request' = [r \in Requests |->
       IF request[r].at = "body" /\ request[r].token = t
       THEN [request[r] EXCEPT !.usedLately = FALSE] ELSE request[r]]
  /\ UNCHANGED <<recordsOnDisk, limiter, powers, charged, dead>>
BanExpires ==
  /\ charged = BanAfter /\ charged' = 0
  /\ UNCHANGED <<records, recordsOnDisk, request, limiter, powers, dead>>

\* The store is written a little after it changes, and when the hub stops, which also closes
\* every connection; a crash keeps what was written.
SaveTokens ==
  /\ recordsOnDisk # records /\ recordsOnDisk' = records
  /\ UNCHANGED <<records, request, limiter, powers, charged, dead>>
StopIngest ==
  /\ request' = [r \in Requests |-> Nowhere] /\ recordsOnDisk' = records
  /\ UNCHANGED <<records, limiter, powers, charged, dead>>
CrashIngest ==
  /\ records' = recordsOnDisk /\ request' = [r \in Requests |-> Nowhere]
  /\ limiter' = [t \in Tokens |-> NoLimiter]
  /\ dead' = {t \in dead : recordsOnDisk[t].revoked}
  /\ UNCHANGED <<recordsOnDisk, powers, charged>>

IngestNext ==
  \/ \E r \in Requests :
       \/ ArriveUnknown(r) \/ RefusedAtLast(r)
       \/ BodyFails(r) \/ BodyArrives(r) \/ CallSettles(r)
       \/ \E t \in Tokens, k \in Kinds : ArriveWithToken(r, t, k)
  \/ \E t \in Tokens :
       MintToken(t) \/ RevokeToken(t) \/ SetPowers(t) \/ WindowRunsOut(t) \/ MinuteRunsOut(t)
  \/ BanExpires \/ SaveTokens \/ StopIngest \/ CrashIngest

IngestSpec == IngestInit /\ [][IngestNext]_ingestVars

-----------------------------------------------------------------------------
IngestTypeOK ==
  /\ {records, recordsOnDisk} \subseteq
       [Tokens -> [there : BOOLEAN, revoked : BOOLEAN, usedLately : BOOLEAN]]
  /\ \A r \in Requests : request[r].at \in {"idle", "refusing", "body", "calling"}
  /\ limiter \in [Tokens -> [count : 0..RatePerMinute + 1, over : BOOLEAN]]
  /\ powers \in [Tokens -> SUBSET Kinds] /\ charged \in 0..BanAfter /\ dead \subseteq Tokens

\* Revoked is for good: whatever requests of the token were waiting for their bodies when it was
\* revoked and write to its record afterwards, and through every stop and every crash after the
\* revocation was written, no request made later gets past the check ("kept, not deleted",
\* revokeIngestToken; findIngestToken).
RevokedIsFinal ==
  /\ \A t \in dead : records[t].revoked
  /\ \A r \in Requests : request[r].at \in {"body", "calling"} => ~request[r].late
=============================================================================
