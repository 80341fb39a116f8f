------------------------------ MODULE MCUpkeep ------------------------------
(* What a hub keeps in order beside its sessions and deliveries: the store   *)
(* on disk, heartbeats and flood control, rights, the waking of browsers,    *)
(* publishing over HTTP or from another program, and the directory of its    *)
(* files.  They share no state that these modules model, so a behaviour      *)
(* exercises one, chosen at first, while the others rest.                    *)
EXTENDS Store, Watchdog, Rights, WebPush, Ingest, Remote, DataDir, TLC

CONSTANTS b1, m1, r1, a1, t1, q1, q2, n1, n2, n3, p1, p2, x1, x2
MissedKeys == b1 :> m1
RecoveredKeys == b1 :> r1

VARIABLE part
upkeepVars == <<part, storeVars, watchdogVars, rightsVars, webPushVars, ingestVars, remoteVars, dataDirVars>>

Init ==
  /\ part \in {"store", "watchdog", "rights", "push", "ingest", "remote", "directory"}
  /\ StoreInit /\ WatchdogInit /\ RightsInit /\ WebPushInit /\ IngestInit /\ RemoteInit /\ DataDirInit
  /\ part # "remote" => ~coded    \* a pairing code is nothing to the others

Next ==
  /\ UNCHANGED part
  /\ \/ /\ part = "store"
        /\ UNCHANGED <<watchdogVars, rightsVars, webPushVars, ingestVars, remoteVars, dataDirVars>>
        /\ StoreNext
     \/ /\ part = "watchdog"
        /\ UNCHANGED <<storeVars, rightsVars, webPushVars, ingestVars, remoteVars, dataDirVars>>
        /\ WatchdogNext
     \/ /\ part = "rights"
        /\ UNCHANGED <<storeVars, watchdogVars, webPushVars, ingestVars, remoteVars, dataDirVars>>
        /\ RightsNext
     \/ /\ part = "push"
        /\ UNCHANGED <<storeVars, watchdogVars, rightsVars, ingestVars, remoteVars, dataDirVars>>
        /\ WebPushNext
     \/ /\ part = "ingest"
        /\ UNCHANGED <<storeVars, watchdogVars, rightsVars, webPushVars, remoteVars, dataDirVars>>
        /\ IngestNext
     \/ /\ part = "remote"
        /\ UNCHANGED <<storeVars, watchdogVars, rightsVars, webPushVars, ingestVars, dataDirVars>>
        /\ RemoteNext
     \/ /\ part = "directory"
        /\ UNCHANGED <<storeVars, watchdogVars, rightsVars, webPushVars, ingestVars, remoteVars>>
        /\ DataDirNext
Spec == Init /\ [][Next]_upkeepVars
=============================================================================
