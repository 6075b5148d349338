------------------------------- MODULE MCFiles -------------------------------
(* The two files a hub restarts from: its transaction journal and its      *)
(* snapshot.  They are written apart: a behaviour is of one or the other   *)
(* (HubRecovery is about both together).                                   *)
EXTENDS TxJournal, SnapshotFile

VARIABLE part

MCInit ==
  /\ part \in {"journal", "snapshot"} /\ Init /\ SnapshotInit
  /\ part = "journal" => target = "unix"   \* which does not matter then

MCNext ==
  \/ part = "journal" /\ Next /\ UNCHANGED <<part, snapshotVars>>
  \/ part = "snapshot" /\ SnapshotStep /\ UNCHANGED <<part, vars>>

MCSpec == MCInit /\ [][MCNext]_<<part, vars, snapshotVars>>
=============================================================================
