----------------------------- MODULE SnapshotFile -----------------------------
(***************************************************************************)
(* The snapshot on disk: save_from, replace_snapshot, load_into and who    *)
(* calls them, over a file system with names, files and syncs, under       *)
(* crashes of the process and power cuts at any point.                     *)
(*                                                                         *)
(* Saves run on the blocking pool.  The caller holds persist_lock while it *)
(* waits for one; when the HTTP client of a checkpointed request is gone,  *)
(* the caller is dropped with its lock and the save goes on.               *)
(***************************************************************************)
EXTENDS Naturals, Sequences, FiniteSets, FiniteSetsExt, SequencesExt

CONSTANTS
  Requests,    \* requests that are checkpointed before they are answered
  Loop,        \* the periodic save
  Targets,     \* builds: the rotation of cfg(windows), of cfg(not(windows))
  PowerCuts,   \* a crash of the Unix build may be a power cut
  MaxVersion,  \* bound: versions of the state in memory
  MaxFiles,    \* bound: files that exist at once
  MaxAbandoned, \* bound: callers that are dropped while their save runs
  MaxIoFaults, \* bound: file operations that fail
  MaxOutages   \* bound: crashes

ASSUME LoopAssumption == Loop \notin Requests
ASSUME VariantAssumption == Targets \subseteq {"windows", "unix"} /\ PowerCuts \in BOOLEAN
ASSUME BoundsAssumption ==
  /\ MaxVersion \in Nat \ {0} /\ MaxFiles \in Nat \ {0} /\ MaxAbandoned \in Nat
  /\ MaxIoFaults \in Nat /\ MaxOutages \in Nat

Savers == Requests \cup {Loop}
Names == {"tmp", "snapshot", "backup"}

VARIABLES
  target,   \* the build that runs, one of Targets
  inMemory, \* the version of the hub's state; 1 is the empty state
  saver,    \* per saver: how far it is, with which version and open file
  lock,     \* persist_lock: the callers that hold it
  names,    \* directory entries: the file of each name, 0 for none
  past,     \* directories that a power cut may bring back, the last one first synced
  content,  \* per file: what its two halves hold, as versions, 0 for nothing
  flushed,  \* per file: what was last synced
  running,  \* "up", "down", or "refused" to start
  acked,    \* history: the newest version a client was told is durable
  exposed,  \* history: a save removed the backup, the only snapshot there was
            \* ("bare"), and a crash came before it had put its own ("lost")
  abandoned, ioFaults, outages

fileSystem == <<names, past, content, flushed>>
bounds == <<abandoned, ioFaults, outages>>
snapshotVars == <<target, inMemory, saver, lock, fileSystem, running, acked, exposed, bounds>>

-----------------------------------------------------------------------------
Files == 1..MaxFiles
Versions == 0..MaxVersion
Halves == [first : Versions, second : Versions]
Nothing == [first |-> 0, second |-> 0]
Whole(half) == half.first = half.second /\ half.first # 0

Windows == target = "windows"
CutPossible == PowerCuts /\ ~Windows

Phases == {"idle", "waiting", "captured", "opened", "half", "written", "synced",
           "rotate", "activate", "cleanup", "renamed"}
NotSaving == [phase |-> "idle", asked |-> 0, version |-> 0, file |-> 0, called |-> TRUE]
Directories == [Names -> 0..MaxFiles]
NoDirectory == [n \in Names |-> 0]

SnapshotTypeOK ==
  /\ target \in Targets
  /\ inMemory \in 1..MaxVersion
  /\ saver \in [Savers -> [phase : Phases, asked : Versions, version : Versions, file : 0..MaxFiles,
                           called : BOOLEAN]]
  /\ lock \in SUBSET Savers /\ Cardinality(lock) <= 1
  /\ names \in Directories
  /\ \A m, n \in Names : names[m] = names[n] /\ names[m] # 0 => m = n
  /\ past \in Seq(Directories)
  /\ content \in [Files -> Halves] /\ flushed \in [Files -> Halves]
  /\ running \in {"up", "down", "refused"}
  /\ acked \in Versions /\ exposed \in {"safe", "bare", "lost"}
  /\ abandoned \in Nat /\ ioFaults \in Nat /\ outages \in Nat

SnapshotInit ==
  /\ target \in Targets
  /\ inMemory = 1 /\ saver = [s \in Savers |-> NotSaving] /\ lock = {}
  /\ names = NoDirectory /\ past = <<NoDirectory>>
  /\ content = [f \in Files |-> Nothing] /\ flushed = content
  /\ running = "up" /\ acked = 0 /\ exposed = "safe"
  /\ abandoned = 0 /\ ioFaults = 0 /\ outages = 0

-----------------------------------------------------------------------------
(* Callers: durable_checkpoint and persist_loop.                           *)

(* A request changes the state; its answer waits for a checkpoint. *)
Mutate(r) ==
  /\ running = "up" /\ r \in Requests /\ saver[r].phase = "idle" /\ inMemory < MaxVersion
  /\ inMemory' = inMemory + 1
  /\ saver' = [saver EXCEPT ![r] = [NotSaving EXCEPT !.phase = "waiting", !.asked = inMemory + 1]]
  /\ UNCHANGED <<lock, fileSystem, running, acked, bounds, target, exposed>>

Tick ==
  /\ running = "up" /\ saver[Loop].phase = "idle"
  /\ saver' = [saver EXCEPT ![Loop] = [NotSaving EXCEPT !.phase = "waiting"]]
  /\ UNCHANGED <<inMemory, lock, fileSystem, running, acked, bounds, target, exposed>>

\* Mutant of Capture: persist_lock is not taken.
CaptureUnlocked(s) ==
  /\ saver[s].phase = "waiting"
  /\ lock' = lock \cup {s}
  /\ saver' = [saver EXCEPT ![s] = [@ EXCEPT !.phase = "captured", !.version = inMemory]]
  /\ UNCHANGED <<inMemory, fileSystem, running, acked, bounds, target, exposed>>

(* With the lock, save_from copies the state under one read lock. *)
Capture(s) ==
  /\ saver[s].phase = "waiting" /\ lock = {}
  /\ lock' = lock \cup {s}
  /\ saver' = [saver EXCEPT ![s] = [@ EXCEPT !.phase = "captured", !.version = inMemory]]
  /\ UNCHANGED <<inMemory, fileSystem, running, acked, bounds, target, exposed>>

Busy(s) == saver[s].phase \notin {"idle", "waiting"}

(* The client of a request goes away; a save that has begun goes on. *)
Drop(r) ==
  /\ r \in Requests /\ saver[r].phase # "idle" /\ saver[r].called
  /\ IF Busy(r)
     THEN /\ abandoned < MaxAbandoned /\ abandoned' = abandoned + 1
          /\ saver' = [saver EXCEPT ![r].called = FALSE]
     ELSE saver' = [saver EXCEPT ![r] = NotSaving] /\ UNCHANGED abandoned
  /\ lock' = lock \ {r}
  /\ UNCHANGED <<inMemory, fileSystem, running, acked, ioFaults, outages, target, exposed>>

-----------------------------------------------------------------------------
(* save_from.                                                              *)

Goto(s, phase) == saver' = [saver EXCEPT ![s].phase = phase]

(* The save returns; an answer goes to a caller that still waits. *)
Return(s, ok) ==
  /\ saver' = [saver EXCEPT ![s] = NotSaving]
  /\ lock' = IF saver[s].called THEN lock \ {s} ELSE lock
  /\ acked' = IF ok /\ s \in Requests /\ saver[s].called
              THEN Max({acked, saver[s].asked}) ELSE acked

(* Directory operations; only a later sync of the directory makes them     *)
(* certain.                                                                *)
Directory(entries) ==
  /\ names' = entries
  /\ past' = IF ~CutPossible THEN <<entries>>
             ELSE IF entries = names THEN past ELSE Append(past, entries)

Used == {names[n] : n \in Names} \cup {saver[s].file : s \in Savers}
        \cup UNION {{past[i][n] : n \in Names} : i \in 1..Len(past)}

(* create, truncate *)
Open(s) ==
  /\ saver[s].phase = "captured"
  /\ IF names["tmp"] # 0
     THEN /\ content' = [content EXCEPT ![names["tmp"]] = Nothing]
          /\ saver' = [saver EXCEPT ![s] = [@ EXCEPT !.phase = "opened", !.file = names["tmp"]]]
          /\ UNCHANGED <<names, past, flushed>>
     ELSE /\ Files \ Used # {}
          /\ LET file == Min(Files \ Used)
             IN /\ content' = [content EXCEPT ![file] = Nothing]
                /\ flushed' = [flushed EXCEPT ![file] = Nothing]
                /\ saver' = [saver EXCEPT ![s] = [@ EXCEPT !.phase = "opened", !.file = file]]
                /\ Directory([names EXCEPT !["tmp"] = file])
  /\ UNCHANGED <<inMemory, lock, running, acked, bounds, target, exposed>>

(* write_all, in two parts. *)
Write(s) ==
  /\ \/ /\ saver[s].phase = "opened"
        /\ content' = [content EXCEPT ![saver[s].file].first = saver[s].version]
        /\ Goto(s, "half")
     \/ /\ saver[s].phase = "half"
        /\ content' = [content EXCEPT ![saver[s].file].second = saver[s].version]
        /\ Goto(s, "written")
  /\ UNCHANGED <<inMemory, lock, names, past, flushed, running, acked, bounds, target, exposed>>

\* Mutant of Sync: the temporary file is renamed as it is.
SyncNothing(s) ==
  /\ saver[s].phase = "written"
  /\ Goto(s, "synced")
  /\ UNCHANGED <<inMemory, lock, fileSystem, running, acked, bounds, target, exposed>>

Sync(s) ==
  /\ saver[s].phase = "written"
  /\ flushed' = [flushed EXCEPT ![saver[s].file] = content[saver[s].file]]
  /\ Goto(s, "synced")
  /\ UNCHANGED <<inMemory, lock, names, past, content, running, acked, bounds, target, exposed>>

(* Opening, writing or syncing fails. *)
SaveFails(s) ==
  /\ saver[s].phase \in {"captured", "opened", "half", "written"}
  /\ ioFaults < MaxIoFaults
  /\ ioFaults' = ioFaults + 1
  /\ Return(s, FALSE)
  /\ UNCHANGED <<inMemory, fileSystem, running, abandoned, outages, target, exposed>>

-----------------------------------------------------------------------------
(* replace_snapshot.                                                       *)

Renamed(old, new) == [names EXCEPT ![new] = names[old], ![old] = 0]

(* Unix: one rename. *)
Replace(s) ==
  /\ ~Windows /\ saver[s].phase = "synced" /\ names["tmp"] # 0
  /\ Directory(Renamed("tmp", "snapshot"))
  /\ Goto(s, "renamed")
  /\ UNCHANGED <<inMemory, lock, content, flushed, running, acked, bounds, target, exposed>>

(* Rename fails, also because another save has renamed the file. *)
ReplaceFails(s) ==
  /\ ~Windows /\ saver[s].phase = "synced"
  /\ IF names["tmp"] = 0 THEN UNCHANGED ioFaults
                         ELSE ioFaults < MaxIoFaults /\ ioFaults' = ioFaults + 1
  /\ Return(s, FALSE)
  /\ UNCHANGED <<inMemory, fileSystem, running, abandoned, outages, target, exposed>>

\* Mutant of SyncDirectory: the directory is not synced.
SyncNoDirectory(s) ==
  /\ ~Windows /\ saver[s].phase = "renamed"
  /\ Return(s, TRUE)
  /\ UNCHANGED <<inMemory, fileSystem, running, bounds, target, exposed>>

(* sync_parent; its errors, which are ignored, are left out. *)
SyncDirectory(s) ==
  /\ ~Windows /\ saver[s].phase = "renamed"
  /\ past' = <<names>>
  /\ Return(s, TRUE)
  /\ UNCHANGED <<inMemory, names, content, flushed, running, bounds, target, exposed>>

(* Windows: remove the backup, *)
RemoveBackup(s) ==
  /\ Windows /\ saver[s].phase = "synced"
  /\ Directory([names EXCEPT !["backup"] = 0])
  /\ Goto(s, "rotate")
  /\ exposed' = IF exposed = "safe" /\ names["snapshot"] = 0 /\ names["backup"] # 0
                THEN "bare" ELSE exposed
  /\ UNCHANGED <<inMemory, lock, content, flushed, running, acked, bounds, target>>

(* make the snapshot the backup, *)
Rotate(s) ==
  /\ Windows /\ saver[s].phase = "rotate"
  /\ Directory(IF names["snapshot"] # 0 THEN Renamed("snapshot", "backup") ELSE names)
  /\ Goto(s, "activate")
  /\ UNCHANGED <<inMemory, lock, content, flushed, running, acked, bounds, target, exposed>>

(* make the new file the snapshot, *)
Activate(s) ==
  /\ Windows /\ saver[s].phase = "activate" /\ names["tmp"] # 0
  /\ Directory(Renamed("tmp", "snapshot"))
  /\ Goto(s, "cleanup")
  /\ exposed' = IF exposed = "bare" THEN "safe" ELSE exposed
  /\ UNCHANGED <<inMemory, lock, content, flushed, running, acked, bounds, target>>

(* or, at an error, the backup again; an error of that is ignored; *)
ActivateFails(s) ==
  /\ Windows /\ saver[s].phase = "activate"
  /\ \E undone \in BOOLEAN :
       /\ ioFaults' = ioFaults + (IF names["tmp"] = 0 THEN 0 ELSE 1)
                          + (IF undone \/ names["backup"] = 0 THEN 0 ELSE 1)
       /\ ioFaults' <= MaxIoFaults
       /\ Directory(IF undone /\ names["backup"] # 0 THEN Renamed("backup", "snapshot")
                                                     ELSE names)
  /\ Return(s, FALSE)
  /\ UNCHANGED <<inMemory, content, flushed, running, abandoned, outages, target, exposed>>

(* and remove the backup. *)
Cleanup(s) ==
  /\ Windows /\ saver[s].phase = "cleanup"
  /\ Directory([names EXCEPT !["backup"] = 0])
  /\ Return(s, TRUE)
  /\ UNCHANGED <<inMemory, content, flushed, running, bounds, target, exposed>>

(* Removing or renaming fails before or after the switch. *)
RotationFails(s) ==
  /\ Windows
  /\ \/ saver[s].phase \in {"synced", "cleanup"} /\ names["backup"] # 0
     \/ saver[s].phase = "rotate" /\ names["snapshot"] # 0
  /\ ioFaults < MaxIoFaults
  /\ ioFaults' = ioFaults + 1
  /\ Return(s, FALSE)
  /\ UNCHANGED <<inMemory, fileSystem, running, abandoned, outages, target, exposed>>

-----------------------------------------------------------------------------
(* Crashes and the start.                                                  *)

(***************************************************************************)
(* A power cut leaves any of the directories since the last sync, and of   *)
(* each half of a file what was synced or what was written since.          *)
(***************************************************************************)
AfterPowerCut(directory, written) ==
  [f \in Files |->
     IF f \notin {directory[n] : n \in Names} THEN Nothing
     ELSE [first |-> IF <<f, 1>> \in written THEN content[f].first ELSE flushed[f].first,
           second |-> IF <<f, 2>> \in written THEN content[f].second ELSE flushed[f].second]]

SnapshotCrash ==
  /\ running = "up" /\ outages < MaxOutages
  /\ outages' = outages + 1
  /\ running' = "down" /\ inMemory' = 1
  /\ saver' = [s \in Savers |-> NotSaving] /\ lock' = {}
  /\ IF CutPossible
     THEN /\ \E i \in 1..Len(past) : names' = past[i]
          /\ past' = <<names'>>
          /\ \E written \in SUBSET ({names'[n] : n \in Names} \X {1, 2}) :
               content' = AfterPowerCut(names', written)
          /\ flushed' = content'
     ELSE UNCHANGED fileSystem
  /\ exposed' = IF exposed = "bare" THEN "lost" ELSE exposed
  /\ UNCHANGED <<acked, abandoned, ioFaults, target>>

Good(n) == names[n] # 0 /\ Whole(content[names[n]])

\* Mutant of Loaded: the backup is not looked at.
LoadedPrimary ==
  CASE names["snapshot"] = 0 -> 1
    [] Good("snapshot") -> content[names["snapshot"]].first
    [] OTHER -> 0

(***************************************************************************)
(* load_into: 0 for an error, 1 for the empty state of a new hub.          *)
(***************************************************************************)
Loaded ==
  CASE names["snapshot"] = 0 /\ names["backup"] = 0 -> 1
    [] Good("snapshot") -> content[names["snapshot"]].first
    [] ~Good("snapshot") /\ Good("backup") -> content[names["backup"]].first
    [] OTHER -> 0

SnapshotRestart ==
  /\ running = "down"
  /\ IF Loaded = 0 THEN running' = "refused" /\ UNCHANGED inMemory
                   ELSE running' = "up" /\ inMemory' = Loaded
  /\ UNCHANGED <<saver, lock, fileSystem, acked, bounds, target, exposed>>

SnapshotStep ==
  \/ \E r \in Requests : Mutate(r) \/ Drop(r)
  \/ Tick
  \/ \E s \in Savers :
       \/ Capture(s) \/ Open(s) \/ Write(s) \/ Sync(s) \/ SaveFails(s)
       \/ Replace(s) \/ ReplaceFails(s) \/ SyncDirectory(s)
       \/ RemoveBackup(s) \/ Rotate(s) \/ Activate(s) \/ ActivateFails(s)
       \/ Cleanup(s) \/ RotationFails(s)
  \/ SnapshotCrash \/ SnapshotRestart

SnapshotSpec == SnapshotInit /\ [][SnapshotStep]_snapshotVars

-----------------------------------------------------------------------------
(* Properties.                                                             *)

(***************************************************************************)
(* "Crash-safe snapshots with temporary file, flush/sync, atomic           *)
(* replacement on Unix and safe backup rotation/recovery on Windows"       *)
(* (HARDENING-REPORT): whatever point of a save a crash hits, the hub      *)
(* starts again.  Holds while no save is left alone by its caller.         *)
(***************************************************************************)
Loadable == running # "refused"

(***************************************************************************)
(* A change whose request was answered with success after its checkpoint   *)
(* is there whenever the hub runs, whatever crashed, failed or lost its    *)
(* power, but for one window of the Windows build: a save begins by        *)
(* removing the backup, also when that is the only snapshot there is.      *)
(* Holds while no save is left alone by its caller.                        *)
(***************************************************************************)
AckedDurable == running = "up" /\ exposed # "lost" => inMemory >= acked

(* At any crash the snapshot files load, and hold what was answered for.   *)
SnapshotDurable == SnapshotTypeOK /\ Loadable /\ AckedDurable
=============================================================================
