------------------------------ MODULE TxJournal ------------------------------
(***************************************************************************)
(* The journal of one hub: DurableTxJournal of src/distributed_tx.rs, the  *)
(* file it appends to, the map it keeps in memory, the transitions it      *)
(* accepts, and what write errors, crashes and power cuts leave behind.    *)
(*                                                                         *)
(* Appends run on the blocking pool.  A handler whose HTTP caller is gone  *)
(* is dropped and releases the transaction lock, but its append still runs *)
(* later, when another handler may have read the same entry and moved it.  *)
(***************************************************************************)
EXTENDS Naturals, Sequences, FiniteSets, FiniteSetsExt

CONSTANTS
  Coordinated,      \* transactions this hub coordinates
  Participated,     \* transactions this hub takes part in
  MaxRecords,       \* MAX_JOURNAL_BYTES, counted in records
  MaxQueue,         \* bound: appends submitted and not yet running
  MaxFaults,        \* bound: opens, writes and syncs that fail
  MaxReplayFaults,  \* bound: replays that fail although the file is sound
  MaxCrashes        \* bound: process crashes and power cuts

Tx == Coordinated \cup Participated

ASSUME RolesAssumption == Coordinated \cap Participated = {}
ASSUME LimitsAssumption ==
  /\ MaxRecords \in Nat /\ MaxQueue \in Nat /\ MaxFaults \in Nat
  /\ MaxReplayFaults \in Nat /\ MaxCrashes \in Nat

VARIABLES
  file,      \* the complete lines of the file, as a reader of it sees them
  torn,      \* the file ends in a line without its newline
  synced,    \* how many lines are certain to survive a power cut
  mem,       \* JournalState: next to serve, and next to append to
  writer,    \* the append that holds the mutex
  queue,     \* appends handed to the blocking pool
  status,    \* of the process: "up", "down", or "refused" to start
  confirmed, \* history: the records whose append returned Ok
  faults, replayFaults, crashes     \* counters of the bounded events

disk == <<file, torn, synced>>
process == <<mem, writer, queue, status>>
counters == <<faults, replayFaults, crashes>>
vars == <<disk, process, confirmed, counters>>

-----------------------------------------------------------------------------
(* Entries and the transitions between them.                               *)

CommitSide == {"CommitDecided", "Committed"}
States == {"Preparing", "Prepared", "AbortDecided", "Aborted"} \cup CommitSide
Flags == {"prepared", "committed", "aborted"}

\* One participant of the transaction carries the flags.
Bodies == [state : States, flags : SUBSET Flags]
Body(state, flags) == [state |-> state, flags |-> flags]
NoBody == Body("none", {})

RoleStates(tx) ==
  IF tx \in Coordinated THEN States
  ELSE {"Prepared", "CommitDecided", "Committed", "Aborted"}

Initial(tx) == IF tx \in Coordinated THEN {"Preparing"} ELSE {"Prepared", "Aborted"}

Successors(tx, state) ==
  {state} \cup
  CASE state = "Preparing" -> {"Prepared", "AbortDecided"}
    [] state = "Prepared" -> {"CommitDecided", IF tx \in Coordinated THEN "AbortDecided"
                                                                     ELSE "Aborted"}
    [] state = "CommitDecided" -> {"Committed"}
    [] state = "AbortDecided" -> {"Aborted"}
    [] OTHER -> {}

(***************************************************************************)
(* validate_journal_transition; known says whether there is an entry.      *)
(* The fields that never change are left out.                              *)
(***************************************************************************)
Valid(tx, known, old, new) ==
  /\ new.state \in RoleStates(tx)
  /\ tx \in Participated => new.flags = {}
  /\ ~known => new.state \in Initial(tx)
  /\ known => /\ new.state \in Successors(tx, old.state)
              /\ old.flags \subseteq new.flags
              /\ ~({"committed", "aborted"} \subseteq new.flags)

-----------------------------------------------------------------------------
(* Lines, the map in memory, replay.                                       *)

\* whole is FALSE for a line that does not parse or hash.
Lines == [seq : Nat, tx : Tx, body : Bodies, whole : BOOLEAN]

\* commit is the sequence number of the first commit decision, 0 for none.
Entries == [body : Bodies \cup {NoBody}, last : Nat, commit : Nat]
NoEntry == [body |-> NoBody, last |-> 0, commit |-> 0]
Memories == [seq : Nat, entry : [Tx -> Entries]]
EmptyMemory == [seq |-> 0, entry |-> [tx \in Tx |-> NoEntry]]

Known(entry) == entry.last > 0

LinesOf(f, tx, upTo) == {i \in 1..upTo : f[i].tx = tx}

EntryAt(f, tx, upTo) ==
  LET own == LinesOf(f, tx, upTo)
      decided == {i \in own : f[i].body.state \in CommitSide}
  IN IF own = {} THEN NoEntry
     ELSE [body |-> f[Max(own)].body, last |-> Max(own),
           commit |-> IF decided = {} THEN 0 ELSE Min(decided)]

(***************************************************************************)
(* What replay_journal demands of every line, in terms of the lines before *)
(* it.  The hash chain repeats what the sequence numbers say.              *)
(***************************************************************************)
Replayable(f) ==
  \A i \in 1..Len(f) :
    /\ f[i].whole /\ f[i].seq = i
    /\ LET before == EntryAt(f, f[i].tx, i - 1)
       IN Valid(f[i].tx, Known(before), before.body, f[i].body)

\* Mutant of Replay: the commit order is taken from the latest record.
ReplayLatestCommit(f) ==
  [seq |-> Len(f),
   entry |-> [tx \in Tx |->
     LET e == EntryAt(f, tx, Len(f))
     IN [e EXCEPT !.commit = IF @ = 0 THEN 0 ELSE e.last]]]

Replay(f) ==
  [seq |-> Len(f), entry |-> [tx \in Tx |-> EntryAt(f, tx, Len(f))]]

-----------------------------------------------------------------------------
Jobs == [tx : Tx, body : Bodies]
Idle == [phase |-> "idle"]

TypeOK ==
  /\ file \in Seq(Lines) /\ torn \in BOOLEAN /\ synced \in 0..Len(file)
  /\ mem \in Memories
  /\ writer \in {Idle} \cup [phase : {"write", "sync", "replay"}, job : Jobs]
  /\ queue \in SUBSET Jobs
  /\ status \in {"up", "down", "refused"}
  /\ confirmed \in SUBSET Lines
  /\ faults \in Nat /\ replayFaults \in Nat /\ crashes \in Nat

Init ==
  /\ file = <<>> /\ torn = FALSE /\ synced = 0
  /\ mem = EmptyMemory /\ writer = Idle /\ queue = {} /\ status = "up"
  /\ confirmed = {}
  /\ faults = 0 /\ replayFaults = 0 /\ crashes = 0

Readable == status = "up" /\ writer.phase = "idle"

(***************************************************************************)
(* What the handlers of the transaction manager append to an entry they    *)
(* have read.  A commit that is not yet acknowledged by all is rewritten   *)
(* as it is, with a new last_error.                                        *)
(***************************************************************************)
Continuations(tx, known, old) ==
  IF tx \in Participated
  THEN IF ~known THEN {Body("Prepared", {}), Body("Aborted", {})}
       ELSE CASE old.state = "Prepared" -> {Body("CommitDecided", {}), Body("Aborted", {})}
              [] old.state = "CommitDecided" -> {Body("Committed", {})}
              [] OTHER -> {}
  ELSE IF ~known THEN {Body("Preparing", {})}
  ELSE CASE old.state = "Preparing" ->
              {Body("AbortDecided", old.flags),
               Body(IF "prepared" \in old.flags THEN "Prepared" ELSE "Preparing", {"prepared"})}
         [] old.state = "Prepared" ->
              {Body("CommitDecided", old.flags), Body("AbortDecided", old.flags)}
         [] old.state = "CommitDecided" ->
              {old, IF "committed" \in old.flags THEN Body("Committed", old.flags)
                    ELSE Body("CommitDecided", old.flags \cup {"committed"})}
         [] old.state = "AbortDecided" ->
              {IF "aborted" \in old.flags THEN Body("Aborted", old.flags)
               ELSE Body("AbortDecided", old.flags \cup {"aborted"})}
         [] OTHER -> {}

Submit(tx) ==
  /\ Readable /\ Cardinality(queue) < MaxQueue
  /\ \E body \in Continuations(tx, Known(mem.entry[tx]), mem.entry[tx].body) :
       queue' = queue \cup {[tx |-> tx, body |-> body]}
  /\ UNCHANGED <<disk, mem, writer, status, confirmed, counters>>

-----------------------------------------------------------------------------
(* append, under the mutex.                                                *)

\* Mutant of Appendable: the transition was checked when it was submitted.
AppendableUnchecked(job) == Len(file) < MaxRecords

Appendable(job) ==
  /\ Valid(job.tx, Known(mem.entry[job.tx]), mem.entry[job.tx].body, job.body)
  /\ Len(file) < MaxRecords

BeginAppend(job) ==
  /\ Readable /\ job \in queue /\ Appendable(job)
  /\ writer' = [phase |-> "write", job |-> job]
  /\ queue' = queue \ {job}
  /\ UNCHANGED <<disk, mem, status, confirmed, counters>>

(***************************************************************************)
(* The transition is not valid any more, the file is at its cap, or it     *)
(* cannot be opened: an error, and nothing has changed.                    *)
(***************************************************************************)
RefuseAppend(job) ==
  /\ Readable /\ job \in queue
  /\ \/ ~Appendable(job) /\ UNCHANGED faults
     \/ Appendable(job) /\ faults < MaxFaults /\ faults' = faults + 1
  /\ queue' = queue \ {job}
  /\ UNCHANGED <<disk, mem, writer, status, confirmed, replayFaults, crashes>>

Record == [seq |-> mem.seq + 1, tx |-> writer.job.tx, body |-> writer.job.body, whole |-> ~torn]

(* write_all, which continues a torn line if there is one. *)
WriteRecord ==
  /\ writer.phase = "write"
  /\ file' = Append(file, Record)
  /\ torn' = FALSE
  /\ writer' = [writer EXCEPT !.phase = "sync"]
  /\ UNCHANGED <<synced, mem, queue, status, confirmed, counters>>

WriteFails ==
  /\ writer.phase = "write" /\ faults < MaxFaults
  /\ torn' \in {torn, TRUE}
  /\ writer' = [writer EXCEPT !.phase = "replay"]
  /\ faults' = faults + 1
  /\ UNCHANGED <<file, synced, mem, queue, status, confirmed, replayFaults, crashes>>

Written == [Record EXCEPT !.whole = file[Len(file)].whole]

(* sync_all and the sync of the directory; then the map. *)
SyncRecord ==
  /\ writer.phase = "sync"
  /\ synced' = Len(file)
  /\ LET tx == writer.job.tx
         seq == mem.seq + 1
     IN mem' = [seq |-> seq,
                entry |-> [mem.entry EXCEPT ![tx] =
                  [body |-> writer.job.body, last |-> seq,
                   commit |-> IF @.commit = 0 /\ writer.job.body.state \in CommitSide
                              THEN seq ELSE @.commit]]]
  /\ confirmed' = confirmed \cup {Written}
  /\ writer' = Idle
  /\ UNCHANGED <<file, torn, queue, status, counters>>

(* Either sync fails: the record may be durable or not. *)
SyncFails ==
  /\ writer.phase = "sync" /\ faults < MaxFaults
  /\ synced' \in {synced, Len(file)}
  /\ writer' = [writer EXCEPT !.phase = "replay"]
  /\ faults' = faults + 1
  /\ UNCHANGED <<file, torn, mem, queue, status, confirmed, replayFaults, crashes>>

\* Mutant of Repair: the file is cut where its last complete line begins.
RepairShort ==
  /\ torn' = FALSE
  /\ file' = IF torn THEN SubSeq(file, 1, Len(file) - 1) ELSE file
  /\ synced' = IF torn THEN Len(file) ELSE synced

(* The end of replay_journal: a torn tail is cut off and the file synced. *)
Repair ==
  /\ torn' = FALSE
  /\ file' = file
  /\ synced' = IF torn THEN Len(file) ELSE synced

\* Mutant of ReplayAfterFailure: the failed record is taken as not written.
ForgetAfterFailure ==
  /\ writer.phase = "replay" /\ Replayable(file)
  /\ Repair
  /\ writer' = Idle
  /\ UNCHANGED <<mem, queue, status, confirmed, counters>>

(***************************************************************************)
(* After a failed write or sync the map is read back from the file, which  *)
(* may or may not hold the record; the append returns the error anyway.    *)
(***************************************************************************)
ReplayAfterFailure ==
  /\ writer.phase = "replay" /\ Replayable(file)
  /\ mem' = Replay(file)
  /\ Repair
  /\ writer' = Idle
  /\ UNCHANGED <<queue, status, confirmed, counters>>

(* The replay fails too; the map stays as it was before the append. *)
ReplayFails ==
  /\ writer.phase = "replay"
  /\ \/ ~Replayable(file) /\ UNCHANGED <<torn, replayFaults>>
     \/ /\ Replayable(file) /\ replayFaults < MaxReplayFaults
        /\ replayFaults' = replayFaults + 1
        /\ torn' \in {torn, FALSE}
  /\ writer' = Idle
  /\ UNCHANGED <<file, synced, mem, queue, status, confirmed, faults, crashes>>

-----------------------------------------------------------------------------
(* Crashes and the start.                                                  *)

(***************************************************************************)
(* A crash of the process leaves the lines in the page cache, and perhaps  *)
(* part of the line that was being written.  A power cut leaves any prefix *)
(* that holds the synced lines.                                            *)
(***************************************************************************)
Crash ==
  /\ crashes < MaxCrashes /\ status # "refused"
  /\ crashes' = crashes + 1
  /\ status' = "down"
  /\ mem' = EmptyMemory /\ writer' = Idle /\ queue' = {}
  /\ \E kept \in synced..Len(file) :
       /\ file' = SubSeq(file, 1, kept)
       /\ torn' \in IF torn \/ writer.phase = "write" \/ kept < Len(file)
                    THEN BOOLEAN ELSE {FALSE}
  /\ UNCHANGED <<synced, confirmed, faults, replayFaults>>

\* Mutant of Restart: a journal that cannot be replayed is ignored.
RestartAnyway ==
  /\ status = "down"
  /\ status' = "up"
  /\ mem' = IF Replayable(file) THEN Replay(file) ELSE EmptyMemory
  /\ Repair
  /\ UNCHANGED <<writer, queue, confirmed, counters>>

Restart ==
  /\ status = "down"
  /\ \/ /\ Replayable(file)
        /\ status' = "up" /\ mem' = Replay(file) /\ Repair
     \/ /\ ~Replayable(file)
        /\ status' = "refused" /\ UNCHANGED <<disk, mem>>
  /\ UNCHANGED <<writer, queue, confirmed, counters>>

Next ==
  \/ \E tx \in Tx : Submit(tx)
  \/ \E job \in queue : BeginAppend(job) \/ RefuseAppend(job)
  \/ WriteRecord \/ WriteFails \/ SyncRecord \/ SyncFails
  \/ ReplayAfterFailure \/ ReplayFails
  \/ Crash \/ Restart

Spec == Init /\ [][Next]_vars

-----------------------------------------------------------------------------
(* Properties.                                                             *)

(***************************************************************************)
(* Whatever fails or crashes, replay accepts the file, stale appends of    *)
(* dropped handlers included, unless a replay after a failure failed too.  *)
(***************************************************************************)
FileReplayable == replayFaults = 0 => Replayable(file)

(***************************************************************************)
(* Between appends the map is what a restart would read: same entries,     *)
(* same sequence, same order of commit decisions for recovery.             *)
(***************************************************************************)
MemoryIsFile == Readable /\ replayFaults = 0 => mem = Replay(file) /\ ~torn

(***************************************************************************)
(* A hub that serves knows every record whose append returned Ok, or a     *)
(* later one of that transaction; what corrupts the file stops the start.  *)
(***************************************************************************)
ServesConfirmed ==
  status = "up" => \A r \in confirmed : mem.entry[r.tx].last >= r.seq

(***************************************************************************)
(* No commit decision known to be stored is ever replaced by an abort, nor *)
(* an abort by a commit, in any file a power cut can leave.                *)
(***************************************************************************)
DecisionFinal ==
  \A r \in confirmed : \A i \in 1..Len(file) :
    LET later == file[i]
    IN later.whole /\ later.tx = r.tx /\ later.seq > r.seq =>
         /\ r.body.state \in CommitSide => later.body.state \in CommitSide
         /\ r.body.state \in {"AbortDecided", "Aborted"} =>
              later.body.state \in {"AbortDecided", "Aborted"}

(* The journal in memory mirrors a well-formed file that replay accepts.   *)
JournalMirrored == TypeOK /\ FileReplayable /\ MemoryIsFile
=============================================================================
