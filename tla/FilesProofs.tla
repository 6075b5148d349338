----------------------------- MODULE FilesProofs -----------------------------
(***************************************************************************)
(* The two files a hub restarts from.                                      *)
(*                                                                         *)
(* The journal, for any transactions, any number of records, queued        *)
(* appends, failing operations, crashes and power cuts.  JournalInv is the *)
(* inductive invariant: where the file stands while an append is under way *)
(* (MirrorInv), that what was confirmed is a synced line (ConfirmedInv),   *)
(* and that the map knows at least that (ServedInv).                       *)
(*                                                                         *)
(* The snapshot, for any requests, versions, failing operations and        *)
(* crashes, as long as no save is left alone by its caller.  SnapshotInv   *)
(* is the inductive invariant: a hub starts from every directory that a    *)
(* power cut may bring back (DirectoriesInv), and a save holds what it was *)
(* asked for, and further on in which file (SaverInv).                     *)
(***************************************************************************)
EXTENDS TxJournal, SnapshotFile, FiniteSetTheorems, WellFoundedInduction, TLAPS

(* The map after the first n lines. *)
ReplayTo(f, n) == [seq |-> n, entry |-> [tx \in Tx |-> EntryAt(f, tx, n)]]

(* Line i is one that replay accepts after the lines before it. *)
LineFits(f, i) ==
  /\ f[i].whole /\ f[i].seq = i
  /\ LET before == EntryAt(f, f[i].tx, i - 1)
     IN Valid(f[i].tx, Known(before), before.body, f[i].body)

AbortSide == {"AbortDecided", "Aborted"}

(* A decision in a stands in b. *)
Keeps(a, b) ==
  /\ a.state \in CommitSide => b.state \in CommitSide
  /\ a.state \in AbortSide => b.state \in AbortSide

WriterInv ==
  /\ writer.phase # "idle" => status = "up"
  /\ writer.phase \in {"write", "sync"} =>
       LET entry == mem.entry[writer.job.tx]
       IN Valid(writer.job.tx, Known(entry), entry.body, writer.job.body)
  /\ writer.phase = "sync" =>
       /\ ~torn /\ Len(file) > 0
       /\ LET line == file[Len(file)]
          IN line.seq = mem.seq + 1 /\ line.tx = writer.job.tx /\ line.body = writer.job.body

MirrorInv ==
  replayFaults = 0 =>
    /\ Replayable(file)
    /\ status = "up" /\ writer.phase \in {"idle", "write"} => mem = Replay(file) /\ ~torn
    /\ writer.phase = "sync" => mem = ReplayTo(file, Len(file) - 1)

ConfirmedInv ==
  \A r \in confirmed : r.seq > 0 /\ \E j \in 1..synced : file[j] = r

ServedInv ==
  status = "up" =>
    /\ \A tx \in Tx : mem.entry[tx].last <= mem.seq
    /\ \A i \in 1..Len(file) : file[i].seq <= mem.seq + 1
    /\ \A r \in confirmed : /\ mem.entry[r.tx].last >= r.seq
                            /\ Keeps(r.body, mem.entry[r.tx].body)

JournalInv ==
  /\ TypeOK /\ WriterInv /\ MirrorInv /\ ConfirmedInv /\ ServedInv /\ DecisionFinal

-----------------------------------------------------------------------------
(* Sets of line numbers, and the entry of a transaction after some lines.  *)
LEMMA MinOf ==
  ASSUME NEW S \in SUBSET Nat, S # {}
  PROVE  Min(S) \in S /\ Min(S) \in Nat /\ \A y \in S : Min(S) <= y
<1>1. PICK x \in S : \A y \in S : ~ (<<y, x>> \in OpToRel(<, Nat))
  BY NatLessThanWellFounded, WFMin, Zenon
<1>2. \A y \in S : x \in Nat /\ y \in Nat /\ ~ (y < x)
  <2> TAKE y \in S
  <2>1. x \in Nat /\ y \in Nat /\ <<y, x>> \in Nat \X Nat
    OBVIOUS
  <2>2. ~ (<<y, x>>[1] < <<y, x>>[2])
    BY <1>1, <2>1, Zenon DEF OpToRel
  <2> QED BY <2>1, <2>2
<1>3. \A y \in S : x <= y
  BY <1>2
<1>4. PICK m : m = Min(S)
  OBVIOUS
<1>5. m \in S /\ \A y \in S : m <= y
  BY <1>3, <1>4 DEF Min
<1> QED BY <1>4, <1>5

LEMMA MaxOf ==
  ASSUME NEW n \in Nat, NEW S, S \subseteq 1..n, S # {}
  PROVE  Max(S) \in S /\ Max(S) \in 1..n /\ \A y \in S : y <= Max(S)
<1> DEFINE T == {n - x : x \in S}
<1>1. \A x \in S : x \in Nat /\ x <= n
  OBVIOUS
<1>2. T \in SUBSET Nat /\ T # {}
  <2>1. \A x \in S : n - x \in Nat
    BY <1>1
  <2> QED BY <2>1
<1>3. PICK m \in T : m \in Nat /\ \A y \in T : m <= y
  <2> HIDE DEF T
  <2> QED BY <1>2, MinOf
<1>4. PICK x \in S : m = n - x
  BY <1>3
<1>5. \A y \in S : x >= y
  <2> TAKE y \in S
  <2>1. n - y \in T
    OBVIOUS
  <2>2. m <= n - y
    BY <1>3, <2>1
  <2> QED BY <1>1, <1>4, <2>2
<1>6. PICK z : z = Max(S)
  OBVIOUS
<1>7. z \in S /\ \A y \in S : z >= y
  BY <1>5, <1>6 DEF Max
<1> QED BY <1>1, <1>6, <1>7

LEMMA LastIs ==
  ASSUME NEW n \in Nat, NEW S, S \subseteq 1..n, n \in S
  PROVE  Max(S) = n
<1>1. Max(S) \in 1..n /\ n <= Max(S)
  BY MaxOf
<1> QED BY <1>1

(* The number of the first commit decision, as EntryAt has it. *)
LEMMA FirstIs ==
  ASSUME NEW n \in Nat, NEW S, S \subseteq 1..n, NEW m, m = n + 1
  PROVE  Min(S \cup {m}) = IF S = {} THEN m ELSE Min(S)
<1>0. m \in Nat /\ S \in SUBSET Nat /\ \A y \in S : y \in Nat /\ y < m
  OBVIOUS
<1>1. /\ Min(S \cup {m}) \in S \cup {m} /\ Min(S \cup {m}) \in Nat
      /\ \A y \in S : Min(S \cup {m}) <= y
  BY <1>0, MinOf
<1>2. CASE S = {}
  BY <1>1, <1>2
<1>3. CASE S # {}
  <2>1. Min(S) \in S /\ Min(S) \in Nat /\ \A y \in S : Min(S) <= y
    BY <1>0, <1>3, MinOf
  <2>2. PICK a \in Nat, b \in Nat : a = Min(S) /\ b = Min(S \cup {m})
    BY <1>1, <2>1
  <2>3. b # m
    BY <1>0, <1>1, <2>1, <2>2
  <2>4. b <= a /\ a <= b
    BY <1>1, <2>1, <2>2, <2>3
  <2>5. a = b
    BY <2>4
  <2> QED BY <1>3, <2>2, <2>5
<1> QED BY <1>2, <1>3

LEMMA LineFields ==
  ASSUME NEW f \in Seq(Lines), NEW i \in 1..Len(f)
  PROVE  f[i] \in Lines /\ f[i].tx \in Tx /\ f[i].body \in Bodies /\ f[i].seq \in Nat
                        /\ f[i].whole \in BOOLEAN
<1>1. f[i] \in Lines
  OBVIOUS
<1> QED BY <1>1 DEF Lines

LEMMA EntryType ==
  ASSUME NEW f \in Seq(Lines), NEW n \in 0..Len(f), NEW tx \in Tx
  PROVE  /\ EntryAt(f, tx, n) \in Entries /\ EntryAt(f, tx, n).last <= n
         /\ EntryAt(f, tx, n).commit <= n
         /\ \A i \in 1..n : f[i].tx = tx => i <= EntryAt(f, tx, n).last
         /\ Known(EntryAt(f, tx, n)) =>
              LET last == EntryAt(f, tx, n).last
              IN last \in 1..n /\ f[last].tx = tx /\ EntryAt(f, tx, n).body = f[last].body
<1> DEFINE own == LinesOf(f, tx, n)
           decided == {i \in own : f[i].body.state \in CommitSide}
<1>1. n \in Nat /\ own \subseteq 1..n /\ decided \in SUBSET Nat /\ decided \subseteq 1..n
  BY DEF LinesOf
<1>2. CASE own = {}
  BY <1>2 DEF EntryAt, NoEntry, Entries, Known, LinesOf
<1>3. CASE own # {}
  <2>1. Max(own) \in own /\ Max(own) \in 1..n /\ \A y \in own : y <= Max(own)
    BY <1>1, <1>3, MaxOf
  <2>2. Max(own) \in 1..n /\ f[Max(own)].tx = tx /\ f[Max(own)].body \in Bodies
    BY <1>1, <2>1, LineFields DEF LinesOf
  <2>3. decided # {} => Min(decided) \in 1..n
    BY <1>1, MinOf
  <2>4. EntryAt(f, tx, n) = [body |-> f[Max(own)].body, last |-> Max(own),
                             commit |-> IF decided = {} THEN 0 ELSE Min(decided)]
    BY <1>3 DEF EntryAt
  <2> HIDE DEF decided
  <2>5. EntryAt(f, tx, n) \in Entries
    BY <2>2, <2>3, <2>4 DEF Entries
  <2> QED BY <2>1, <2>2, <2>3, <2>4, <2>5 DEF Known, LinesOf
<1> QED BY <1>2, <1>3

(* Only the first n lines matter. *)
LEMMA EntryOfPrefix ==
  ASSUME NEW f \in Seq(Lines), NEW g \in Seq(Lines), NEW n \in 0..Len(f), n <= Len(g),
         \A i \in 1..n : f[i] = g[i], NEW tx \in Tx
  PROVE  EntryAt(f, tx, n) = EntryAt(g, tx, n)
<1>1. LinesOf(f, tx, n) = LinesOf(g, tx, n)
  BY DEF LinesOf
<1>2. {i \in LinesOf(f, tx, n) : f[i].body.state \in CommitSide}
        = {i \in LinesOf(g, tx, n) : g[i].body.state \in CommitSide}
  BY <1>1 DEF LinesOf
<1>3. LinesOf(f, tx, n) # {} => f[Max(LinesOf(f, tx, n))] = g[Max(LinesOf(g, tx, n))]
  <2>1. n \in Nat /\ LinesOf(f, tx, n) \subseteq 1..n
    BY DEF LinesOf
  <2>2. LinesOf(f, tx, n) # {} => Max(LinesOf(f, tx, n)) \in 1..n
    BY <2>1, MaxOf
  <2> QED BY <1>1, <2>2
<1> QED BY <1>1, <1>2, <1>3 DEF EntryAt

(* One line more. *)
LEMMA EntryOfNext ==
  ASSUME NEW f \in Seq(Lines), NEW m \in 1..Len(f), NEW n, n = m - 1, NEW tx \in Tx
  PROVE  /\ f[m].tx # tx => EntryAt(f, tx, m) = EntryAt(f, tx, n)
         /\ f[m].tx = tx =>
              EntryAt(f, tx, m) =
                [body |-> f[m].body, last |-> m,
                 commit |-> IF EntryAt(f, tx, n).commit = 0 /\ f[m].body.state \in CommitSide
                            THEN m ELSE EntryAt(f, tx, n).commit]
<1> DEFINE own(k) == LinesOf(f, tx, k)
           decided(k) == {i \in own(k) : f[i].body.state \in CommitSide}
<1>1. n \in Nat /\ m = n + 1 /\ m \in Nat \ {0}
  OBVIOUS
<1>2. 1..m = (1..n) \cup {m}
  BY <1>1
<1>3. own(n) \subseteq 1..n /\ decided(n) \subseteq 1..n /\ own(m) \subseteq 1..m
  BY DEF LinesOf
<1>4. CASE f[m].tx # tx
  <2>1. own(m) = own(n)
    BY <1>2, <1>4 DEF LinesOf
  <2> QED BY <1>4, <2>1 DEF EntryAt
<1>5. CASE f[m].tx = tx
  <2>1. own(m) = own(n) \cup {m}
    BY <1>2, <1>5 DEF LinesOf
  <2>2. decided(m) = IF f[m].body.state \in CommitSide THEN decided(n) \cup {m} ELSE decided(n)
    BY <2>1
  <2>3. Max(own(m)) = m
    BY <1>1, <1>3, <2>1, LastIs
  <2>4. decided(n) # {} => Min(decided(n)) # 0
    <3>1. n \in Nat /\ decided(n) \in SUBSET Nat /\ \A i \in decided(n) : i # 0
      BY <1>1, <1>3
    <3> HIDE DEF own, decided
    <3> QED BY <3>1, MinOf
  <2>5. EntryAt(f, tx, n).commit = IF decided(n) = {} THEN 0 ELSE Min(decided(n))
    BY DEF EntryAt, NoEntry
  <2>6. EntryAt(f, tx, m) = [body |-> f[m].body, last |-> m,
                             commit |-> IF decided(m) = {} THEN 0 ELSE Min(decided(m))]
    BY <2>1, <2>3 DEF EntryAt
  <2> HIDE DEF own, decided
  <2>7. Min(decided(n) \cup {m}) = IF decided(n) = {} THEN m ELSE Min(decided(n))
    BY <1>1, <1>3, FirstIs
  <2>8. (IF decided(m) = {} THEN 0 ELSE Min(decided(m)))
          = IF EntryAt(f, tx, n).commit = 0 /\ f[m].body.state \in CommitSide
            THEN m ELSE EntryAt(f, tx, n).commit
    BY <2>2, <2>4, <2>5, <2>7
  <2> QED BY <1>5, <2>6, <2>8
<1> QED BY <1>4, <1>5

-----------------------------------------------------------------------------
(* Replay of a file, of a longer one and of a part.                        *)
LEMMA ReplayIs ==
  ASSUME NEW f \in Seq(Lines)
  PROVE  /\ Replay(f) = ReplayTo(f, Len(f)) /\ Replay(f) \in Memories
         /\ Replay(f).seq = Len(f)
         /\ \A tx \in Tx : Replay(f).entry[tx] = EntryAt(f, tx, Len(f))
         /\ Replayable(f) <=> \A i \in 1..Len(f) : LineFits(f, i)
<1>1. Len(f) \in Nat /\ \A tx \in Tx : EntryAt(f, tx, Len(f)) \in Entries
  BY EntryType
<1>2. Replay(f) \in Memories
  BY <1>1 DEF Replay, Memories
<1>3. Replayable(f) <=> \A i \in 1..Len(f) : LineFits(f, i)
  BY DEF Replayable, LineFits
<1> QED BY <1>2, <1>3 DEF Replay, ReplayTo

(* SyncRecord puts into the map what replay would. *)
LEMMA ReplayOfNext ==
  ASSUME NEW f \in Seq(Lines), NEW m, m = Len(f), m > 0, NEW map, map = ReplayTo(f, m - 1),
         NEW tx, tx = f[m].tx, NEW body, body = f[m].body
  PROVE  Replay(f) =
           [seq |-> map.seq + 1,
            entry |-> [map.entry EXCEPT ![tx] =
              [body |-> body, last |-> map.seq + 1,
               commit |-> IF @.commit = 0 /\ body.state \in CommitSide
                          THEN map.seq + 1 ELSE @.commit]]]
<1>1. m \in 1..Len(f) /\ m - 1 \in 0..Len(f) /\ map.seq = m - 1 /\ map.seq + 1 = m
  BY DEF ReplayTo
<1>2. tx \in Tx
  BY <1>1, LineFields
<1>3. map.entry = [t \in Tx |-> EntryAt(f, t, m - 1)]
  BY DEF ReplayTo
<1>4. ASSUME NEW t \in Tx
      PROVE  EntryAt(f, t, m) =
               IF t = tx THEN [body |-> body, last |-> m,
                               commit |-> IF map.entry[t].commit = 0 /\ body.state \in CommitSide
                                          THEN m ELSE map.entry[t].commit]
                         ELSE map.entry[t]
  BY <1>1, <1>3, EntryOfNext
<1> QED BY <1>1, <1>2, <1>3, <1>4 DEF Replay

(* A file with one line more, which fits. *)
LEMMA ReplayableNext ==
  ASSUME NEW f \in Seq(Lines), NEW r \in Lines, Replayable(f), r.whole, r.seq = Len(f) + 1,
         LET entry == EntryAt(f, r.tx, Len(f)) IN Valid(r.tx, Known(entry), entry.body, r.body)
  PROVE  /\ Append(f, r) \in Seq(Lines) /\ Replayable(Append(f, r))
         /\ ReplayTo(Append(f, r), Len(f)) = Replay(f)
<1> DEFINE g == Append(f, r)
<1>1. /\ g \in Seq(Lines) /\ Len(f) \in Nat /\ Len(g) = Len(f) + 1 /\ g[Len(g)] = r
      /\ \A i \in 1..Len(f) : g[i] = f[i]
  OBVIOUS
<1> HIDE DEF g
<1>2. ASSUME NEW n \in 0..Len(f), NEW tx \in Tx PROVE EntryAt(g, tx, n) = EntryAt(f, tx, n)
  <2>1. n \in 0..Len(g) /\ n <= Len(f) /\ \A i \in 1..n : g[i] = f[i]
    BY <1>1
  <2> QED BY <1>1, <2>1, EntryOfPrefix
<1>3. ASSUME NEW i \in 1..Len(g) PROVE LineFits(g, i)
  <2>1. CASE i \in 1..Len(f)
    <3>1. i - 1 \in 0..Len(f) /\ f[i].tx \in Tx
      BY <1>1, <2>1, LineFields
    <3>2. LineFits(f, i)
      BY <2>1, ReplayIs
    <3> QED BY <1>1, <1>2, <2>1, <3>1, <3>2 DEF LineFits
  <2>2. CASE i = Len(g)
    <3>1. i - 1 = Len(f) /\ Len(f) \in 0..Len(f) /\ r.tx \in Tx
      BY <1>1, <2>2 DEF Lines
    <3> QED BY <1>1, <1>2, <2>2, <3>1 DEF LineFits
  <2> QED BY <1>1, <2>1, <2>2
<1>4. Replayable(g)
  BY <1>1, <1>3, ReplayIs
<1>5. ReplayTo(g, Len(f)) = Replay(f)
  BY <1>1, <1>2 DEF ReplayTo, Replay
<1> QED BY <1>1, <1>4, <1>5 DEF g

(* A crash leaves a file that replay still accepts. *)
LEMMA ReplayablePart ==
  ASSUME NEW f \in Seq(Lines), NEW n \in 0..Len(f), Replayable(f)
  PROVE  Replayable(SubSeq(f, 1, n))
<1> DEFINE g == SubSeq(f, 1, n)
<1>1. g \in Seq(Lines) /\ Len(g) = n /\ \A i \in 1..n : g[i] = f[i]
  OBVIOUS
<1> HIDE DEF g
<1>2. ASSUME NEW i \in 1..n PROVE LineFits(g, i)
  <2>1. i \in 1..Len(f) /\ i - 1 \in 0..Len(g) /\ i - 1 <= Len(f) /\ \A j \in 1..(i-1) : g[j] = f[j]
    BY <1>1
  <2>2. LineFits(f, i) /\ f[i].tx \in Tx
    BY <2>1, ReplayIs, LineFields
  <2>3. EntryAt(g, f[i].tx, i - 1) = EntryAt(f, f[i].tx, i - 1)
    BY <1>1, <2>1, <2>2, EntryOfPrefix
  <2> QED BY <1>1, <2>2, <2>3 DEF LineFits
<1>3. Replayable(g)
  BY <1>1, <1>2, ReplayIs
<1> QED BY <1>3 DEF g

(* A transition that the code accepts never turns a decision around. *)
LEMMA ValidKeeps ==
  ASSUME NEW tx, NEW old \in Bodies, NEW new, Valid(tx, TRUE, old, new)
  PROVE  Keeps(old, new)
<1>1. new.state \in Successors(tx, old.state)
  BY DEF Valid
<1>2. CASE old.state = "CommitDecided"
  BY <1>1, <1>2 DEF Successors, Keeps, CommitSide, AbortSide
<1>3. CASE old.state = "AbortDecided"
  BY <1>1, <1>3 DEF Successors, Keeps, CommitSide, AbortSide
<1>4. CASE old.state \in {"Committed", "Aborted"}
  BY <1>1, <1>4 DEF Successors, Keeps, CommitSide, AbortSide
<1>5. CASE old.state \notin {"CommitDecided", "AbortDecided", "Committed", "Aborted"}
  BY <1>5 DEF Keeps, CommitSide, AbortSide
<1> QED BY <1>2, <1>3, <1>4, <1>5

-----------------------------------------------------------------------------
(* The steps.                                                              *)
LEMMA InitJournal == Init => JournalInv
<1> SUFFICES ASSUME Init PROVE JournalInv
  OBVIOUS
<1>1. /\ file \in Seq(Lines) /\ Len(file) = 0 /\ ~torn /\ synced = 0 /\ status = "up"
      /\ mem = EmptyMemory /\ writer.phase = "idle" /\ confirmed = {}
  BY DEF Init, Idle
<1>2. mem \in Memories /\ \A tx \in Tx : mem.entry[tx].last = 0 /\ mem.seq = 0
  BY <1>1 DEF EmptyMemory, Memories, NoEntry, Entries
<1>3. TypeOK
  <2>1. synced \in 0..Len(file)
    BY <1>1
  <2>2. torn \in BOOLEAN
    BY Zenon DEF Init
  <2> QED BY <1>1, <1>2, <2>1, <2>2 DEF Init, TypeOK
<1>4. Replayable(file)
  BY <1>1 DEF Replayable
<1>5. mem = Replay(file)
  <2>1. \A tx \in Tx : LinesOf(file, tx, 0) = {}
    BY DEF LinesOf
  <2> QED BY <1>1, <2>1 DEF EmptyMemory, Replay, EntryAt
<1> QED BY <1>1, <1>2, <1>3, <1>4, <1>5
        DEF JournalInv, WriterInv, MirrorInv, ConfirmedInv, ServedInv, DecisionFinal

(* A step of the queue only. *)
LEMMA QueueStep ==
  ASSUME JournalInv, UNCHANGED <<disk, mem, writer, status, confirmed, replayFaults>>,
         queue' \subseteq Jobs, faults' \in Nat, crashes' \in Nat
  PROVE  JournalInv'
<1> USE DEF disk
<1>1. TypeOK'
  BY DEF JournalInv, TypeOK
<1>2. WriterInv' /\ ConfirmedInv' /\ ServedInv' /\ DecisionFinal'
  BY DEF JournalInv, WriterInv, ConfirmedInv, ServedInv, DecisionFinal
<1>3. MirrorInv'
  BY DEF JournalInv, MirrorInv
<1> QED BY <1>1, <1>2, <1>3 DEF JournalInv

LEMMA SubmitKeeps ==
  ASSUME JournalInv, NEW tx \in Tx, Submit(tx)
  PROVE  JournalInv'
<1>1. PICK old : old = mem.entry[tx].body
  OBVIOUS
<1>2. old \in Bodies \cup {NoBody} /\ old.flags \subseteq Flags
  BY <1>1 DEF JournalInv, TypeOK, Memories, Entries, Bodies, NoBody, Body
<1>4. Continuations(tx, Known(mem.entry[tx]), old) \subseteq Bodies
  <2>1. old.state = "CommitDecided" => old \in Bodies
    BY <1>2 DEF NoBody, Body
  <2> QED BY <1>2, <2>1 DEF Continuations, Bodies, Body, States, CommitSide, Flags
<1>5. PICK body \in Continuations(tx, Known(mem.entry[tx]), mem.entry[tx].body) :
        queue' = queue \cup {[tx |-> tx, body |-> body]}
  BY DEF Submit
<1>6. body \in Bodies
  BY <1>1, <1>4, <1>5
<1>7. queue' \subseteq Jobs
  BY <1>5, <1>6 DEF JournalInv, TypeOK, Jobs
<1> QED BY <1>7, QueueStep DEF Submit, counters, JournalInv, TypeOK

LEMMA RefuseAppendKeeps ==
  ASSUME JournalInv, NEW job, RefuseAppend(job)
  PROVE  JournalInv'
BY QueueStep DEF RefuseAppend, JournalInv, TypeOK

LEMMA BeginAppendKeeps ==
  ASSUME JournalInv, NEW job \in queue, BeginAppend(job)
  PROVE  JournalInv'
<1> USE DEF disk, counters
<1>0. job \in Jobs
  BY DEF JournalInv, TypeOK
<1>1. writer'.phase = "write" /\ writer'.job = job /\ writer' \in [phase : {"write"}, job : Jobs]
  BY <1>0 DEF BeginAppend
<1>2. TypeOK'
  BY <1>1 DEF JournalInv, TypeOK, BeginAppend
<1>3. WriterInv'
  BY <1>1 DEF WriterInv, BeginAppend, Readable, Appendable
<1>4. MirrorInv'
  BY <1>1 DEF JournalInv, MirrorInv, BeginAppend, Readable
<1>5. ConfirmedInv' /\ ServedInv' /\ DecisionFinal'
  BY DEF JournalInv, ConfirmedInv, ServedInv, DecisionFinal, BeginAppend
<1> QED BY <1>2, <1>3, <1>4, <1>5 DEF JournalInv

LEMMA WriterFields ==
  ASSUME JournalInv, writer.phase # "idle"
  PROVE  /\ writer \in [phase : {"write", "sync", "replay"}, job : Jobs]
         /\ writer.job.tx \in Tx /\ writer.job.body \in Bodies /\ status = "up"
BY DEF JournalInv, TypeOK, Idle, WriterInv, Jobs

LEMMA WriteRecordKeeps ==
  ASSUME JournalInv, WriteRecord
  PROVE  JournalInv'
<1> USE DEF counters
<1>1. PICK r : r = Record
  OBVIOUS
<1>2. PICK tx \in Tx, body \in Bodies : tx = writer.job.tx /\ body = writer.job.body
  BY WriterFields DEF WriteRecord
<1>3. /\ r \in Lines /\ r.seq = mem.seq + 1 /\ r.tx = tx /\ r.body = body
      /\ r.whole = ~torn
  BY <1>1, <1>2 DEF Record, Lines, JournalInv, TypeOK, Memories
<1>4. /\ file \in Seq(Lines) /\ file' = Append(file, r) /\ file' \in Seq(Lines)
      /\ Len(file') = Len(file) + 1 /\ Len(file) \in Nat
      /\ file'[Len(file')] = r /\ \A i \in 1..Len(file) : file'[i] = file[i]
  BY <1>1, <1>3 DEF WriteRecord, JournalInv, TypeOK
<1>5. /\ writer' = [writer EXCEPT !.phase = "sync"] /\ writer'.phase = "sync"
      /\ writer'.job = writer.job /\ writer' \in [phase : {"sync"}, job : Jobs]
      /\ status' = "up" /\ status = "up"
  BY WriterFields DEF WriteRecord
<1>6. TypeOK'
  <2>1. synced' \in 0..Len(file')
    BY <1>4 DEF JournalInv, TypeOK, WriteRecord
  <2>2. writer' \in {Idle} \cup [phase : {"write", "sync", "replay"}, job : Jobs]
    BY <1>5
  <2>3. torn' \in BOOLEAN
    BY Zenon DEF WriteRecord
  <2> QED BY <1>4, <2>1, <2>2, <2>3 DEF JournalInv, TypeOK, WriteRecord
<1>7. Valid(tx, Known(mem.entry[tx]), mem.entry[tx].body, body)
  BY <1>2 DEF JournalInv, WriterInv, WriteRecord
<1>8. WriterInv'
  BY <1>2, <1>3, <1>4, <1>5, <1>7 DEF WriterInv, WriteRecord
<1>9. MirrorInv'
  <2> SUFFICES ASSUME replayFaults = 0
               PROVE  Replayable(file') /\ mem = ReplayTo(file', Len(file') - 1)
    BY <1>5 DEF MirrorInv, WriteRecord
  <2>1. Replayable(file) /\ mem = Replay(file) /\ ~torn
    BY <1>5 DEF JournalInv, MirrorInv, WriteRecord
  <2>2. mem.seq = Len(file) /\ mem.entry[tx] = EntryAt(file, tx, Len(file))
    BY <1>4, <2>1, ReplayIs
  <2>3. Replayable(Append(file, r)) /\ ReplayTo(Append(file, r), Len(file)) = Replay(file)
    BY <1>3, <1>4, <1>7, <2>1, <2>2, ReplayableNext
  <2> QED BY <1>4, <2>1, <2>3
<1>10. ConfirmedInv'
  BY <1>4 DEF JournalInv, ConfirmedInv, TypeOK, WriteRecord
<1>11. ServedInv'
  <2>1. \A i \in 1..Len(file') : i \in 1..Len(file) \/ i = Len(file')
    BY <1>4
  <2>2. \A i \in 1..Len(file') : file'[i].seq <= mem.seq + 1
    BY <1>3, <1>4, <1>5, <2>1 DEF JournalInv, ServedInv, TypeOK, Memories
  <2> QED BY <1>5, <2>2 DEF JournalInv, ServedInv, WriteRecord
<1>12. DecisionFinal'
  <2> SUFFICES ASSUME NEW d \in confirmed, NEW i \in 1..Len(file'),
                      file'[i].whole, file'[i].tx = d.tx, file'[i].seq > d.seq
               PROVE  Keeps(d.body, file'[i].body)
    BY DEF DecisionFinal, Keeps, AbortSide, WriteRecord
  <2>1. CASE i \in 1..Len(file)
    BY <1>4, <2>1 DEF JournalInv, DecisionFinal, Keeps, AbortSide
  <2>2. CASE i = Len(file')
    <3>1. d.tx = tx /\ d.seq > 0 /\ d.seq \in Nat
      BY <1>3, <1>4, <2>2 DEF JournalInv, TypeOK, ConfirmedInv, Lines
    <3>2. mem.entry[tx].last >= d.seq /\ Keeps(d.body, mem.entry[tx].body)
      BY <1>5, <3>1 DEF JournalInv, ServedInv
    <3>3. mem.entry[tx].last \in Nat /\ mem.entry[tx].body \in Bodies \cup {NoBody}
      BY DEF JournalInv, TypeOK, Memories, Entries
    <3>4. Known(mem.entry[tx])
      BY <3>1, <3>2, <3>3 DEF Known
    <3>5. Valid(tx, TRUE, mem.entry[tx].body, body)
      BY <1>7, <3>4 DEF Valid
    <3>6. Keeps(mem.entry[tx].body, body)
      <4>1. CASE mem.entry[tx].body = NoBody
        BY <4>1 DEF Keeps, NoBody, Body, CommitSide, AbortSide
      <4>2. CASE mem.entry[tx].body \in Bodies
        BY <3>5, <4>2, ValidKeeps
      <4> QED BY <3>3, <4>1, <4>2
    <3> QED BY <1>3, <1>4, <2>2, <3>2, <3>6 DEF Keeps
  <2> QED BY <1>4, <2>1, <2>2
<1> QED BY <1>6, <1>8, <1>9, <1>10, <1>11, <1>12 DEF JournalInv

(* The write, or a sync, fails: the file is read again. *)
LEMMA FailureKeeps ==
  ASSUME JournalInv, WriteFails \/ SyncFails
  PROVE  JournalInv'
<1> USE DEF counters
<1>1. /\ writer' = [writer EXCEPT !.phase = "replay"] /\ writer.phase \in {"write", "sync"}
      /\ UNCHANGED <<file, mem, queue, status, confirmed, replayFaults, crashes>>
      /\ faults' = faults + 1
  BY DEF WriteFails, SyncFails
<1>2. /\ writer'.phase = "replay" /\ writer' \in [phase : {"replay"}, job : Jobs]
      /\ status = "up"
  BY <1>1, WriterFields
<1>3. Len(file) \in Nat /\ synced \in 0..Len(file)
  BY DEF JournalInv, TypeOK
<1>4. synced' \in 0..Len(file') /\ synced <= synced'
  <2>1. synced' = synced \/ synced' = Len(file)
    BY DEF WriteFails, SyncFails
  <2> QED BY <1>1, <1>3, <2>1
<1>5. torn' \in BOOLEAN
  <2>1. torn \in BOOLEAN
    BY Zenon DEF JournalInv, TypeOK
  <2> QED BY <2>1, Zenon DEF WriteFails, SyncFails
<1>6. TypeOK'
  BY <1>1, <1>2, <1>4, <1>5 DEF JournalInv, TypeOK
<1>7. WriterInv' /\ MirrorInv' /\ ServedInv' /\ DecisionFinal'
  BY <1>1, <1>2 DEF JournalInv, WriterInv, MirrorInv, ServedInv, DecisionFinal
<1>8. ConfirmedInv'
  BY <1>1, <1>3, <1>4 DEF JournalInv, ConfirmedInv
<1> QED BY <1>6, <1>7, <1>8 DEF JournalInv

LEMMA SyncRecordKeeps ==
  ASSUME JournalInv, SyncRecord
  PROVE  JournalInv'
<1> USE DEF counters
<1>1. PICK tx \in Tx, body \in Bodies : tx = writer.job.tx /\ body = writer.job.body
  BY WriterFields DEF SyncRecord
<1>2. PICK n \in Nat : n = Len(file) /\ n > 0 /\ n \in 1..Len(file)
  BY DEF JournalInv, TypeOK, WriterInv, SyncRecord
<1>3. PICK line \in Lines : line = file[n]
  BY <1>2, LineFields DEF JournalInv, TypeOK
<1>4. /\ line.seq = mem.seq + 1 /\ line.tx = tx /\ line.body = body /\ ~torn
      /\ Valid(tx, Known(mem.entry[tx]), mem.entry[tx].body, body)
      /\ status = "up" /\ mem \in Memories /\ mem.seq \in Nat /\ mem.entry[tx] \in Entries
  BY <1>1, <1>2, <1>3, WriterFields DEF JournalInv, WriterInv, SyncRecord, TypeOK, Memories
<1>5. Written = line
  <2>1. Written = [seq |-> mem.seq + 1, tx |-> tx, body |-> body, whole |-> line.whole]
    BY <1>1, <1>2, <1>3 DEF Written, Record
  <2> QED BY <1>4, <2>1 DEF Lines
<1>6. PICK e : e = [body |-> body, last |-> mem.seq + 1,
                    commit |-> IF mem.entry[tx].commit = 0 /\ body.state \in CommitSide
                               THEN mem.seq + 1 ELSE mem.entry[tx].commit]
  OBVIOUS
<1>7. e \in Entries /\ e.last = mem.seq + 1 /\ e.body = body
  BY <1>4, <1>6 DEF Entries
<1>8. mem' = [seq |-> mem.seq + 1, entry |-> [mem.entry EXCEPT ![tx] = e]]
  BY <1>1, <1>6 DEF SyncRecord
<1>9. /\ mem' \in Memories /\ mem'.seq = mem.seq + 1
      /\ \A t \in Tx : mem'.entry[t] = IF t = tx THEN e ELSE mem.entry[t]
  BY <1>4, <1>7, <1>8 DEF Memories
<1>10. /\ confirmed' = confirmed \cup {line} /\ writer' = Idle /\ writer'.phase = "idle"
       /\ synced' = n /\ UNCHANGED <<file, torn, queue, status, counters>>
  BY <1>2, <1>5 DEF SyncRecord, Idle
<1>11. TypeOK'
  BY <1>2, <1>3, <1>9, <1>10 DEF JournalInv, TypeOK
<1>12. WriterInv'
  BY <1>10 DEF WriterInv
<1>13. MirrorInv'
  <2> SUFFICES ASSUME replayFaults = 0
               PROVE  mem' = Replay(file)
    BY <1>4, <1>10 DEF JournalInv, MirrorInv
  <2>1. mem = ReplayTo(file, n - 1)
    BY <1>2 DEF JournalInv, MirrorInv, SyncRecord
  <2>2. file \in Seq(Lines)
    BY DEF JournalInv, TypeOK
  <2> QED BY <1>2, <1>3, <1>4, <1>6, <1>8, <2>1, <2>2, ReplayOfNext
<1>14. ConfirmedInv'
  <2>1. n \in 1..synced'
    BY <1>2, <1>10
  <2>2. \A j \in 1..synced : j \in 1..synced'
    BY <1>2, <1>10 DEF JournalInv, TypeOK
  <2> QED BY <1>3, <1>4, <1>10, <2>1, <2>2 DEF JournalInv, ConfirmedInv
<1>15. \A d \in confirmed : d.seq \in Nat /\ d.seq <= mem.seq /\ d.tx \in Tx
  BY <1>4 DEF JournalInv, TypeOK, ServedInv, ConfirmedInv, Lines, Memories, Entries
<1>16. ServedInv'
  <2>1. \A t \in Tx : mem'.entry[t].last <= mem'.seq
    BY <1>4, <1>7, <1>9 DEF JournalInv, ServedInv, TypeOK, Memories, Entries
  <2>2. \A i \in 1..Len(file) : file[i].seq \in Nat
    BY LineFields DEF JournalInv, TypeOK
  <2>3. \A i \in 1..Len(file) : file[i].seq <= mem'.seq + 1
    BY <1>4, <1>9, <2>2 DEF JournalInv, ServedInv
  <2>4. ASSUME NEW d \in confirmed, d.tx = tx PROVE Keeps(d.body, body)
    <3>1. mem.entry[tx].last >= d.seq /\ Keeps(d.body, mem.entry[tx].body) /\ d.seq > 0
      BY <1>4, <2>4 DEF JournalInv, ServedInv, ConfirmedInv
    <3>2. Known(mem.entry[tx]) /\ mem.entry[tx].body \in Bodies \cup {NoBody}
      BY <1>4, <1>15, <3>1 DEF Known, Entries
    <3>3. Valid(tx, TRUE, mem.entry[tx].body, body)
      BY <1>4, <3>2 DEF Valid
    <3>4. CASE mem.entry[tx].body = NoBody
      BY <3>1, <3>3, <3>4 DEF Valid, Successors, NoBody, Body, CommitSide, Keeps, AbortSide
    <3>5. CASE mem.entry[tx].body \in Bodies
      BY <3>1, <3>3, <3>5, ValidKeeps DEF Keeps
    <3> QED BY <3>2, <3>4, <3>5
  <2>5. ASSUME NEW d \in confirmed'
        PROVE  mem'.entry[d.tx].last >= d.seq /\ Keeps(d.body, mem'.entry[d.tx].body)
    <3>1. CASE d = line
      BY <1>4, <1>7, <1>9, <3>1 DEF Keeps
    <3>2. CASE d \in confirmed /\ d.tx = tx
      BY <1>4, <1>7, <1>9, <1>15, <2>4, <3>2
    <3>3. CASE d \in confirmed /\ d.tx # tx
      BY <1>4, <1>9, <1>15, <3>3 DEF JournalInv, ServedInv
    <3> QED BY <1>10, <3>1, <3>2, <3>3
  <2> QED BY <1>10, <2>1, <2>3, <2>5 DEF ServedInv
<1>17. DecisionFinal'
  <2> SUFFICES ASSUME NEW d \in confirmed', NEW i \in 1..Len(file),
                      file[i].whole, file[i].tx = d.tx, file[i].seq > d.seq
               PROVE  Keeps(d.body, file[i].body)
    BY <1>10 DEF DecisionFinal, Keeps, AbortSide
  <2>1. d # line
    BY <1>4, LineFields DEF JournalInv, ServedInv, TypeOK
  <2> QED BY <1>10, <2>1 DEF JournalInv, DecisionFinal, Keeps, AbortSide
<1> QED BY <1>11, <1>12, <1>13, <1>14, <1>16, <1>17 DEF JournalInv

(* Replay of a file that it accepts serves what was confirmed.             *)
LEMMA ReplayServes ==
  ASSUME JournalInv, Replayable(file), NEW map, map = Replay(file)
  PROVE  /\ map \in Memories
         /\ \A tx \in Tx : map.entry[tx].last <= map.seq
         /\ \A i \in 1..Len(file) : file[i].seq <= map.seq + 1
         /\ \A d \in confirmed : /\ map.entry[d.tx].last >= d.seq
                                 /\ Keeps(d.body, map.entry[d.tx].body)
<1>1. PICK n \in Nat : n = Len(file)
  BY DEF JournalInv, TypeOK
<1>2. /\ file \in Seq(Lines) /\ map \in Memories /\ map.seq = n
      /\ \A tx \in Tx : map.entry[tx] = EntryAt(file, tx, n)
      /\ \A i \in 1..n : LineFits(file, i)
  BY <1>1, ReplayIs DEF JournalInv, TypeOK
<1>3. n \in 0..Len(file)
  BY <1>1
<1>4. \A tx \in Tx : map.entry[tx].last <= n
  BY <1>2, <1>3, EntryType
<1>5. \A i \in 1..n : file[i].seq <= n + 1
  BY <1>2 DEF LineFits
<1>6. ASSUME NEW d \in confirmed
      PROVE  map.entry[d.tx].last >= d.seq /\ Keeps(d.body, map.entry[d.tx].body)
  <2>1. PICK j \in 1..synced : file[j] = d
    BY DEF JournalInv, ConfirmedInv
  <2>2. j \in 1..n
    BY <1>1, <2>1 DEF JournalInv, TypeOK
  <2>3. d.seq = j /\ d.tx \in Tx
    BY <1>1, <1>2, <2>1, <2>2, LineFields DEF LineFits
  <2>4. PICK e : e = EntryAt(file, d.tx, n)
    OBVIOUS
  <2>5. e = map.entry[d.tx] /\ e \in Entries /\ j <= e.last
    BY <1>2, <1>3, <2>1, <2>2, <2>3, <2>4, EntryType
  <2>6. Known(e)
    BY <2>2, <2>5 DEF Known, Entries
  <2>7. PICK m \in 1..n : m = e.last /\ file[m].tx = d.tx /\ e.body = file[m].body
    BY <1>2, <1>3, <2>3, <2>4, <2>6, EntryType
  <2>8. file[m].whole /\ file[m].seq = m
    BY <1>2 DEF LineFits
  <2>9. CASE m = j
    BY <2>1, <2>3, <2>5, <2>7, <2>9 DEF Keeps
  <2>10. CASE m # j
    <3>1. m > j
      BY <2>2, <2>5, <2>7, <2>10
    <3>2. file[m].seq > d.seq /\ m \in 1..Len(file)
      BY <1>1, <2>3, <2>8, <3>1
    <3>3. Keeps(d.body, file[m].body)
      BY <2>7, <2>8, <3>2 DEF JournalInv, DecisionFinal, Keeps, AbortSide
    <3> QED BY <2>3, <2>5, <2>7, <3>3
  <2> QED BY <2>9, <2>10
<1> QED BY <1>1, <1>2, <1>4, <1>5, <1>6

(* What the end of replay_journal does to the file. *)
LEMMA RepairKeeps ==
  ASSUME JournalInv, Repair
  PROVE  /\ file' = file /\ torn' = FALSE /\ synced' \in 0..Len(file')
         /\ \A j \in 1..synced : j \in 1..synced'
<1>1. Len(file) \in Nat /\ synced \in 0..Len(file)
  BY DEF JournalInv, TypeOK
<1>2. synced' = synced \/ synced' = Len(file)
  BY DEF Repair
<1> QED BY <1>1, <1>2 DEF Repair

(* The map is what replay of the file gave. *)
LEMMA ReplayedKeeps ==
  ASSUME JournalInv, Replayable(file), mem' = Replay(file), Repair, status' = "up",
         writer' = Idle, UNCHANGED <<queue, confirmed, counters>>
  PROVE  JournalInv'
<1> USE DEF counters
<1>1. file' = file /\ torn' = FALSE /\ synced' \in 0..Len(file')
      /\ \A j \in 1..synced : j \in 1..synced'
  BY RepairKeeps
<1>2. PICK map : map = mem'
  OBVIOUS
<1>3. /\ map \in Memories
      /\ \A tx \in Tx : map.entry[tx].last <= map.seq
      /\ \A i \in 1..Len(file) : file[i].seq <= map.seq + 1
      /\ \A d \in confirmed : /\ map.entry[d.tx].last >= d.seq
                              /\ Keeps(d.body, map.entry[d.tx].body)
  BY <1>2, ReplayServes
<1>4. writer'.phase = "idle"
  BY DEF Idle
<1>5. torn' \in BOOLEAN
  BY <1>1, Zenon
<1>6. TypeOK'
  BY <1>1, <1>2, <1>3, <1>5 DEF JournalInv, TypeOK
<1>7. WriterInv' /\ MirrorInv'
  BY <1>1, <1>4 DEF WriterInv, MirrorInv
<1>8. ConfirmedInv'
  BY <1>1 DEF JournalInv, ConfirmedInv
<1>9. ServedInv'
  BY <1>1, <1>2, <1>3 DEF ServedInv
<1>10. DecisionFinal'
  BY <1>1 DEF JournalInv, DecisionFinal
<1> QED BY <1>6, <1>7, <1>8, <1>9, <1>10 DEF JournalInv

LEMMA ReplayAfterFailureKeeps ==
  ASSUME JournalInv, ReplayAfterFailure
  PROVE  JournalInv'
<1>1. status = "up"
  BY WriterFields DEF ReplayAfterFailure
<1> QED BY <1>1, ReplayedKeeps DEF ReplayAfterFailure

LEMMA ReplayFailsKeeps ==
  ASSUME JournalInv, ReplayFails
  PROVE  JournalInv'
<1>1. writer' = Idle /\ writer'.phase = "idle"
      /\ UNCHANGED <<file, synced, mem, queue, status, confirmed, faults, crashes>>
  BY DEF ReplayFails, Idle
<1>2. /\ replayFaults \in Nat /\ replayFaults' \in Nat
      /\ (~Replayable(file) /\ replayFaults' = replayFaults) \/ replayFaults' = replayFaults + 1
  <2>1. (~Replayable(file) /\ replayFaults' = replayFaults) \/ replayFaults' = replayFaults + 1
    BY Zenon DEF ReplayFails
  <2> QED BY <2>1 DEF JournalInv, TypeOK
<1>3. torn' \in BOOLEAN
  <2>1. torn \in BOOLEAN
    BY Zenon DEF JournalInv, TypeOK
  <2> QED BY <2>1, Zenon DEF ReplayFails
<1>4. TypeOK'
  BY <1>1, <1>2, <1>3 DEF JournalInv, TypeOK
<1>5. replayFaults' # 0
  BY <1>2 DEF JournalInv, MirrorInv
<1>6. WriterInv' /\ MirrorInv' /\ ConfirmedInv' /\ ServedInv' /\ DecisionFinal'
  BY <1>1, <1>5 DEF JournalInv, WriterInv, MirrorInv, ConfirmedInv, ServedInv, DecisionFinal
<1> QED BY <1>4, <1>6 DEF JournalInv

LEMMA CrashKeeps ==
  ASSUME JournalInv, Crash
  PROVE  JournalInv'
<1>1. PICK kept \in synced..Len(file) :
        /\ file' = SubSeq(file, 1, kept)
        /\ torn' \in IF torn \/ writer.phase = "write" \/ kept < Len(file) THEN BOOLEAN ELSE {FALSE}
  BY DEF Crash
<1>2. file \in Seq(Lines) /\ Len(file) \in Nat /\ synced \in 0..Len(file)
  BY DEF JournalInv, TypeOK
<1>3. kept \in 0..Len(file) /\ synced \in 0..kept
  BY <1>1, <1>2
<1>4. /\ file' \in Seq(Lines) /\ Len(file') = kept /\ \A i \in 1..kept : file'[i] = file[i]
  BY <1>1, <1>2, <1>3
<1>5. /\ status' = "down" /\ mem' = EmptyMemory /\ writer' = Idle /\ writer'.phase = "idle"
      /\ queue' = {} /\ crashes' = crashes + 1
      /\ UNCHANGED <<synced, confirmed, faults, replayFaults>>
  BY DEF Crash, Idle
<1>6. torn' \in BOOLEAN
  BY <1>1, Zenon
<1>7. mem' \in Memories
  BY <1>5 DEF EmptyMemory, Memories, NoEntry, Entries
<1>8. TypeOK'
  BY <1>3, <1>4, <1>5, <1>6, <1>7 DEF JournalInv, TypeOK
<1>9. WriterInv' /\ ServedInv'
  BY <1>5 DEF WriterInv, ServedInv
<1>10. MirrorInv'
  <2>1. replayFaults = 0 => Replayable(file')
    BY <1>1, <1>2, <1>3, ReplayablePart DEF JournalInv, MirrorInv
  <2> QED BY <1>5, <2>1 DEF MirrorInv
<1>11. ConfirmedInv'
  <2>1. \A j \in 1..synced : file'[j] = file[j]
    BY <1>3, <1>4
  <2> QED BY <1>5, <2>1 DEF JournalInv, ConfirmedInv
<1>12. DecisionFinal'
  <2>1. \A i \in 1..Len(file') : i \in 1..Len(file) /\ file'[i] = file[i]
    BY <1>2, <1>3, <1>4
  <2> QED BY <1>5, <2>1 DEF JournalInv, DecisionFinal
<1> QED BY <1>8, <1>9, <1>10, <1>11, <1>12 DEF JournalInv

LEMMA RestartKeeps ==
  ASSUME JournalInv, Restart
  PROVE  JournalInv'
<1>1. writer = Idle /\ writer.phase = "idle"
  BY DEF Restart, JournalInv, WriterInv, TypeOK, Idle
<1>2. CASE Replayable(file) /\ status' = "up" /\ mem' = Replay(file) /\ Repair
  BY <1>1, <1>2, ReplayedKeeps DEF Restart
<1>3. CASE status' = "refused" /\ UNCHANGED <<disk, mem>>
  <2> USE DEF disk, counters
  <2>1. TypeOK'
    BY <1>3 DEF JournalInv, TypeOK, Restart
  <2>2. WriterInv' /\ MirrorInv' /\ ConfirmedInv' /\ ServedInv' /\ DecisionFinal'
    BY <1>1, <1>3 DEF JournalInv, WriterInv, MirrorInv, ConfirmedInv, ServedInv, DecisionFinal,
                      Restart
  <2> QED BY <2>1, <2>2 DEF JournalInv
<1> QED BY <1>2, <1>3 DEF Restart

-----------------------------------------------------------------------------
(* JournalInv is inductive.                                                *)
LEMMA NextJournal ==
  ASSUME JournalInv, [Next]_vars
  PROVE  JournalInv'
<1>1. CASE UNCHANGED vars
  BY <1>1, QueueStep DEF vars, process, counters, JournalInv, TypeOK
<1>2. ASSUME NEW tx \in Tx, Submit(tx) PROVE JournalInv'
  BY <1>2, SubmitKeeps
<1>3. ASSUME NEW job \in queue, BeginAppend(job) \/ RefuseAppend(job) PROVE JournalInv'
  BY <1>3, BeginAppendKeeps, RefuseAppendKeeps
<1>4. CASE WriteRecord \/ SyncRecord
  BY <1>4, WriteRecordKeeps, SyncRecordKeeps
<1>5. CASE WriteFails \/ SyncFails
  BY <1>5, FailureKeeps
<1>6. CASE ReplayAfterFailure \/ ReplayFails
  BY <1>6, ReplayAfterFailureKeeps, ReplayFailsKeeps
<1>7. CASE Crash \/ Restart
  BY <1>7, CrashKeeps, RestartKeeps
<1> QED BY <1>1, <1>2, <1>3, <1>4, <1>5, <1>6, <1>7 DEF Next

LEMMA JournalAlways == Spec => []JournalInv
BY InitJournal, NextJournal, PTL DEF Spec

(***************************************************************************)
(* The file is one that replay accepts, and between appends the map is     *)
(* what replay would make of it, unless a replay failed as well:           *)
(* DurableTxJournal::append and replay_journal.                            *)
(***************************************************************************)
THEOREM JournalIsMirrored == Spec => []JournalMirrored
<1>1. JournalInv => JournalMirrored
  BY DEF JournalInv, MirrorInv, JournalMirrored, FileReplayable, MemoryIsFile, Readable
<1> QED BY JournalAlways, <1>1, PTL

(***************************************************************************)
(* Whatever append returned Ok for, a hub that is up knows, after any      *)
(* number of failures, crashes and power cuts.                             *)
(***************************************************************************)
THEOREM ConfirmedIsServed == Spec => []ServesConfirmed
<1>1. JournalInv => ServesConfirmed
  BY DEF JournalInv, ServedInv, ServesConfirmed
<1> QED BY JournalAlways, <1>1, PTL

(***************************************************************************)
(* validate_journal_transition against the map keeps decisions in the      *)
(* file, also for appends that outlive their handler.                      *)
(***************************************************************************)
THEOREM DecisionsAreFinal == Spec => []DecisionFinal
<1>1. JournalInv => DecisionFinal
  BY DEF JournalInv
<1> QED BY JournalAlways, <1>1, PTL
-----------------------------------------------------------------------------
(* The snapshot.                                                           *)

SaverRecords ==
  [phase : Phases, asked : Versions, version : Versions, file : 0 .. MaxFiles, called : BOOLEAN]

(***************************************************************************)
(* A directory d from which a hub starts: its snapshot and its backup are  *)
(* whole and synced and not the file that is written next, and the one     *)
(* that is loaded has what was answered for, unless the only backup has    *)
(* been removed.                                                           *)
(***************************************************************************)
Fits(d, written, onDisk, tmp, answered, danger) ==
  /\ \A m, n \in Names : d[m] = d[n] /\ d[m] # 0 => m = n
  /\ \A n \in {"snapshot", "backup"} :
       d[n] # 0 => Whole(written[d[n]]) /\ onDisk[d[n]] = written[d[n]] /\ d[n] # tmp
  /\ danger # "lost" =>
       /\ d["snapshot"] # 0 => written[d["snapshot"]].first >= answered
       /\ d["snapshot"] = 0 /\ d["backup"] # 0 => written[d["backup"]].first >= answered
       /\ d["snapshot"] = 0 /\ d["backup"] = 0 => answered = 0 \/ danger = "bare"

DirectoriesInv ==
  /\ past # << >> /\ names = past[Len(past)]
  /\ \A i \in 1 .. Len(past) : Fits(past[i], content, flushed, names["tmp"], acked, exposed)
  /\ exposed = "bare" => Windows /\ running = "up" /\ names["snapshot"] = 0 /\ names["backup"] = 0

(* A caller waits; only who holds the lock is at work. *)
CallerInv(s) ==
  /\ saver[s].called /\ (Busy(s) <=> s \in lock)
  /\ saver[s].phase # "idle" => running = "up" /\ saver[s].asked <= inMemory

(* The version of a save covers what it was asked for and all answers.     *)
VersionInv(s) ==
  Busy(s) => /\ saver[s].version # 0 /\ saver[s].asked <= saver[s].version
             /\ saver[s].version <= inMemory
             /\ exposed # "lost" => acked <= saver[s].version

(* How far a save is, and what its file and the directory show of it.      *)
ProgressInv(s) ==
  /\ saver[s].phase \in {"opened", "half", "written", "synced", "rotate", "activate"} =>
       saver[s].file # 0 /\ saver[s].file = names["tmp"]
  /\ saver[s].phase = "half" => content[saver[s].file].first = saver[s].version
  /\ saver[s].phase \in {"written", "synced", "rotate", "activate"} =>
       content[saver[s].file] = [first |-> saver[s].version, second |-> saver[s].version]
  /\ saver[s].phase \in {"synced", "rotate", "activate"} =>
       flushed[saver[s].file] = content[saver[s].file]
  /\ saver[s].phase \in {"renamed", "cleanup"} =>
       names["snapshot"] # 0 /\ content[names["snapshot"]].first = saver[s].version
  /\ saver[s].phase = "rotate" => names["backup"] = 0
  /\ saver[s].phase = "activate" => names["snapshot"] = 0

SaverInv(s) == CallerInv(s) /\ VersionInv(s) /\ ProgressInv(s)

MemoryInv ==
  /\ running # "refused"
  /\ running = "up" /\ exposed # "lost" => acked <= inMemory

SnapshotInv ==
  /\ SnapshotTypeOK /\ (\A s, t \in lock : s = t) /\ (\A s \in Savers : SaverInv(s))
  /\ DirectoriesInv /\ MemoryInv

-----------------------------------------------------------------------------
LEMMA SnapshotKinds ==
  ASSUME SnapshotInv
  PROVE  /\ saver \in [Savers -> SaverRecords] /\ lock \in SUBSET Savers
         /\ names \in Directories /\ past \in Seq(Directories)
         /\ Len(past) \in Nat /\ Len(past) >= 1 /\ Len(past) \in 1 .. Len(past)
         /\ names = past[Len(past)]
         /\ content \in [Files -> Halves] /\ flushed \in [Files -> Halves]
         /\ inMemory \in Nat /\ inMemory >= 1 /\ inMemory <= MaxVersion /\ acked \in Versions
         /\ acked \in Nat /\ MaxVersion \in Nat /\ MaxVersion >= 1 /\ MaxFiles \in Nat
<1>1. /\ saver \in [Savers -> SaverRecords] /\ lock \in SUBSET Savers
      /\ names \in Directories /\ past \in Seq(Directories)
      /\ content \in [Files -> Halves] /\ flushed \in [Files -> Halves]
      /\ inMemory \in 1 .. MaxVersion /\ acked \in Versions
  BY DEF SnapshotInv, SnapshotTypeOK, SaverRecords
<1>2. past # << >> /\ names = past[Len(past)]
  BY DEF SnapshotInv, DirectoriesInv
<1>3. Len(past) \in Nat /\ Len(past) >= 1
  BY <1>1, <1>2
<1>4. MaxVersion \in Nat /\ MaxVersion >= 1 /\ MaxFiles \in Nat
  BY BoundsAssumption
<1> QED BY <1>1, <1>2, <1>3, <1>4 DEF Versions

LEMMA SaverKinds ==
  ASSUME NEW r \in SaverRecords
  PROVE  /\ r.phase \in Phases /\ r.asked \in Versions /\ r.version \in Versions
         /\ r.file \in 0 .. MaxFiles /\ r.called \in BOOLEAN
         /\ r.asked \in Nat /\ r.version \in Nat /\ r.version <= MaxVersion
BY BoundsAssumption DEF SaverRecords, Versions

LEMMA HalfKinds ==
  ASSUME NEW h \in Halves
  PROVE  /\ h.first \in Nat /\ h.second \in Nat /\ h.first <= MaxVersion
         /\ h = [first |-> h.first, second |-> h.second]
BY BoundsAssumption DEF Halves, Versions

LEMMA NewSaver == NotSaving \in SaverRecords /\ NotSaving.phase = "idle" /\ NotSaving.called
BY BoundsAssumption DEF NotSaving, SaverRecords, Versions, Phases

LEMMA NewWaiting ==
  ASSUME NEW version \in Versions
  PROVE  LET me == [NotSaving EXCEPT !.phase = "waiting", !.asked = version]
         IN me \in SaverRecords /\ me.phase = "waiting" /\ me.asked = version /\ me.called
<1> DEFINE me == [NotSaving EXCEPT !.phase = "waiting", !.asked = version]
<1>1. NotSaving \in SaverRecords /\ NotSaving.called
  BY NewSaver
<1>2. "waiting" \in Phases
  BY DEF Phases
<1>3. me \in SaverRecords /\ me.phase = "waiting" /\ me.asked = version /\ me.called
  BY <1>1, <1>2 DEF SaverRecords
<1> QED BY <1>3

LEMMA NewDirectory == NoDirectory \in Directories /\ \A n \in Names : NoDirectory[n] = 0
BY BoundsAssumption DEF NoDirectory, Directories

(* A directory fits as long as its files stay as they are. *)
LEMMA FitsStays ==
  ASSUME NEW d, NEW e, NEW written, NEW onDisk, NEW tmp, NEW writtenNow, NEW onDiskNow, NEW tmpNow,
         NEW answered, NEW danger,
         Fits(d, written, onDisk, tmp, answered, danger),
         e["snapshot"] = d["snapshot"], e["backup"] = d["backup"],
         e["tmp"] # 0 => e["tmp"] # d["snapshot"] /\ e["tmp"] # d["backup"],
         \A n \in {"snapshot", "backup"} :
           d[n] # 0 => writtenNow[d[n]] = written[d[n]] /\ onDiskNow[d[n]] = onDisk[d[n]] /\ d[n] # tmpNow
  PROVE  Fits(e, writtenNow, onDiskNow, tmpNow, answered, danger)
<1>1. \A m, n \in Names : e[m] = e[n] /\ e[m] # 0 => m = n
  <2>1. d["snapshot"] # 0 => d["snapshot"] # d["backup"]
    BY DEF Fits, Names
  <2> QED BY <2>1 DEF Names
<1> QED BY <1>1 DEF Fits

(* The one who works is alone. *)
LEMMA OthersRest ==
  ASSUME SnapshotInv, NEW s \in Savers, NEW me, saver' = [saver EXCEPT ![s] = me],
         \A t \in lock : t = s, \A t \in Savers \ {s} : t \notin lock',
         running' = running, inMemory' = inMemory
  PROVE  /\ saver'[s] = me /\ \A t \in Savers \ {s} : SaverInv(t)'
         /\ me \in SaverRecords => saver' \in [Savers -> SaverRecords]
<1>1. saver \in [Savers -> SaverRecords]
  BY SnapshotKinds
<1>2. saver'[s] = me /\ \A t \in Savers \ {s} : saver'[t] = saver[t]
  BY <1>1
<1>3. ASSUME NEW t \in Savers \ {s} PROVE SaverInv(t)'
  <2>1. ~ Busy(t) /\ CallerInv(t)
    BY DEF SnapshotInv, SaverInv, CallerInv
  <2>2. saver[t].phase \in {"idle", "waiting"}
    BY <2>1 DEF Busy
  <2>3. ~ Busy(t)' /\ CallerInv(t)'
    BY <1>2, <2>1, <2>2 DEF Busy, CallerInv
  <2> QED BY <1>2, <2>2, <2>3 DEF SaverInv, VersionInv, ProgressInv
<1> QED BY <1>1, <1>2, <1>3

(* Nothing changes for the others. *)
LEMMA OthersKept ==
  ASSUME SnapshotInv, NEW s \in Savers, NEW me, saver' = [saver EXCEPT ![s] = me],
         lock' = lock, UNCHANGED <<names, content, flushed, acked, exposed, running>>,
         inMemory' \in Nat, inMemory' >= inMemory
  PROVE  /\ saver'[s] = me /\ \A t \in Savers \ {s} : SaverInv(t)'
         /\ me \in SaverRecords => saver' \in [Savers -> SaverRecords]
<1>1. saver \in [Savers -> SaverRecords] /\ inMemory \in Nat
  BY SnapshotKinds
<1>2. saver'[s] = me /\ \A t \in Savers \ {s} : saver'[t] = saver[t]
  BY <1>1
<1>3. ASSUME NEW t \in Savers \ {s} PROVE SaverInv(t)'
  <2>1. SaverInv(t) /\ saver[t].asked \in Nat /\ saver[t].version \in Nat
    BY <1>1, SaverKinds DEF SnapshotInv
  <2>2. saver'[t] = saver[t]
    BY <1>2
  <2>3. CallerInv(t)'
    BY <1>1, <2>1, <2>2 DEF SaverInv, CallerInv, Busy
  <2>4. VersionInv(t)'
    BY <1>1, <2>1, <2>2 DEF SaverInv, VersionInv, Busy
  <2>5. ProgressInv(t)'
    BY <2>1, <2>2 DEF SaverInv, ProgressInv
  <2> QED BY <2>3, <2>4, <2>5 DEF SaverInv
<1> QED BY <1>1, <1>2, <1>3

(* The lock has one holder at most. *)
LEMMA OneHolder ==
  ASSUME NEW L, NEW s, L \subseteq {s}
  PROVE  Cardinality(L) <= 1
<1>1. CASE L = {}
  BY <1>1, FS_EmptySet
<1>2. CASE L = {s}
  <2>1. Cardinality({s}) = 1
    BY FS_Singleton
  <2> QED BY <1>2, <2>1
<1> QED BY <1>1, <1>2

(* The holder of the lock. *)
LEMMA Holder ==
  ASSUME SnapshotInv, NEW s \in Savers, saver[s].phase \notin {"idle", "waiting"}
  PROVE  /\ Busy(s) /\ lock = {s} /\ running = "up" /\ saver[s].called
         /\ SaverInv(s) /\ (\A t \in lock : t = s) /\ saver[s] \in SaverRecords
         /\ saver[s].asked \in Nat /\ saver[s].version \in Nat /\ saver[s].version >= 1
         /\ saver[s].version \in Versions /\ saver[s].asked <= saver[s].version
         /\ saver[s].version <= inMemory
<1>1. SaverInv(s) /\ Busy(s) /\ saver[s] \in SaverRecords
  BY SnapshotKinds DEF SnapshotInv, Busy
<1>2. s \in lock /\ running = "up" /\ saver[s].called
  BY <1>1 DEF SaverInv, CallerInv
<1>3. lock = {s}
  BY <1>2 DEF SnapshotInv
<1>4. /\ saver[s].asked \in Nat /\ saver[s].version \in Nat /\ saver[s].version \in Versions
      /\ saver[s].version # 0 /\ saver[s].asked <= saver[s].version /\ saver[s].version <= inMemory
  BY <1>1, SaverKinds DEF SaverInv, VersionInv
<1> QED BY <1>1, <1>2, <1>3, <1>4

(* What stands in the directories stands also when only callers move. *)
LEMMA DirectoriesKept ==
  ASSUME SnapshotInv, UNCHANGED <<fileSystem, acked, exposed, running, target>>
  PROVE  DirectoriesInv'
BY DEF SnapshotInv, DirectoriesInv, fileSystem, Windows

-----------------------------------------------------------------------------
(* Callers. *)
LEMMA MutateInv == ASSUME SnapshotInv, NEW r \in Requests, Mutate(r) PROVE SnapshotInv'
<1> DEFINE me == [NotSaving EXCEPT !.phase = "waiting", !.asked = inMemory + 1]
<1>1. /\ running = "up" /\ saver[r].phase = "idle" /\ inMemory < MaxVersion
      /\ inMemory' = inMemory + 1 /\ saver' = [saver EXCEPT ![r] = me]
      /\ UNCHANGED <<lock, fileSystem, running, acked, bounds, target, exposed>>
  BY DEF Mutate
<1>2. /\ inMemory \in Nat /\ inMemory >= 1 /\ MaxVersion \in Nat /\ acked \in Nat
      /\ saver \in [Savers -> SaverRecords]
  BY SnapshotKinds
<1>3. inMemory' \in 1 .. MaxVersion /\ inMemory' \in Nat /\ inMemory' >= inMemory
      /\ inMemory + 1 \in Versions
  BY <1>1, <1>2 DEF Versions
<1>4. /\ me \in SaverRecords /\ me.phase = "waiting" /\ me.asked = inMemory + 1 /\ me.called
  BY <1>3, NewWaiting
<1> HIDE DEF me
<1>5. r \in Savers /\ UNCHANGED <<names, past, content, flushed, lock, running, acked, exposed>>
  BY <1>1 DEF Savers, fileSystem
<1>6. /\ saver'[r] = me /\ \A t \in Savers \ {r} : SaverInv(t)'
      /\ saver' \in [Savers -> SaverRecords]
  BY <1>1, <1>3, <1>4, <1>5, OthersKept
<1>7. SaverInv(r)'
  <2>1. r \notin lock
    BY <1>1, <1>5 DEF SnapshotInv, SaverInv, CallerInv, Busy
  <2>2. CallerInv(r)'
    BY <1>1, <1>3, <1>4, <1>5, <1>6, <2>1 DEF CallerInv, Busy
  <2> QED BY <1>4, <1>6, <2>2 DEF SaverInv, VersionInv, ProgressInv, Busy
<1>8. SnapshotTypeOK'
  BY <1>1, <1>3, <1>5, <1>6 DEF SnapshotInv, SnapshotTypeOK, SaverRecords, bounds
<1>9. MemoryInv'
  BY <1>1, <1>2, <1>3 DEF SnapshotInv, MemoryInv
<1>10. DirectoriesInv'
  BY <1>1, DirectoriesKept
<1> QED BY <1>5, <1>6, <1>7, <1>8, <1>9, <1>10 DEF SnapshotInv

LEMMA TickInv == ASSUME SnapshotInv, Tick PROVE SnapshotInv'
<1> DEFINE me == [NotSaving EXCEPT !.phase = "waiting"]
<1>1. /\ running = "up" /\ saver[Loop].phase = "idle" /\ saver' = [saver EXCEPT ![Loop] = me]
      /\ UNCHANGED <<inMemory, lock, fileSystem, running, acked, bounds, target, exposed>>
  BY DEF Tick
<1>2. inMemory \in Nat /\ inMemory >= 1
  BY SnapshotKinds
<1>3. /\ me \in SaverRecords /\ me.phase = "waiting" /\ me.asked = 0 /\ me.called
  <2>1. NotSaving \in SaverRecords /\ NotSaving.called /\ NotSaving.asked = 0
    BY NewSaver DEF NotSaving
  <2>2. "waiting" \in Phases
    BY DEF Phases
  <2> QED BY <2>1, <2>2 DEF SaverRecords
<1> HIDE DEF me
<1>4. Loop \in Savers /\ UNCHANGED <<names, past, content, flushed, lock, running, acked, exposed>>
      /\ inMemory' = inMemory /\ inMemory' \in Nat /\ inMemory' >= inMemory
  BY <1>1, <1>2 DEF Savers, fileSystem
<1>5. /\ saver'[Loop] = me /\ \A t \in Savers \ {Loop} : SaverInv(t)'
      /\ saver' \in [Savers -> SaverRecords]
  BY <1>1, <1>2, <1>3, <1>4, OthersKept
<1>6. SaverInv(Loop)'
  <2>1. Loop \notin lock
    BY <1>1, <1>4 DEF SnapshotInv, SaverInv, CallerInv, Busy
  <2>2. CallerInv(Loop)'
    BY <1>1, <1>2, <1>3, <1>4, <1>5, <2>1 DEF CallerInv, Busy
  <2> QED BY <1>3, <1>5, <2>2 DEF SaverInv, VersionInv, ProgressInv, Busy
<1>7. SnapshotTypeOK'
  BY <1>1, <1>4, <1>5 DEF SnapshotInv, SnapshotTypeOK, SaverRecords, bounds
<1>8. MemoryInv'
  BY <1>1 DEF SnapshotInv, MemoryInv
<1>9. DirectoriesInv'
  BY <1>1, DirectoriesKept
<1> QED BY <1>4, <1>5, <1>6, <1>7, <1>8, <1>9 DEF SnapshotInv

LEMMA CaptureInv == ASSUME SnapshotInv, NEW s \in Savers, Capture(s) PROVE SnapshotInv'
<1> DEFINE me == [saver[s] EXCEPT !.phase = "captured", !.version = inMemory]
<1>1. /\ saver[s].phase = "waiting" /\ lock = {} /\ lock' = {s}
      /\ saver' = [saver EXCEPT ![s] = me]
      /\ UNCHANGED <<inMemory, fileSystem, running, acked, bounds, target, exposed>>
  BY DEF Capture
<1>2. /\ inMemory \in Nat /\ inMemory >= 1 /\ inMemory <= MaxVersion /\ MaxVersion \in Nat
      /\ saver[s] \in SaverRecords /\ acked \in Nat
  BY SnapshotKinds
<1>3. inMemory \in Versions
  BY <1>2 DEF Versions
<1>4. /\ me \in SaverRecords /\ me.phase = "captured" /\ me.asked = saver[s].asked
      /\ me.called = saver[s].called /\ me.version = inMemory
  BY <1>2, <1>3 DEF SaverRecords, Phases
<1> HIDE DEF me
<1>5. UNCHANGED <<names, past, content, flushed, running, acked, exposed, inMemory>>
  BY <1>1 DEF fileSystem
<1>6. /\ saver'[s] = me /\ \A t \in Savers \ {s} : SaverInv(t)'
      /\ saver' \in [Savers -> SaverRecords]
  BY <1>1, <1>4, <1>5, OthersRest
<1>7. CallerInv(s)
  BY DEF SnapshotInv, SaverInv
<1>8. running = "up" /\ saver[s].asked <= inMemory /\ saver[s].called
  BY <1>1, <1>7 DEF CallerInv
<1>9. SaverInv(s)'
  <2>1. CallerInv(s)'
    BY <1>1, <1>4, <1>5, <1>6, <1>8 DEF CallerInv, Busy
  <2>2. VersionInv(s)'
    BY <1>2, <1>4, <1>5, <1>6, <1>8 DEF VersionInv, SnapshotInv, MemoryInv
  <2> QED BY <1>4, <1>6, <2>1, <2>2 DEF SaverInv, ProgressInv
<1>10. SnapshotTypeOK'
  <2>1. Cardinality(lock') <= 1 /\ lock' \in SUBSET Savers
    BY <1>1, OneHolder
  <2> QED BY <1>1, <1>5, <1>6, <2>1 DEF SnapshotInv, SnapshotTypeOK, SaverRecords, bounds
<1>11. MemoryInv' /\ DirectoriesInv'
  BY <1>1, DirectoriesKept DEF SnapshotInv, MemoryInv
<1> QED BY <1>1, <1>6, <1>9, <1>10, <1>11 DEF SnapshotInv

(* No save is left alone: only who still waits goes away. *)
LEMMA DropInv ==
  ASSUME MaxAbandoned = 0, SnapshotInv, NEW r \in Requests, Drop(r)
  PROVE  SnapshotInv'
<1>1. r \in Savers /\ abandoned \in Nat
  BY DEF Savers, SnapshotInv, SnapshotTypeOK
<1>2. ~ Busy(r)
  BY <1>1 DEF Drop
<1>3. /\ saver' = [saver EXCEPT ![r] = NotSaving] /\ lock' = lock \ {r}
      /\ UNCHANGED <<inMemory, fileSystem, running, acked, bounds, target, exposed>>
  BY <1>2 DEF Drop, bounds
<1>4. r \notin lock
  BY <1>1, <1>2 DEF SnapshotInv, SaverInv, CallerInv
<1>5. lock' = lock /\ UNCHANGED <<names, past, content, flushed, running, acked, exposed, inMemory>>
  BY <1>3, <1>4 DEF fileSystem
<1>6. inMemory' \in Nat /\ inMemory' >= inMemory
  BY <1>5, SnapshotKinds
<1>7. /\ saver'[r] = NotSaving /\ \A t \in Savers \ {r} : SaverInv(t)'
      /\ saver' \in [Savers -> SaverRecords]
  BY <1>1, <1>3, <1>5, <1>6, NewSaver, OthersKept
<1>8. SaverInv(r)'
  BY <1>4, <1>5, <1>7, NewSaver DEF SaverInv, CallerInv, VersionInv, ProgressInv, Busy
<1>9. SnapshotTypeOK'
  BY <1>3, <1>5, <1>7 DEF SnapshotInv, SnapshotTypeOK, SaverRecords, bounds
<1>10. MemoryInv' /\ DirectoriesInv'
  BY <1>3, DirectoriesKept DEF SnapshotInv, MemoryInv
<1> QED BY <1>5, <1>7, <1>8, <1>9, <1>10 DEF SnapshotInv

-----------------------------------------------------------------------------
(* Saves. *)
LEMMA MaxTwo ==
  ASSUME NEW a \in Nat, NEW b \in Nat
  PROVE  Max({a, b}) \in {a, b} /\ Max({a, b}) >= a /\ Max({a, b}) >= b
<1>1. \E x \in {a, b} : \A y \in {a, b} : x >= y
  <2>1. CASE a >= b
    BY <2>1
  <2>2. CASE b >= a
    BY <2>2
  <2> QED BY <2>1, <2>2
<1>2. Max({a, b}) \in {a, b} /\ \A y \in {a, b} : Max({a, b}) >= y
  BY <1>1 DEF Max
<1> QED BY <1>2

(* A save that has returned. *)
LEMMA ReturnStep ==
  ASSUME SnapshotInv, NEW s \in Savers, saver[s].phase \notin {"idle", "waiting"},
         NEW ok \in BOOLEAN, Return(s, ok), running' = running, inMemory' = inMemory
  PROVE  /\ saver' \in [Savers -> SaverRecords] /\ lock' = {} /\ \A t \in Savers : SaverInv(t)'
         /\ acked' \in Versions /\ acked' >= acked /\ (~ ok => acked' = acked)
         /\ exposed # "lost" => acked' <= saver[s].version /\ acked' <= inMemory
<1>1. /\ lock = {s} /\ saver[s].called /\ (\A t \in lock : t = s)
      /\ saver[s].asked \in Nat /\ saver[s].version \in Nat
      /\ saver[s].asked <= saver[s].version /\ saver[s].version <= inMemory /\ SaverInv(s)
      /\ saver[s].asked \in Versions /\ Busy(s)
  BY Holder, SaverKinds
<1>2. acked \in Nat /\ acked \in Versions /\ inMemory \in Nat
  BY SnapshotKinds
<1>3. lock' = {} /\ saver' = [saver EXCEPT ![s] = NotSaving]
  BY <1>1 DEF Return
<1>4. /\ saver'[s] = NotSaving /\ \A t \in Savers \ {s} : SaverInv(t)'
      /\ saver' \in [Savers -> SaverRecords]
  BY <1>1, <1>3, NewSaver, OthersRest
<1>5. SaverInv(s)'
  BY <1>3, <1>4, NewSaver DEF SaverInv, CallerInv, VersionInv, ProgressInv, Busy
<1>6. acked' = acked \/ (ok /\ acked' = Max({acked, saver[s].asked}))
  BY DEF Return
<1>7. acked' = acked \/ (ok /\ acked' = saver[s].asked /\ saver[s].asked >= acked)
  <2>1. Max({acked, saver[s].asked}) \in {acked, saver[s].asked}
        /\ Max({acked, saver[s].asked}) >= acked
    BY <1>1, <1>2, MaxTwo
  <2> QED BY <1>6, <2>1
<1>8. acked' \in Versions /\ acked' >= acked /\ (~ ok => acked' = acked)
  BY <1>1, <1>2, <1>7
<1>9. ASSUME exposed # "lost" PROVE acked' <= saver[s].version /\ acked' <= inMemory
  <2>1. acked <= saver[s].version
    BY <1>1, <1>9 DEF SaverInv, VersionInv
  <2> QED BY <1>1, <1>2, <1>7, <2>1
<1> QED BY <1>3, <1>4, <1>5, <1>8, <1>9

(* A save that goes on. *)
LEMMA SaveStep ==
  ASSUME SnapshotInv, NEW s \in Savers, saver[s].phase \notin {"idle", "waiting"},
         NEW me \in SaverRecords, saver' = [saver EXCEPT ![s] = me],
         me.phase \notin {"idle", "waiting"}, me.version = saver[s].version,
         me.asked = saver[s].asked, me.called = saver[s].called,
         UNCHANGED <<lock, running, inMemory, acked>>, exposed = "lost" => exposed' = "lost"
  PROVE  /\ saver' \in [Savers -> SaverRecords] /\ saver'[s] = me
         /\ \A t \in Savers : ProgressInv(s)' => SaverInv(t)'
<1>1. /\ lock = {s} /\ saver[s].called /\ (\A t \in lock : t = s) /\ SaverInv(s) /\ Busy(s)
  BY Holder
<1>2. \A t \in Savers \ {s} : t \notin lock'
  BY <1>1
<1>3. /\ saver'[s] = me /\ \A t \in Savers \ {s} : SaverInv(t)'
      /\ saver' \in [Savers -> SaverRecords]
  BY <1>1, <1>2, OthersRest
<1>4. CallerInv(s)'
  BY <1>1, <1>3 DEF SaverInv, CallerInv, Busy
<1>5. VersionInv(s)'
  BY <1>1, <1>3 DEF SaverInv, VersionInv, Busy
<1> QED BY <1>3, <1>4, <1>5 DEF SaverInv

LEMMA Going ==
  ASSUME SnapshotInv, NEW s \in Savers, saver[s].phase \notin {"idle", "waiting"},
         NEW phase \in Phases \ {"idle", "waiting"}, Goto(s, phase),
         UNCHANGED <<lock, running, inMemory, acked>>, exposed = "lost" => exposed' = "lost"
  PROVE  /\ saver' \in [Savers -> SaverRecords]
         /\ saver'[s].phase = phase /\ saver'[s].version = saver[s].version
         /\ saver'[s].file = saver[s].file
         /\ \A t \in Savers : ProgressInv(s)' => SaverInv(t)'
<1> DEFINE me == [saver[s] EXCEPT !.phase = phase]
<1>1. saver[s] \in SaverRecords
  BY SnapshotKinds
<1>2. /\ me \in SaverRecords /\ me.phase = phase /\ me.version = saver[s].version
      /\ me.asked = saver[s].asked /\ me.called = saver[s].called /\ me.file = saver[s].file
  BY <1>1 DEF SaverRecords
<1>3. saver' = [saver EXCEPT ![s] = me]
  BY DEF Goto
<1> HIDE DEF me
<1>4. /\ saver' \in [Savers -> SaverRecords] /\ saver'[s] = me
      /\ \A t \in Savers : ProgressInv(s)' => SaverInv(t)'
  BY <1>2, <1>3, SaveStep
<1> QED BY <1>2, <1>4

(* The type of the next state, from the types of what has changed. *)
LEMMA TypeStep ==
  ASSUME SnapshotInv, saver' \in [Savers -> SaverRecords], lock' = lock \/ lock' = {},
         names' \in Directories, \A m, n \in Names : names'[m] = names'[n] /\ names'[m] # 0 => m = n,
         past' \in Seq(Directories), content' \in [Files -> Halves], flushed' \in [Files -> Halves],
         acked' \in Versions, exposed' \in {"safe", "bare", "lost"},
         UNCHANGED <<target, inMemory, running, abandoned, outages>>, ioFaults' \in Nat
  PROVE  SnapshotTypeOK' /\ \A s, t \in lock' : s = t
<1>1. Cardinality({}) <= 1
  BY FS_EmptySet
<1>2. Cardinality(lock') <= 1 /\ lock' \in SUBSET Savers /\ \A s, t \in lock' : s = t
  BY <1>1 DEF SnapshotInv, SnapshotTypeOK
<1> QED BY <1>2 DEF SnapshotInv, SnapshotTypeOK, SaverRecords

(* The directory of the running hub. *)
LEMMA Current ==
  ASSUME SnapshotInv
  PROVE  /\ Fits(names, content, flushed, names["tmp"], acked, exposed)
         /\ \A m, n \in Names : names[m] = names[n] /\ names[m] # 0 => m = n
         /\ \A n \in Names : names[n] \in 0 .. MaxFiles /\ (names[n] # 0 => names[n] \in Files)
<1>1. Fits(names, content, flushed, names["tmp"], acked, exposed)
  BY SnapshotKinds DEF SnapshotInv, DirectoriesInv
<1>2. \A n \in Names : names[n] \in 0 .. MaxFiles
  BY SnapshotKinds DEF Directories
<1>3. \A n \in Names : names[n] # 0 => names[n] \in Files
  BY <1>2, BoundsAssumption DEF Files
<1> QED BY <1>1, <1>2, <1>3 DEF Fits

(* The directories that may come back, when one is written. *)
LEMMA DirectoryStep ==
  ASSUME SnapshotInv, NEW e \in Directories, Directory(e),
         Fits(e, content', flushed', e["tmp"], acked', exposed'),
         CutPossible => \A i \in 1 .. Len(past) :
                          Fits(past[i], content', flushed', e["tmp"], acked', exposed'),
         target' = target,
         exposed' = "bare" => Windows /\ running' = "up" /\ e["snapshot"] = 0 /\ e["backup"] = 0
  PROVE  /\ names' = e /\ past' \in Seq(Directories) /\ DirectoriesInv'
         /\ \A m, n \in Names : names'[m] = names'[n] /\ names'[m] # 0 => m = n
<1>1. names' = e /\ \A m, n \in Names : names'[m] = names'[n] /\ names'[m] # 0 => m = n
  BY DEF Directory, Fits
<1>2. past \in Seq(Directories) /\ Len(past) \in Nat /\ Len(past) >= 1 /\ names = past[Len(past)]
  BY SnapshotKinds
<1>3. /\ past' \in Seq(Directories) /\ past' # << >> /\ names' = past'[Len(past')]
      /\ \A i \in 1 .. Len(past') :
           Fits(past'[i], content', flushed', names'["tmp"], acked', exposed')
  <2>1. CASE ~ CutPossible
    <3>1. past' = <<e>>
      BY <2>1 DEF Directory
    <3> QED BY <1>1, <3>1
  <2>2. CASE CutPossible /\ e = names
    <3>1. past' = past
      BY <2>2 DEF Directory
    <3> QED BY <1>1, <1>2, <2>2, <3>1
  <2>3. CASE CutPossible /\ e # names
    <3>1. past' = Append(past, e)
      BY <2>3 DEF Directory
    <3>2. past' \in Seq(Directories) /\ Len(past') = Len(past) + 1 /\ past'[Len(past) + 1] = e
          /\ \A i \in 1 .. Len(past) : past'[i] = past[i]
      BY <1>2, <3>1
    <3>3. \A i \in 1 .. Len(past') : i = Len(past) + 1 \/ i \in 1 .. Len(past)
      BY <1>2, <3>2
    <3> QED BY <1>1, <1>2, <2>3, <3>2, <3>3
  <2> QED BY <2>1, <2>2, <2>3
<1> QED BY <1>1, <1>3 DEF DirectoriesInv, Windows

-----------------------------------------------------------------------------
(* A file that is in no snapshot and no backup may be written. *)
LEMMA FileWritten ==
  ASSUME SnapshotInv, NEW temp,
         \A f : f # temp => content'[f] = content[f] /\ flushed'[f] = flushed[f],
         \A i \in 1 .. Len(past) : \A n \in {"snapshot", "backup"} :
           past[i][n] # 0 => past[i][n] # temp
  PROVE  \A i \in 1 .. Len(past) : Fits(past[i], content', flushed', temp, acked, exposed)
<1> TAKE i \in 1 .. Len(past)
<1> DEFINE d == past[i]
<1>1. Fits(d, content, flushed, names["tmp"], acked, exposed)
  BY DEF SnapshotInv, DirectoriesInv
<1>2. \A n \in {"snapshot", "backup"} : d[n] # 0 => content'[d[n]] = content[d[n]]
                                          /\ flushed'[d[n]] = flushed[d[n]] /\ d[n] # temp
  OBVIOUS
<1>3. d["tmp"] # 0 => d["tmp"] # d["snapshot"] /\ d["tmp"] # d["backup"]
  BY <1>1 DEF Fits, Names
<1> HIDE DEF d
<1>4. Fits(d, content', flushed', temp, acked, exposed)
  BY <1>1, <1>2, <1>3, FitsStays
<1> QED BY <1>4 DEF d

LEMMA TemporaryWritten ==
  ASSUME SnapshotInv, UNCHANGED <<names, past, acked, exposed, running, target>>,
         \A f : f # names["tmp"] => content'[f] = content[f] /\ flushed'[f] = flushed[f]
  PROVE  DirectoriesInv'
<1>1. \A i \in 1 .. Len(past) : \A n \in {"snapshot", "backup"} :
        past[i][n] # 0 => past[i][n] # names["tmp"]
  BY DEF SnapshotInv, DirectoriesInv, Fits
<1>2. \A i \in 1 .. Len(past) : Fits(past[i], content', flushed', names["tmp"], acked, exposed)
  BY <1>1, FileWritten
<1> QED BY <1>2 DEF SnapshotInv, DirectoriesInv, Windows

(* The file of a save is the temporary one, and no other name's. *)
LEMMA OpenInv == ASSUME SnapshotInv, NEW s \in Savers, Open(s) PROVE SnapshotInv'
<1>1. /\ saver[s].phase = "captured"
      /\ UNCHANGED <<inMemory, lock, running, acked, bounds, target, exposed>>
  BY DEF Open
<1>2. UNCHANGED <<abandoned, ioFaults, outages>> /\ ioFaults' \in Nat
  BY <1>1 DEF bounds, SnapshotInv, SnapshotTypeOK
<1>3. /\ saver[s] \in SaverRecords /\ names \in Directories /\ past \in Seq(Directories)
      /\ content \in [Files -> Halves] /\ flushed \in [Files -> Halves] /\ acked \in Versions
      /\ names = past[Len(past)]
  BY SnapshotKinds
<1>4. \A i \in 1 .. Len(past) : Fits(past[i], content, flushed, names["tmp"], acked, exposed)
  BY DEF SnapshotInv, DirectoriesInv
<1>5. Nothing \in Halves
  BY BoundsAssumption DEF Nothing, Halves, Versions
<1>6. ASSUME NEW temp \in Files, temp # 0, names'["tmp"] = temp,
             saver' = [saver EXCEPT ![s] = [@ EXCEPT !.phase = "opened", !.file = temp]]
      PROVE  saver' \in [Savers -> SaverRecords] /\ \A t \in Savers : SaverInv(t)'
  <2> DEFINE me == [saver[s] EXCEPT !.phase = "opened", !.file = temp]
  <2>1. temp \in 0 .. MaxFiles /\ "opened" \in Phases
    BY BoundsAssumption DEF Files, Phases
  <2>2. /\ me \in SaverRecords /\ me.phase = "opened" /\ me.version = saver[s].version
        /\ me.asked = saver[s].asked /\ me.called = saver[s].called /\ me.file = temp
    BY <1>3, <2>1 DEF SaverRecords
  <2>3. saver' = [saver EXCEPT ![s] = me]
    BY <1>6
  <2> HIDE DEF me
  <2>4. /\ saver' \in [Savers -> SaverRecords] /\ saver'[s] = me
        /\ \A t \in Savers : ProgressInv(s)' => SaverInv(t)'
    BY <1>1, <2>2, <2>3, SaveStep
  <2>5. ProgressInv(s)'
    BY <1>6, <2>2, <2>4 DEF ProgressInv
  <2> QED BY <2>4, <2>5
<1>7. CASE names["tmp"] # 0
  <2> DEFINE temp == names["tmp"]
  <2>1. /\ content' = [content EXCEPT ![temp] = Nothing]
        /\ saver' = [saver EXCEPT ![s] = [@ EXCEPT !.phase = "opened", !.file = temp]]
        /\ UNCHANGED <<names, past, flushed>>
    BY <1>7 DEF Open
  <2>2. temp \in Files /\ temp # 0
    BY <1>7, Current DEF Names
  <2>3. content' \in [Files -> Halves] /\ \A f : f # temp => content'[f] = content[f]
    BY <1>3, <1>5, <2>1, <2>2
  <2>4. saver' \in [Savers -> SaverRecords] /\ \A t \in Savers : SaverInv(t)'
    <3>1. names'["tmp"] = temp
      BY <2>1
    <3> HIDE DEF temp
    <3> QED BY <1>6, <2>1, <2>2, <3>1
  <2>5. DirectoriesInv'
    <3>1. \A f : f # names["tmp"] => content'[f] = content[f] /\ flushed'[f] = flushed[f]
      BY <2>1, <2>3
    <3> QED BY <1>1, <2>1, <3>1, TemporaryWritten
  <2>6. SnapshotTypeOK' /\ \A t, u \in lock' : t = u
    BY <1>1, <1>2, <1>3, <2>1, <2>3, <2>4, Current, TypeStep DEF SnapshotInv, SnapshotTypeOK
  <2> QED BY <1>1, <2>4, <2>5, <2>6 DEF SnapshotInv, MemoryInv
<1>8. CASE names["tmp"] = 0
  <2> DEFINE temp == Min(Files \ Used)
             entries == [names EXCEPT !["tmp"] = temp]
  <2>1. /\ Files \ Used # {}
        /\ content' = [content EXCEPT ![temp] = Nothing]
        /\ flushed' = [flushed EXCEPT ![temp] = Nothing]
        /\ saver' = [saver EXCEPT ![s] = [@ EXCEPT !.phase = "opened", !.file = temp]]
        /\ Directory(entries)
    BY <1>8 DEF Open
  <2>2. temp \in Files \ Used
    <3>1. Files \ Used \in SUBSET Nat
      BY DEF Files
    <3> QED BY <2>1, <3>1, MinOf
  <2> HIDE DEF temp
  <2>3. temp \in 0 .. MaxFiles /\ temp # 0 /\ temp \in Files
    BY <2>2, BoundsAssumption DEF Files
  <2>4. /\ \A n \in Names : names[n] # temp
        /\ \A i \in 1 .. Len(past), n \in Names : past[i][n] # temp
    <3>1. temp \notin Used
      BY <2>2
    <3>2. \A n \in Names : names[n] \in Used
      BY DEF Used
    <3>3. ASSUME NEW i \in 1 .. Len(past), NEW n \in Names PROVE past[i][n] \in Used
      <4>1. past[i][n] \in {past[i][m] : m \in Names}
        OBVIOUS
      <4>2. past[i][n] \in UNION {{past[k][m] : m \in Names} : k \in 1 .. Len(past)}
        BY <4>1
      <4> QED BY <4>2 DEF Used
    <3> QED BY <3>1, <3>2, <3>3
  <2>5. entries \in Directories /\ entries["tmp"] = temp
        /\ entries["snapshot"] = names["snapshot"] /\ entries["backup"] = names["backup"]
    BY <1>3, <2>3 DEF Directories, Names
  <2>6. /\ content' \in [Files -> Halves] /\ flushed' \in [Files -> Halves]
        /\ \A f : f # temp => content'[f] = content[f] /\ flushed'[f] = flushed[f]
    BY <1>3, <1>5, <2>1, <2>3
  <2>7. \A i \in 1 .. Len(past) : Fits(past[i], content', flushed', temp, acked, exposed)
    BY <2>4, <2>6, FileWritten DEF Names
  <2>8. Fits(entries, content', flushed', temp, acked, exposed)
    <3>1. Fits(names, content, flushed, names["tmp"], acked, exposed)
      BY Current
    <3>2. \A n \in {"snapshot", "backup"} : names[n] # 0 => content'[names[n]] = content[names[n]]
                                     /\ flushed'[names[n]] = flushed[names[n]] /\ names[n] # temp
      BY <2>4, <2>6 DEF Names
    <3>3. entries["tmp"] # 0 => entries["tmp"] # names["snapshot"] /\ entries["tmp"] # names["backup"]
      BY <2>4, <2>5 DEF Names
    <3> HIDE DEF entries
    <3> QED BY <2>5, <3>1, <3>2, <3>3, FitsStays
  <2> HIDE DEF entries
  <2>9. /\ names' = entries /\ past' \in Seq(Directories) /\ DirectoriesInv'
        /\ \A m, n \in Names : names'[m] = names'[n] /\ names'[m] # 0 => m = n
    <3>1. exposed' = "bare" => Windows /\ running' = "up" /\ entries["snapshot"] = 0 /\ entries["backup"] = 0
      BY <1>1, <2>5 DEF SnapshotInv, DirectoriesInv
    <3> QED BY <1>1, <2>1, <2>5, <2>7, <2>8, <3>1, DirectoryStep
  <2>10. saver' \in [Savers -> SaverRecords] /\ \A t \in Savers : SaverInv(t)'
    BY <1>6, <2>1, <2>3, <2>5, <2>9
  <2>11. SnapshotTypeOK' /\ \A t, u \in lock' : t = u
    <3>1. exposed' \in {"safe", "bare", "lost"} /\ acked' \in Versions /\ names' \in Directories
      BY <1>1, <1>3, <2>5, <2>9 DEF SnapshotInv, SnapshotTypeOK
    <3> QED BY <1>1, <1>2, <2>6, <2>9, <2>10, <3>1, TypeStep
  <2> QED BY <1>1, <2>9, <2>10, <2>11 DEF SnapshotInv, MemoryInv
<1> QED BY <1>7, <1>8

LEMMA WriteInv == ASSUME SnapshotInv, NEW s \in Savers, Write(s) PROVE SnapshotInv'
<1> DEFINE temp == saver[s].file
<1>1. /\ saver[s].phase \in {"opened", "half"}
      /\ UNCHANGED <<inMemory, lock, names, past, flushed, running, acked, bounds, target, exposed>>
  BY DEF Write
<1>2. UNCHANGED <<abandoned, ioFaults, outages>> /\ ioFaults' \in Nat
  BY <1>1 DEF bounds, SnapshotInv, SnapshotTypeOK
<1>3. /\ saver[s].version \in Versions /\ ProgressInv(s)
  BY <1>1, Holder DEF SaverInv
<1>4. temp # 0 /\ temp = names["tmp"] /\ temp \in Files
  <2>1. temp # 0 /\ temp = names["tmp"]
    BY <1>1, <1>3 DEF ProgressInv
  <2> QED BY <2>1, Current DEF Names
<1>5. content \in [Files -> Halves] /\ flushed \in [Files -> Halves] /\ names \in Directories
      /\ past \in Seq(Directories) /\ acked \in Versions /\ content[temp] \in Halves
  BY <1>4, SnapshotKinds
<1>6. /\ content' \in [Files -> Halves] /\ \A f : f # temp => content'[f] = content[f]
      /\ saver' \in [Savers -> SaverRecords] /\ \A t \in Savers : SaverInv(t)'
  <2>1. CASE saver[s].phase = "opened"
    <3>1. /\ content' = [content EXCEPT ![temp].first = saver[s].version]
          /\ Goto(s, "half")
      BY <2>1 DEF Write
    <3>2. [content[temp] EXCEPT !.first = saver[s].version] \in Halves
          /\ [content[temp] EXCEPT !.first = saver[s].version].first = saver[s].version
      BY <1>3, <1>5 DEF Halves
    <3>3. content' \in [Files -> Halves] /\ (\A f : f # temp => content'[f] = content[f])
          /\ content'[temp].first = saver[s].version
      <4> HIDE DEF temp
      <4> QED BY <1>4, <1>5, <3>1, <3>2
    <3>4. "half" \in Phases \ {"idle", "waiting"} /\ saver[s].phase \notin {"idle", "waiting"}
      BY <2>1 DEF Phases
    <3>5. /\ saver' \in [Savers -> SaverRecords]
          /\ saver'[s].phase = "half" /\ saver'[s].version = saver[s].version
          /\ saver'[s].file = saver[s].file
          /\ \A t \in Savers : ProgressInv(s)' => SaverInv(t)'
      BY <1>1, <3>1, <3>4, Going
    <3>6. ProgressInv(s)'
      BY <1>1, <1>4, <3>3, <3>5 DEF ProgressInv
    <3> QED BY <3>3, <3>5, <3>6
  <2>2. CASE saver[s].phase = "half"
    <3>1. /\ content' = [content EXCEPT ![temp].second = saver[s].version]
          /\ Goto(s, "written")
      BY <2>2 DEF Write
    <3> DEFINE new == [content[temp] EXCEPT !.second = saver[s].version]
    <3>2. content[temp].first = saver[s].version
      BY <1>3, <2>2 DEF ProgressInv
    <3>3. new \in Halves /\ new.first = saver[s].version /\ new.second = saver[s].version
      BY <1>3, <1>5, <3>2 DEF Halves
    <3> HIDE DEF new
    <3>4. new = [first |-> saver[s].version, second |-> saver[s].version]
      BY <3>3, HalfKinds
    <3>5. content' \in [Files -> Halves] /\ (\A f : f # temp => content'[f] = content[f])
          /\ content'[temp] = new
      <4>1. content' = [content EXCEPT ![temp] = new]
        BY <3>1 DEF new
      <4> HIDE DEF temp
      <4> QED BY <1>4, <1>5, <4>1, <3>3
    <3>6. "written" \in Phases \ {"idle", "waiting"} /\ saver[s].phase \notin {"idle", "waiting"}
      BY <2>2 DEF Phases
    <3>7. /\ saver' \in [Savers -> SaverRecords]
          /\ saver'[s].phase = "written" /\ saver'[s].version = saver[s].version
          /\ saver'[s].file = saver[s].file
          /\ \A t \in Savers : ProgressInv(s)' => SaverInv(t)'
      BY <1>1, <3>1, <3>6, Going
    <3>8. ProgressInv(s)'
      BY <1>1, <1>4, <3>4, <3>5, <3>7 DEF ProgressInv
    <3> QED BY <3>5, <3>7, <3>8
  <2> QED BY <1>1, <2>1, <2>2
<1>7. DirectoriesInv'
  <2>1. \A f : f # names["tmp"] => content'[f] = content[f] /\ flushed'[f] = flushed[f]
    BY <1>1, <1>4, <1>6
  <2> QED BY <1>1, <2>1, TemporaryWritten
<1>8. SnapshotTypeOK' /\ \A t, u \in lock' : t = u
  BY <1>1, <1>2, <1>5, <1>6, Current, TypeStep DEF SnapshotInv, SnapshotTypeOK
<1> QED BY <1>1, <1>6, <1>7, <1>8 DEF SnapshotInv, MemoryInv

LEMMA SyncInv == ASSUME SnapshotInv, NEW s \in Savers, Sync(s) PROVE SnapshotInv'
<1> DEFINE temp == saver[s].file
<1>1. /\ saver[s].phase = "written" /\ Goto(s, "synced")
      /\ flushed' = [flushed EXCEPT ![temp] = content[temp]]
      /\ UNCHANGED <<inMemory, lock, names, past, content, running, acked, bounds, target, exposed>>
  BY DEF Sync
<1>2. UNCHANGED <<abandoned, ioFaults, outages>> /\ ioFaults' \in Nat
  BY <1>1 DEF bounds, SnapshotInv, SnapshotTypeOK
<1>3. ProgressInv(s)
  BY <1>1, Holder DEF SaverInv
<1>4. temp # 0 /\ temp = names["tmp"] /\ temp \in Files
  <2>1. temp # 0 /\ temp = names["tmp"]
    BY <1>1, <1>3 DEF ProgressInv
  <2> QED BY <2>1, Current DEF Names
<1>5. content \in [Files -> Halves] /\ flushed \in [Files -> Halves] /\ names \in Directories
      /\ past \in Seq(Directories) /\ acked \in Versions
  BY SnapshotKinds
<1>6. /\ flushed' \in [Files -> Halves] /\ \A f : f # temp => flushed'[f] = flushed[f]
      /\ flushed'[temp] = content[temp]
  <2> HIDE DEF temp
  <2> QED BY <1>1, <1>4, <1>5
<1>7. /\ saver' \in [Savers -> SaverRecords]
      /\ saver'[s].phase = "synced" /\ saver'[s].version = saver[s].version
      /\ saver'[s].file = saver[s].file
      /\ \A t \in Savers : ProgressInv(s)' => SaverInv(t)'
  <2>1. "synced" \in Phases \ {"idle", "waiting"} /\ saver[s].phase \notin {"idle", "waiting"}
    BY <1>1 DEF Phases
  <2> QED BY <1>1, <2>1, Going
<1>8. ProgressInv(s)'
  BY <1>1, <1>3, <1>6, <1>7 DEF ProgressInv
<1>9. DirectoriesInv'
  <2>1. \A f : f # names["tmp"] => content'[f] = content[f] /\ flushed'[f] = flushed[f]
    BY <1>1, <1>4, <1>6
  <2> QED BY <1>1, <2>1, TemporaryWritten
<1>10. SnapshotTypeOK' /\ \A t, u \in lock' : t = u
  BY <1>1, <1>2, <1>5, <1>6, <1>7, Current, TypeStep DEF SnapshotInv, SnapshotTypeOK
<1> QED BY <1>1, <1>7, <1>8, <1>9, <1>10 DEF SnapshotInv, MemoryInv

(* A save that fails and leaves the files alone. *)
LEMMA FailureStep ==
  ASSUME SnapshotInv, NEW s \in Savers, saver[s].phase \notin {"idle", "waiting"}, Return(s, FALSE),
         UNCHANGED <<inMemory, fileSystem, running, abandoned, outages, target, exposed>>,
         ioFaults' \in Nat
  PROVE  SnapshotInv'
<1>1. /\ saver' \in [Savers -> SaverRecords] /\ lock' = {} /\ \A t \in Savers : SaverInv(t)'
      /\ acked' = acked
  BY ReturnStep
<1>2. UNCHANGED <<names, past, content, flushed>>
  BY DEF fileSystem
<1>3. content \in [Files -> Halves] /\ flushed \in [Files -> Halves] /\ names \in Directories
      /\ past \in Seq(Directories) /\ acked \in Versions
  BY SnapshotKinds
<1>4. DirectoriesInv'
  BY <1>1, DirectoriesKept
<1>5. SnapshotTypeOK' /\ \A t, u \in lock' : t = u
  BY <1>1, <1>2, <1>3, Current, TypeStep DEF SnapshotInv, SnapshotTypeOK
<1> QED BY <1>1, <1>4, <1>5 DEF SnapshotInv, MemoryInv

LEMMA SaveFailsInv == ASSUME SnapshotInv, NEW s \in Savers, SaveFails(s) PROVE SnapshotInv'
<1>1. ioFaults \in Nat
  BY DEF SnapshotInv, SnapshotTypeOK
<1>2. ioFaults' \in Nat
  BY <1>1 DEF SaveFails
<1>3. /\ saver[s].phase \notin {"idle", "waiting"} /\ Return(s, FALSE)
      /\ UNCHANGED <<inMemory, fileSystem, running, abandoned, outages, target, exposed>>
  BY DEF SaveFails
<1> QED BY <1>2, <1>3, FailureStep

LEMMA ReplaceFailsInv == ASSUME SnapshotInv, NEW s \in Savers, ReplaceFails(s) PROVE SnapshotInv'
<1>1. ioFaults \in Nat
  BY DEF SnapshotInv, SnapshotTypeOK
<1>2. ioFaults' \in Nat
  BY <1>1 DEF ReplaceFails
<1> QED BY <1>2, FailureStep DEF ReplaceFails

LEMMA RotationFailsInv == ASSUME SnapshotInv, NEW s \in Savers, RotationFails(s) PROVE SnapshotInv'
<1>1. ioFaults \in Nat
  BY DEF SnapshotInv, SnapshotTypeOK
<1>2. ioFaults' \in Nat
  BY <1>1 DEF RotationFails
<1>3. /\ saver[s].phase \notin {"idle", "waiting"} /\ Return(s, FALSE)
      /\ UNCHANGED <<inMemory, fileSystem, running, abandoned, outages, target, exposed>>
  BY DEF RotationFails
<1> QED BY <1>2, <1>3, FailureStep

-----------------------------------------------------------------------------
(* Replacing the snapshot on Unix. *)

(* What a save holds is whole, synced and covers every answer. *)
LEMMA NewSnapshot ==
  ASSUME SnapshotInv, NEW s \in Savers, saver[s].phase \in {"synced", "rotate", "activate"}
  PROVE  LET temp == names["tmp"]
         IN /\ temp # 0 /\ temp \in Files /\ Whole(content[temp]) /\ flushed[temp] = content[temp]
            /\ content[temp].first = saver[s].version
            /\ exposed # "lost" => content[temp].first >= acked
<1> DEFINE temp == names["tmp"]
<1>1. /\ SaverInv(s) /\ Busy(s) /\ saver[s].version \in Nat /\ saver[s].version >= 1
  BY Holder
<1>2. /\ temp # 0 /\ saver[s].file = temp
      /\ content[temp] = [first |-> saver[s].version, second |-> saver[s].version]
      /\ flushed[temp] = content[temp]
  BY <1>1 DEF SaverInv, ProgressInv
<1>3. temp \in Files
  BY <1>2, Current DEF Names
<1>4. content[temp].first = saver[s].version /\ Whole(content[temp])
  BY <1>1, <1>2 DEF Whole
<1>5. acked \in Nat
  BY SnapshotKinds
<1>6. exposed # "lost" => saver[s].version >= acked
  BY <1>1, <1>5 DEF SaverInv, VersionInv
<1> HIDE DEF temp
<1>7. exposed # "lost" => content[temp].first >= acked
  BY <1>4, <1>6
<1> QED BY <1>2, <1>3, <1>4, <1>7 DEF temp

(* The new file as the snapshot. *)
LEMMA Switched ==
  ASSUME SnapshotInv, NEW s \in Savers, saver[s].phase \in {"synced", "rotate", "activate"},
         NEW danger, danger = "lost" <=> exposed = "lost"
  PROVE  LET e == Renamed("tmp", "snapshot")
         IN /\ e \in Directories /\ e["tmp"] = 0 /\ e["snapshot"] = names["tmp"]
            /\ e["backup"] = names["backup"]
            /\ Fits(e, content, flushed, e["tmp"], acked, danger)
<1> DEFINE e == Renamed("tmp", "snapshot")
<1>1. names \in Directories
  BY SnapshotKinds
<1>2. /\ e \in Directories /\ e["tmp"] = 0 /\ e["snapshot"] = names["tmp"]
      /\ e["backup"] = names["backup"]
  BY <1>1, BoundsAssumption DEF Renamed, Directories, Names
<1>3. /\ names["tmp"] # 0 /\ Whole(content[names["tmp"]])
      /\ flushed[names["tmp"]] = content[names["tmp"]]
      /\ exposed # "lost" => content[names["tmp"]].first >= acked
  BY NewSnapshot
<1>4. Fits(names, content, flushed, names["tmp"], acked, exposed)
  BY Current
<1> HIDE DEF e
<1>5. names["tmp"] # names["backup"]
  BY <1>3, <1>4 DEF Fits, Names
<1>6. \A m, n \in Names : e[m] = e[n] /\ e[m] # 0 => m = n
  BY <1>2, <1>5 DEF Names
<1>7. Fits(e, content, flushed, e["tmp"], acked, danger)
  BY <1>2, <1>3, <1>4, <1>6 DEF Fits
<1> QED BY <1>2, <1>7 DEF e

(* A directory fits also for a smaller promise and another temporary file. *)
LEMMA FitsNothing ==
  ASSUME NEW d, NEW written, NEW onDisk, NEW tmp, NEW answered, NEW danger,
         Fits(d, written, onDisk, tmp, answered, danger)
  PROVE  Fits(d, written, onDisk, 0, answered, danger)
BY DEF Fits

LEMMA ReplaceInv == ASSUME SnapshotInv, NEW s \in Savers, Replace(s) PROVE SnapshotInv'
<1> DEFINE e == Renamed("tmp", "snapshot")
<1>1. /\ saver[s].phase = "synced" /\ names["tmp"] # 0 /\ Directory(e) /\ Goto(s, "renamed")
      /\ UNCHANGED <<inMemory, lock, content, flushed, running, acked, bounds, target, exposed>>
  BY DEF Replace
<1>2. UNCHANGED <<abandoned, ioFaults, outages>> /\ ioFaults' \in Nat
  BY <1>1 DEF bounds, SnapshotInv, SnapshotTypeOK
<1>3. content \in [Files -> Halves] /\ flushed \in [Files -> Halves] /\ acked \in Versions
  BY SnapshotKinds
<1>4. /\ e \in Directories /\ e["tmp"] = 0 /\ e["snapshot"] = names["tmp"]
      /\ Fits(e, content, flushed, e["tmp"], acked, exposed) /\ e["backup"] = names["backup"]
  BY <1>1, Switched
<1>5. content[names["tmp"]].first = saver[s].version
  BY <1>1, NewSnapshot
<1> HIDE DEF e
<1>6. /\ names' = e /\ past' \in Seq(Directories) /\ DirectoriesInv'
      /\ \A m, n \in Names : names'[m] = names'[n] /\ names'[m] # 0 => m = n
  <2>1. \A i \in 1 .. Len(past) : Fits(past[i], content', flushed', e["tmp"], acked', exposed')
    BY <1>1, <1>4, FitsNothing DEF SnapshotInv, DirectoriesInv
  <2>2. exposed # "bare"
    BY DEF SnapshotInv, DirectoriesInv, Replace
  <2> QED BY <1>1, <1>4, <2>1, <2>2, DirectoryStep
<1>7. /\ saver' \in [Savers -> SaverRecords]
      /\ saver'[s].phase = "renamed" /\ saver'[s].version = saver[s].version
      /\ \A t \in Savers : ProgressInv(s)' => SaverInv(t)'
  <2>1. "renamed" \in Phases \ {"idle", "waiting"} /\ saver[s].phase \notin {"idle", "waiting"}
    BY <1>1 DEF Phases
  <2> QED BY <1>1, <2>1, Going
<1>8. ProgressInv(s)'
  BY <1>1, <1>4, <1>5, <1>6, <1>7 DEF ProgressInv
<1>9. SnapshotTypeOK' /\ \A t, u \in lock' : t = u
  <2>1. exposed' \in {"safe", "bare", "lost"} /\ names' \in Directories
    BY <1>1, <1>4, <1>6 DEF SnapshotInv, SnapshotTypeOK
  <2> QED BY <1>1, <1>2, <1>3, <1>6, <1>7, <2>1, TypeStep
<1> QED BY <1>1, <1>6, <1>7, <1>8, <1>9 DEF SnapshotInv, MemoryInv

(* A directory with this snapshot fits what has been promised with it. *)
LEMMA Promised ==
  ASSUME SnapshotInv, NEW answered \in Nat, names["snapshot"] # 0,
         exposed # "lost" => content[names["snapshot"]].first >= answered
  PROVE  Fits(names, content, flushed, names["tmp"], answered, exposed)
BY Current DEF Fits

LEMMA SyncDirectoryInv == ASSUME SnapshotInv, NEW s \in Savers, SyncDirectory(s) PROVE SnapshotInv'
<1>1. /\ saver[s].phase = "renamed" /\ past' = <<names>> /\ Return(s, TRUE)
      /\ UNCHANGED <<inMemory, names, content, flushed, running, bounds, target, exposed>>
  BY DEF SyncDirectory
<1>2. UNCHANGED <<abandoned, ioFaults, outages>> /\ ioFaults' \in Nat
  BY <1>1 DEF bounds, SnapshotInv, SnapshotTypeOK
<1>3. /\ content \in [Files -> Halves] /\ flushed \in [Files -> Halves] /\ acked \in Nat
      /\ names \in Directories /\ inMemory \in Nat
  BY SnapshotKinds
<1>4. /\ saver' \in [Savers -> SaverRecords] /\ lock' = {} /\ \A t \in Savers : SaverInv(t)'
      /\ acked' \in Versions
      /\ exposed # "lost" => acked' <= saver[s].version /\ acked' <= inMemory
  BY <1>1, ReturnStep
<1>5. names["snapshot"] # 0 /\ content[names["snapshot"]].first = saver[s].version
      /\ saver[s].version \in Nat
  BY <1>1, Holder DEF SaverInv, ProgressInv
<1>6. acked' \in Nat /\ exposed # "lost" => content[names["snapshot"]].first >= acked'
  BY <1>4, <1>5, BoundsAssumption DEF Versions
<1>7. DirectoriesInv'
  <2>1. Fits(names, content, flushed, names["tmp"], acked', exposed)
    BY <1>4, <1>5, <1>6, Promised, BoundsAssumption DEF Versions
  <2>2. exposed # "bare"
    BY <1>5 DEF SnapshotInv, DirectoriesInv
  <2> QED BY <1>1, <2>1, <2>2 DEF DirectoriesInv
<1>8. SnapshotTypeOK' /\ \A t, u \in lock' : t = u
  <2>1. past' \in Seq(Directories)
    BY <1>1, <1>3
  <2> QED BY <1>1, <1>2, <1>3, <1>4, <2>1, Current, TypeStep DEF SnapshotInv, SnapshotTypeOK
<1>9. MemoryInv'
  BY <1>1, <1>4 DEF SnapshotInv, MemoryInv
<1> QED BY <1>4, <1>7, <1>8, <1>9 DEF SnapshotInv

-----------------------------------------------------------------------------
(* Replacing the snapshot on Windows. *)
LEMMA RemoveBackupInv == ASSUME SnapshotInv, NEW s \in Savers, RemoveBackup(s) PROVE SnapshotInv'
<1> DEFINE e == [names EXCEPT !["backup"] = 0]
<1>1. /\ Windows /\ saver[s].phase = "synced" /\ Directory(e) /\ Goto(s, "rotate")
      /\ exposed' = IF exposed = "safe" /\ names["snapshot"] = 0 /\ names["backup"] # 0
                    THEN "bare" ELSE exposed
      /\ UNCHANGED <<inMemory, lock, content, flushed, running, acked, bounds, target>>
  BY DEF RemoveBackup
<1>2. UNCHANGED <<abandoned, ioFaults, outages>> /\ ioFaults' \in Nat
  BY <1>1 DEF bounds, SnapshotInv, SnapshotTypeOK
<1>3. /\ content \in [Files -> Halves] /\ flushed \in [Files -> Halves] /\ acked \in Versions
      /\ names \in Directories
  BY SnapshotKinds
<1>4. /\ e \in Directories /\ e["tmp"] = names["tmp"] /\ e["snapshot"] = names["snapshot"]
      /\ e["backup"] = 0
  BY <1>3, BoundsAssumption DEF Directories, Names
<1>5. /\ saver[s].file # 0 /\ saver[s].file = names["tmp"] /\ running = "up"
      /\ content[saver[s].file] = [first |-> saver[s].version, second |-> saver[s].version]
      /\ flushed[saver[s].file] = content[saver[s].file]
  BY <1>1, Holder DEF SaverInv, ProgressInv
<1> HIDE DEF e
<1>6. exposed \in {"safe", "bare", "lost"} /\ exposed' \in {"safe", "bare", "lost"}
      /\ (exposed' = "lost" <=> exposed = "lost")
  BY <1>1 DEF SnapshotInv, SnapshotTypeOK
<1>7. /\ names' = e /\ past' \in Seq(Directories) /\ DirectoriesInv'
      /\ \A m, n \in Names : names'[m] = names'[n] /\ names'[m] # 0 => m = n
  <2>1. ~ CutPossible
    BY <1>1 DEF CutPossible
  <2>2. exposed' = "bare" => Windows /\ running' = "up" /\ e["snapshot"] = 0 /\ e["backup"] = 0
    BY <1>1, <1>4, <1>5, <1>6 DEF SnapshotInv, DirectoriesInv
  <2>3. Fits(e, content, flushed, e["tmp"], acked, exposed')
    <3>1. Fits(names, content, flushed, names["tmp"], acked, exposed)
      BY Current
    <3>2. \A m, n \in Names : e[m] = e[n] /\ e[m] # 0 => m = n
      BY <1>4, <3>1 DEF Fits, Names
    <3>3. \A n \in {"snapshot", "backup"} :
            e[n] # 0 => Whole(content[e[n]]) /\ flushed[e[n]] = content[e[n]] /\ e[n] # e["tmp"]
      BY <1>4, <3>1 DEF Fits
    <3>4. ASSUME exposed' # "lost" PROVE /\ e["snapshot"] # 0 => content[e["snapshot"]].first >= acked
                                         /\ e["snapshot"] = 0 => acked = 0 \/ exposed' = "bare"
      <4>1. /\ names["snapshot"] # 0 => content[names["snapshot"]].first >= acked
            /\ names["snapshot"] = 0 /\ names["backup"] = 0 => acked = 0 \/ exposed = "bare"
        BY <1>6, <3>1, <3>4 DEF Fits
      <4> QED BY <1>1, <1>4, <1>6, <3>4, <4>1
    <3> QED BY <1>4, <3>2, <3>3, <3>4 DEF Fits
  <2> QED BY <1>1, <1>4, <2>1, <2>2, <2>3, DirectoryStep
<1>8. /\ saver' \in [Savers -> SaverRecords]
      /\ saver'[s].phase = "rotate" /\ saver'[s].version = saver[s].version
      /\ saver'[s].file = saver[s].file
      /\ \A t \in Savers : ProgressInv(s)' => SaverInv(t)'
  <2>1. "rotate" \in Phases \ {"idle", "waiting"} /\ saver[s].phase \notin {"idle", "waiting"}
    BY <1>1 DEF Phases
  <2> QED BY <1>1, <1>6, <2>1, Going
<1>9. ProgressInv(s)'
  BY <1>1, <1>4, <1>5, <1>7, <1>8 DEF ProgressInv
<1>10. SnapshotTypeOK' /\ \A t, u \in lock' : t = u
  BY <1>1, <1>2, <1>3, <1>4, <1>6, <1>7, <1>8, TypeStep
<1>11. MemoryInv'
  BY <1>1, <1>6 DEF SnapshotInv, MemoryInv
<1> QED BY <1>7, <1>8, <1>9, <1>10, <1>11 DEF SnapshotInv

LEMMA RotateInv == ASSUME SnapshotInv, NEW s \in Savers, Rotate(s) PROVE SnapshotInv'
<1> DEFINE e == IF names["snapshot"] # 0 THEN Renamed("snapshot", "backup") ELSE names
<1>1. /\ Windows /\ saver[s].phase = "rotate" /\ Directory(e) /\ Goto(s, "activate")
      /\ UNCHANGED <<inMemory, lock, content, flushed, running, acked, bounds, target, exposed>>
  BY DEF Rotate
<1>2. UNCHANGED <<abandoned, ioFaults, outages>> /\ ioFaults' \in Nat
  BY <1>1 DEF bounds, SnapshotInv, SnapshotTypeOK
<1>3. /\ content \in [Files -> Halves] /\ flushed \in [Files -> Halves] /\ acked \in Versions
      /\ names \in Directories
  BY SnapshotKinds
<1>4. /\ saver[s].file # 0 /\ saver[s].file = names["tmp"] /\ running = "up" /\ names["backup"] = 0
      /\ content[saver[s].file] = [first |-> saver[s].version, second |-> saver[s].version]
      /\ flushed[saver[s].file] = content[saver[s].file]
  BY <1>1, Holder DEF SaverInv, ProgressInv
<1>5. /\ e \in Directories /\ e["tmp"] = names["tmp"] /\ e["snapshot"] = 0
      /\ e["backup"] = names["snapshot"]
  <2>1. CASE names["snapshot"] = 0
    BY <1>3, <1>4, <2>1
  <2>2. CASE names["snapshot"] # 0
    BY <1>3, <2>2, BoundsAssumption DEF Renamed, Directories, Names
  <2> QED BY <2>1, <2>2
<1> HIDE DEF e
<1>6. /\ names' = e /\ past' \in Seq(Directories) /\ DirectoriesInv'
      /\ \A m, n \in Names : names'[m] = names'[n] /\ names'[m] # 0 => m = n
  <2>1. ~ CutPossible
    BY <1>1 DEF CutPossible
  <2>2. exposed' = "bare" => Windows /\ running' = "up" /\ e["snapshot"] = 0 /\ e["backup"] = 0
    BY <1>1, <1>4, <1>5 DEF SnapshotInv, DirectoriesInv
  <2>3. Fits(e, content, flushed, e["tmp"], acked, exposed)
    <3>1. Fits(names, content, flushed, names["tmp"], acked, exposed)
      BY Current
    <3>2. \A m, n \in Names : e[m] = e[n] /\ e[m] # 0 => m = n
      BY <1>5, <3>1 DEF Fits, Names
    <3> QED BY <1>4, <1>5, <3>1, <3>2 DEF Fits
  <2> QED BY <1>1, <1>5, <2>1, <2>2, <2>3, DirectoryStep
<1>7. /\ saver' \in [Savers -> SaverRecords]
      /\ saver'[s].phase = "activate" /\ saver'[s].version = saver[s].version
      /\ saver'[s].file = saver[s].file
      /\ \A t \in Savers : ProgressInv(s)' => SaverInv(t)'
  <2>1. "activate" \in Phases \ {"idle", "waiting"} /\ saver[s].phase \notin {"idle", "waiting"}
    BY <1>1 DEF Phases
  <2> QED BY <1>1, <2>1, Going
<1>8. ProgressInv(s)'
  BY <1>1, <1>4, <1>5, <1>6, <1>7 DEF ProgressInv
<1>9. SnapshotTypeOK' /\ \A t, u \in lock' : t = u
  <2>1. exposed' \in {"safe", "bare", "lost"} /\ names' \in Directories /\ acked' \in Versions
    BY <1>1, <1>3, <1>5, <1>6 DEF SnapshotInv, SnapshotTypeOK
  <2> QED BY <1>1, <1>2, <1>3, <1>6, <1>7, <2>1, TypeStep
<1> QED BY <1>1, <1>6, <1>7, <1>8, <1>9 DEF SnapshotInv, MemoryInv

LEMMA ActivateInv == ASSUME SnapshotInv, NEW s \in Savers, Activate(s) PROVE SnapshotInv'
<1> DEFINE e == Renamed("tmp", "snapshot")
<1>1. /\ Windows /\ saver[s].phase = "activate" /\ Directory(e) /\ Goto(s, "cleanup")
      /\ exposed' = IF exposed = "bare" THEN "safe" ELSE exposed
      /\ UNCHANGED <<inMemory, lock, content, flushed, running, acked, bounds, target>>
  BY DEF Activate
<1>2. UNCHANGED <<abandoned, ioFaults, outages>> /\ ioFaults' \in Nat
  BY <1>1 DEF bounds, SnapshotInv, SnapshotTypeOK
<1>3. /\ content \in [Files -> Halves] /\ flushed \in [Files -> Halves] /\ acked \in Versions
  BY SnapshotKinds
<1>4. /\ exposed' \in {"safe", "bare", "lost"} /\ exposed' # "bare"
      /\ (exposed' = "lost" <=> exposed = "lost")
  BY <1>1 DEF SnapshotInv, SnapshotTypeOK
<1>5. /\ e \in Directories /\ e["tmp"] = 0 /\ e["snapshot"] = names["tmp"]
      /\ Fits(e, content, flushed, e["tmp"], acked, exposed')
  BY <1>1, <1>4, Switched
<1>6. content[names["tmp"]].first = saver[s].version /\ names["tmp"] # 0
  BY <1>1, NewSnapshot
<1> HIDE DEF e
<1>7. /\ names' = e /\ past' \in Seq(Directories) /\ DirectoriesInv'
      /\ \A m, n \in Names : names'[m] = names'[n] /\ names'[m] # 0 => m = n
  <2>1. ~ CutPossible
    BY <1>1 DEF CutPossible
  <2> QED BY <1>1, <1>4, <1>5, <2>1, DirectoryStep
<1>8. /\ saver' \in [Savers -> SaverRecords]
      /\ saver'[s].phase = "cleanup" /\ saver'[s].version = saver[s].version
      /\ \A t \in Savers : ProgressInv(s)' => SaverInv(t)'
  <2>1. "cleanup" \in Phases \ {"idle", "waiting"} /\ saver[s].phase \notin {"idle", "waiting"}
    BY <1>1 DEF Phases
  <2> QED BY <1>1, <1>4, <2>1, Going
<1>9. ProgressInv(s)'
  BY <1>1, <1>5, <1>6, <1>7, <1>8 DEF ProgressInv
<1>10. SnapshotTypeOK' /\ \A t, u \in lock' : t = u
  <2>1. names' \in Directories
    BY <1>5, <1>7
  <2> QED BY <1>1, <1>2, <1>3, <1>4, <1>7, <1>8, <2>1, TypeStep
<1>11. MemoryInv'
  BY <1>1, <1>4 DEF SnapshotInv, MemoryInv
<1> QED BY <1>7, <1>8, <1>9, <1>10, <1>11 DEF SnapshotInv

LEMMA ActivateFailsInv == ASSUME SnapshotInv, NEW s \in Savers, ActivateFails(s) PROVE SnapshotInv'
<1>1. PICK undone \in BOOLEAN :
        /\ ioFaults' = ioFaults + (IF names["tmp"] = 0 THEN 0 ELSE 1)
                           + (IF undone \/ names["backup"] = 0 THEN 0 ELSE 1)
        /\ Directory(IF undone /\ names["backup"] # 0 THEN Renamed("backup", "snapshot") ELSE names)
  BY DEF ActivateFails
<1> DEFINE e == IF undone /\ names["backup"] # 0 THEN Renamed("backup", "snapshot") ELSE names
<1>2. /\ Windows /\ saver[s].phase = "activate" /\ Return(s, FALSE) /\ Directory(e)
      /\ UNCHANGED <<inMemory, content, flushed, running, abandoned, outages, target, exposed>>
  BY <1>1 DEF ActivateFails
<1>3. ioFaults' \in Nat
  <2>1. ioFaults \in Nat
    BY DEF SnapshotInv, SnapshotTypeOK
  <2>2. /\ (IF names["tmp"] = 0 THEN 0 ELSE 1) \in Nat
        /\ (IF undone \/ names["backup"] = 0 THEN 0 ELSE 1) \in Nat
    OBVIOUS
  <2> QED BY <1>1, <2>1, <2>2
<1>4. /\ content \in [Files -> Halves] /\ flushed \in [Files -> Halves] /\ acked \in Versions
      /\ names \in Directories
  BY SnapshotKinds
<1>5. names["snapshot"] = 0 /\ running = "up"
  BY <1>2, Holder DEF SaverInv, ProgressInv
<1>6. /\ e \in Directories /\ e["tmp"] = names["tmp"]
      /\ \/ e = names
         \/ e["backup"] = 0 /\ e["snapshot"] = names["backup"] /\ names["backup"] # 0
  BY <1>4, BoundsAssumption DEF Renamed, Directories, Names
<1> HIDE DEF e
<1>7. /\ saver' \in [Savers -> SaverRecords] /\ lock' = {} /\ \A t \in Savers : SaverInv(t)'
      /\ acked' = acked
  BY <1>2, ReturnStep
<1>8. /\ names' = e /\ past' \in Seq(Directories) /\ DirectoriesInv'
      /\ \A m, n \in Names : names'[m] = names'[n] /\ names'[m] # 0 => m = n
  <2>1. ~ CutPossible
    BY <1>2 DEF CutPossible
  <2>2. exposed' = "bare" => Windows /\ running' = "up" /\ e["snapshot"] = 0 /\ e["backup"] = 0
    BY <1>2, <1>5, <1>6 DEF SnapshotInv, DirectoriesInv
  <2>3. Fits(e, content, flushed, e["tmp"], acked, exposed)
    <3>1. Fits(names, content, flushed, names["tmp"], acked, exposed)
      BY Current
    <3>2. \A m, n \in Names : e[m] = e[n] /\ e[m] # 0 => m = n
      BY <1>6, <3>1 DEF Fits, Names
    <3> QED BY <1>5, <1>6, <3>1, <3>2 DEF Fits
  <2> QED BY <1>2, <1>6, <1>7, <2>1, <2>2, <2>3, DirectoryStep
<1>9. SnapshotTypeOK' /\ \A t, u \in lock' : t = u
  <2>1. exposed' \in {"safe", "bare", "lost"} /\ names' \in Directories
    BY <1>2, <1>6, <1>8 DEF SnapshotInv, SnapshotTypeOK
  <2> QED BY <1>2, <1>3, <1>4, <1>7, <1>8, <2>1, TypeStep
<1> QED BY <1>2, <1>7, <1>8, <1>9 DEF SnapshotInv, MemoryInv

LEMMA CleanupInv == ASSUME SnapshotInv, NEW s \in Savers, Cleanup(s) PROVE SnapshotInv'
<1> DEFINE e == [names EXCEPT !["backup"] = 0]
<1>1. /\ Windows /\ saver[s].phase = "cleanup" /\ Directory(e) /\ Return(s, TRUE)
      /\ UNCHANGED <<inMemory, content, flushed, running, bounds, target, exposed>>
  BY DEF Cleanup
<1>2. UNCHANGED <<abandoned, ioFaults, outages>> /\ ioFaults' \in Nat
  BY <1>1 DEF bounds, SnapshotInv, SnapshotTypeOK
<1>3. /\ content \in [Files -> Halves] /\ flushed \in [Files -> Halves] /\ acked \in Nat
      /\ names \in Directories /\ inMemory \in Nat
  BY SnapshotKinds
<1>4. /\ saver' \in [Savers -> SaverRecords] /\ lock' = {} /\ \A t \in Savers : SaverInv(t)'
      /\ acked' \in Versions
      /\ exposed # "lost" => acked' <= saver[s].version /\ acked' <= inMemory
  BY <1>1, ReturnStep
<1>5. names["snapshot"] # 0 /\ content[names["snapshot"]].first = saver[s].version
      /\ saver[s].version \in Nat
  BY <1>1, Holder DEF SaverInv, ProgressInv
<1>6. acked' \in Nat
  BY <1>4, BoundsAssumption DEF Versions
<1>7. exposed # "lost" => content[names["snapshot"]].first >= acked'
  BY <1>4, <1>5, <1>6
<1>8. /\ e \in Directories /\ e["tmp"] = names["tmp"] /\ e["snapshot"] = names["snapshot"]
      /\ e["backup"] = 0
  BY <1>3, BoundsAssumption DEF Directories, Names
<1> HIDE DEF e
<1>9. exposed # "bare"
  BY <1>5 DEF SnapshotInv, DirectoriesInv
<1>10. /\ names' = e /\ past' \in Seq(Directories) /\ DirectoriesInv'
       /\ \A m, n \in Names : names'[m] = names'[n] /\ names'[m] # 0 => m = n
  <2>1. ~ CutPossible
    BY <1>1 DEF CutPossible
  <2>2. Fits(e, content, flushed, e["tmp"], acked', exposed)
    <3>1. Fits(names, content, flushed, names["tmp"], acked', exposed)
      BY <1>5, <1>6, <1>7, Promised
    <3>2. \A m, n \in Names : e[m] = e[n] /\ e[m] # 0 => m = n
      BY <1>8, <3>1 DEF Fits, Names
    <3> QED BY <1>5, <1>8, <3>1, <3>2 DEF Fits
  <2> QED BY <1>1, <1>8, <1>9, <2>1, <2>2, DirectoryStep
<1>11. SnapshotTypeOK' /\ \A t, u \in lock' : t = u
  <2>1. exposed' \in {"safe", "bare", "lost"} /\ names' \in Directories
    BY <1>1, <1>8, <1>10 DEF SnapshotInv, SnapshotTypeOK
  <2> QED BY <1>1, <1>2, <1>3, <1>4, <1>10, <2>1, TypeStep
<1>12. MemoryInv'
  BY <1>1, <1>4 DEF SnapshotInv, MemoryInv
<1> QED BY <1>4, <1>10, <1>11, <1>12 DEF SnapshotInv

-----------------------------------------------------------------------------
(* Crashes and the start. *)

(* What is whole and synced survives a power cut. *)
LEMMA PowerCutStep ==
  ASSUME SnapshotInv, exposed # "bare", NEW i \in 1 .. Len(past), NEW written,
         content' = AfterPowerCut(past[i], written)
  PROVE  /\ past[i] \in Directories /\ content' \in [Files -> Halves]
         /\ Fits(past[i], content', content', past[i]["tmp"], acked, exposed)
<1> DEFINE d == past[i]
<1>1. /\ past \in Seq(Directories) /\ content \in [Files -> Halves] /\ flushed \in [Files -> Halves]
      /\ Len(past) \in Nat
  BY SnapshotKinds
<1>2. d \in Directories
  BY <1>1
<1>3. Fits(d, content, flushed, names["tmp"], acked, exposed)
  BY DEF SnapshotInv, DirectoriesInv
<1>4. \A n \in Names : d[n] # 0 => d[n] \in Files
  <2>1. \A n \in Names : d[n] \in 0 .. MaxFiles
    BY <1>2 DEF Directories
  <2> QED BY <2>1, BoundsAssumption DEF Files
<1>5. content' = AfterPowerCut(d, written)
  OBVIOUS
<1> HIDE DEF d
<1>6. Nothing \in Halves
  BY BoundsAssumption DEF Nothing, Halves, Versions
<1>7. content' \in [Files -> Halves]
  <2>1. \A f \in Files : content[f] \in Halves /\ flushed[f] \in Halves
    BY <1>1
  <2>2. \A f \in Files :
          [first |-> IF <<f, 1>> \in written THEN content[f].first ELSE flushed[f].first,
           second |-> IF <<f, 2>> \in written THEN content[f].second ELSE flushed[f].second] \in Halves
    BY <2>1 DEF Halves
  <2> QED BY <1>5, <1>6, <2>2 DEF AfterPowerCut
<1>8. ASSUME NEW n \in {"snapshot", "backup"}, d[n] # 0 PROVE content'[d[n]] = content[d[n]]
  <2>1. d[n] \in Files /\ d[n] \in {d[m] : m \in Names} /\ flushed[d[n]] = content[d[n]]
    BY <1>3, <1>4, <1>8 DEF Names, Fits
  <2>2. content[d[n]] = [first |-> content[d[n]].first, second |-> content[d[n]].second]
    BY <1>1, <2>1, HalfKinds
  <2>3. content'[d[n]] = [first |-> content[d[n]].first, second |-> content[d[n]].second]
    BY <1>5, <2>1 DEF AfterPowerCut
  <2> QED BY <2>2, <2>3
<1>9. \A n \in {"snapshot", "backup"} : d[n] # 0 => d[n] # d["tmp"]
  BY <1>3 DEF Fits, Names
<1>10. Fits(d, content', content', d["tmp"], acked, exposed)
  BY <1>3, <1>8, <1>9 DEF Fits
<1> QED BY <1>2, <1>7, <1>10 DEF d

LEMMA CrashInv == ASSUME SnapshotInv, SnapshotCrash PROVE SnapshotInv'
<1>1. /\ running = "up" /\ outages' = outages + 1 /\ running' = "down" /\ inMemory' = 1
      /\ saver' = [s \in Savers |-> NotSaving] /\ lock' = {}
      /\ exposed' = IF exposed = "bare" THEN "lost" ELSE exposed
      /\ UNCHANGED <<acked, abandoned, ioFaults, target>>
  BY DEF SnapshotCrash
<1>2. /\ content \in [Files -> Halves] /\ flushed \in [Files -> Halves] /\ acked \in Versions
      /\ names \in Directories /\ past \in Seq(Directories)
  BY SnapshotKinds
<1>3. exposed' \in {"safe", "bare", "lost"} /\ exposed' # "bare"
      /\ (exposed' = exposed \/ exposed' = "lost")
  BY <1>1 DEF SnapshotInv, SnapshotTypeOK
<1>4. saver' \in [Savers -> SaverRecords] /\ \A s \in Savers : SaverInv(s)'
  <2>1. saver' \in [Savers -> SaverRecords] /\ \A s \in Savers : saver'[s] = NotSaving
    BY <1>1, NewSaver
  <2>2. ASSUME NEW s \in Savers PROVE SaverInv(s)'
    BY <1>1, <2>1, NewSaver DEF SaverInv, CallerInv, VersionInv, ProgressInv, Busy
  <2> QED BY <2>1, <2>2
<1>5. /\ names' \in Directories /\ past' \in Seq(Directories) /\ content' \in [Files -> Halves]
      /\ flushed' \in [Files -> Halves] /\ DirectoriesInv'
      /\ \A m, n \in Names : names'[m] = names'[n] /\ names'[m] # 0 => m = n
  <2>1. CASE ~ CutPossible
    <3>1. UNCHANGED <<names, past, content, flushed>>
      BY <2>1 DEF SnapshotCrash, fileSystem
    <3>2. ASSUME NEW i \in 1 .. Len(past)
          PROVE  Fits(past[i], content, flushed, names["tmp"], acked, exposed')
      <4>1. Fits(past[i], content, flushed, names["tmp"], acked, exposed)
        BY DEF SnapshotInv, DirectoriesInv
      <4> QED BY <1>3, <4>1 DEF Fits
    <3>3. DirectoriesInv'
      BY <1>1, <1>3, <3>1, <3>2 DEF SnapshotInv, DirectoriesInv
    <3> QED BY <1>2, <3>1, <3>3, Current
  <2>2. CASE CutPossible
    <3>1. exposed # "bare" /\ exposed' = exposed
      BY <1>1, <2>2 DEF SnapshotInv, DirectoriesInv, CutPossible
    <3>2. PICK i \in 1 .. Len(past) : names' = past[i]
      BY <2>2 DEF SnapshotCrash
    <3>3. PICK written : content' = AfterPowerCut(names', written)
      BY <2>2 DEF SnapshotCrash
    <3>4. past' = <<names'>> /\ flushed' = content'
      BY <2>2 DEF SnapshotCrash
    <3>5. /\ names' \in Directories /\ content' \in [Files -> Halves]
          /\ Fits(names', content', content', names'["tmp"], acked, exposed)
      BY <3>1, <3>2, <3>3, PowerCutStep
    <3>6. past' \in Seq(Directories) /\ DirectoriesInv'
      BY <1>1, <1>3, <3>1, <3>4, <3>5 DEF DirectoriesInv
    <3> QED BY <3>4, <3>5, <3>6 DEF Fits
  <2> QED BY <2>1, <2>2
<1>6. SnapshotTypeOK'
  <2>1. inMemory' \in 1 .. MaxVersion
    BY <1>1, BoundsAssumption
  <2>2. Cardinality(lock') <= 1 /\ lock' \in SUBSET Savers
    BY <1>1, FS_EmptySet
  <2>3. outages' \in Nat
    BY <1>1 DEF SnapshotInv, SnapshotTypeOK
  <2> QED BY <1>1, <1>2, <1>3, <1>4, <1>5, <2>1, <2>2, <2>3
          DEF SnapshotInv, SnapshotTypeOK, SaverRecords
<1>7. MemoryInv' /\ \A t, u \in lock' : t = u
  BY <1>1 DEF MemoryInv
<1> QED BY <1>4, <1>5, <1>6, <1>7 DEF SnapshotInv

(* A hub that has fallen loads what it has answered for. *)
LEMMA LoadedSound ==
  ASSUME SnapshotInv, running = "down"
  PROVE  Loaded \in 1 .. MaxVersion /\ (exposed # "lost" => acked <= Loaded)
<1>1. /\ Fits(names, content, flushed, names["tmp"], acked, exposed) /\ exposed # "bare"
      /\ \A n \in Names : names[n] # 0 => names[n] \in Files
  BY Current DEF SnapshotInv, DirectoriesInv
<1>2. /\ content \in [Files -> Halves] /\ acked \in Nat /\ MaxVersion \in Nat /\ MaxVersion >= 1
  BY SnapshotKinds
<1>3. ASSUME NEW n \in {"snapshot", "backup"}, names[n] # 0
      PROVE  Good(n) /\ content[names[n]].first \in 1 .. MaxVersion
  <2>1. Whole(content[names[n]]) /\ content[names[n]] \in Halves
    BY <1>1, <1>2, <1>3 DEF Fits, Names
  <2>2. content[names[n]].first \in Nat /\ content[names[n]].first <= MaxVersion
        /\ content[names[n]].first # 0
    BY <2>1, HalfKinds DEF Whole
  <2> QED BY <1>2, <1>3, <2>1, <2>2 DEF Good
<1>4. CASE names["snapshot"] # 0
  <2>1. Good("snapshot") /\ content[names["snapshot"]].first \in 1 .. MaxVersion
    BY <1>3, <1>4
  <2>2. Loaded = content[names["snapshot"]].first
    BY <1>4, <2>1 DEF Loaded
  <2> QED BY <1>1, <1>2, <1>4, <2>1, <2>2 DEF Fits
<1>5. CASE names["snapshot"] = 0 /\ names["backup"] # 0
  <2>1. Good("backup") /\ content[names["backup"]].first \in 1 .. MaxVersion /\ ~ Good("snapshot")
    BY <1>3, <1>5 DEF Good
  <2>2. Loaded = content[names["backup"]].first
    BY <1>5, <2>1 DEF Loaded
  <2> QED BY <1>1, <1>2, <1>5, <2>1, <2>2 DEF Fits
<1>6. CASE names["snapshot"] = 0 /\ names["backup"] = 0
  <2>1. Loaded = 1
    BY <1>6 DEF Loaded, Good
  <2>2. exposed # "lost" => acked = 0
    BY <1>1, <1>6 DEF Fits
  <2> QED BY <1>2, <2>1, <2>2
<1> QED BY <1>4, <1>5, <1>6

LEMMA RestartInv == ASSUME SnapshotInv, SnapshotRestart PROVE SnapshotInv'
<1>1. running = "down" /\ UNCHANGED <<saver, lock, fileSystem, acked, bounds, target, exposed>>
  BY DEF SnapshotRestart
<1>2. Loaded \in 1 .. MaxVersion /\ (exposed # "lost" => acked <= Loaded) /\ Loaded # 0
  BY <1>1, LoadedSound, BoundsAssumption
<1>3. running' = "up" /\ inMemory' = Loaded
  BY <1>2 DEF SnapshotRestart
<1>4. \A s \in Savers : SaverInv(s)'
  <2> TAKE s \in Savers
  <2>1. CallerInv(s) /\ saver[s].phase = "idle"
    BY <1>1 DEF SnapshotInv, SaverInv, CallerInv
  <2> QED BY <1>1, <2>1 DEF SaverInv, CallerInv, VersionInv, ProgressInv, Busy
<1>5. SnapshotTypeOK'
  BY <1>1, <1>2, <1>3 DEF SnapshotInv, SnapshotTypeOK, fileSystem, bounds
<1>6. MemoryInv'
  BY <1>1, <1>2, <1>3 DEF MemoryInv
<1>7. DirectoriesInv'
  BY <1>1 DEF SnapshotInv, DirectoriesInv, fileSystem, Windows
<1>8. \A t, u \in lock' : t = u
  BY <1>1 DEF SnapshotInv
<1> QED BY <1>4, <1>5, <1>6, <1>7, <1>8 DEF SnapshotInv

-----------------------------------------------------------------------------
LEMMA SnapshotStarts == ASSUME SnapshotInit PROVE SnapshotInv
<1>1. /\ names = NoDirectory /\ past = <<NoDirectory>> /\ acked = 0 /\ lock = {} /\ inMemory = 1
      /\ saver = [s \in Savers |-> NotSaving] /\ content = [f \in Files |-> Nothing]
      /\ flushed = content /\ running = "up" /\ exposed = "safe"
  BY DEF SnapshotInit
<1>2. saver \in [Savers -> SaverRecords] /\ \A s \in Savers : saver[s] = NotSaving
  BY <1>1, NewSaver
<1>3. NoDirectory \in Directories /\ \A n \in Names : NoDirectory[n] = 0
  BY NewDirectory
<1>4. \A s \in Savers : SaverInv(s)
  BY <1>1, <1>2, NewSaver DEF SaverInv, CallerInv, VersionInv, ProgressInv, Busy
<1>5. DirectoriesInv
  <2>1. Fits(NoDirectory, content, flushed, NoDirectory["tmp"], acked, exposed)
    BY <1>1, <1>3 DEF Fits, Names
  <2>2. past # << >> /\ Len(past) = 1 /\ past[1] = NoDirectory
    BY <1>1
  <2> QED BY <1>1, <2>1, <2>2 DEF DirectoriesInv
<1>6. SnapshotTypeOK
  <2>1. inMemory \in 1 .. MaxVersion /\ acked \in Versions /\ Nothing \in Halves
    BY <1>1, BoundsAssumption DEF Versions, Halves, Nothing
  <2>2. Cardinality(lock) <= 1 /\ lock \in SUBSET Savers
    BY <1>1, FS_EmptySet
  <2>3. names \in Directories /\ past \in Seq(Directories)
        /\ \A m, n \in Names : names[m] = names[n] /\ names[m] # 0 => m = n
    BY <1>1, <1>3
  <2>4. content \in [Files -> Halves] /\ flushed \in [Files -> Halves]
    BY <1>1, <2>1
  <2>5. target \in Targets /\ abandoned \in Nat /\ ioFaults \in Nat /\ outages \in Nat
    BY DEF SnapshotInit
  <2> QED BY <1>1, <1>2, <2>1, <2>2, <2>3, <2>4, <2>5 DEF SnapshotTypeOK, SaverRecords
<1>7. MemoryInv /\ \A t, u \in lock : t = u
  BY <1>1 DEF MemoryInv
<1> QED BY <1>4, <1>5, <1>6, <1>7 DEF SnapshotInv

LEMMA SnapshotStutters == ASSUME SnapshotInv, UNCHANGED snapshotVars PROVE SnapshotInv'
<1>1. UNCHANGED <<target, inMemory, saver, lock, names, past, content, flushed, running, acked,
                  exposed, abandoned, ioFaults, outages>>
  BY DEF snapshotVars, fileSystem, bounds
<1>2. SnapshotTypeOK' /\ MemoryInv' /\ \A t, u \in lock' : t = u
  BY <1>1 DEF SnapshotInv, SnapshotTypeOK, MemoryInv
<1>3. DirectoriesInv'
  BY <1>1 DEF SnapshotInv, DirectoriesInv, Windows
<1>4. \A s \in Savers : SaverInv(s)'
  BY <1>1 DEF SnapshotInv, SaverInv, CallerInv, VersionInv, ProgressInv, Busy
<1> QED BY <1>2, <1>3, <1>4 DEF SnapshotInv

LEMMA SnapshotGoesOn ==
  ASSUME MaxAbandoned = 0, SnapshotInv, [SnapshotStep]_snapshotVars PROVE SnapshotInv'
<1>1. ASSUME NEW r \in Requests, Mutate(r) \/ Drop(r) PROVE SnapshotInv'
  BY <1>1, MutateInv, DropInv
<1>2. CASE Tick
  BY <1>2, TickInv
<1>3. ASSUME NEW s \in Savers, Capture(s) \/ Open(s) \/ Write(s) \/ Sync(s) \/ SaveFails(s)
      PROVE  SnapshotInv'
  BY <1>3, CaptureInv, OpenInv, WriteInv, SyncInv, SaveFailsInv
<1>4. ASSUME NEW s \in Savers, Replace(s) \/ ReplaceFails(s) \/ SyncDirectory(s)
      PROVE  SnapshotInv'
  BY <1>4, ReplaceInv, ReplaceFailsInv, SyncDirectoryInv
<1>5. ASSUME NEW s \in Savers,
             RemoveBackup(s) \/ Rotate(s) \/ Activate(s) \/ ActivateFails(s) \/ Cleanup(s)
             \/ RotationFails(s)
      PROVE  SnapshotInv'
  BY <1>5, RemoveBackupInv, RotateInv, ActivateInv, ActivateFailsInv, CleanupInv, RotationFailsInv
<1>6. CASE SnapshotCrash \/ SnapshotRestart
  BY <1>6, CrashInv, RestartInv
<1>7. CASE UNCHANGED snapshotVars
  BY <1>7, SnapshotStutters
<1> QED BY <1>1, <1>2, <1>3, <1>4, <1>5, <1>6, <1>7 DEF SnapshotStep

(***************************************************************************)
(* As long as no save is left alone by its caller, the hub starts again    *)
(* whatever point of a save a crash or a power cut hits, and what it has   *)
(* answered for is there: save_from, replace_snapshot and load_into, on    *)
(* both builds, for any number of requests, faults and crashes.  What is   *)
(* excepted is the crash after a save of the Windows build has removed the *)
(* only snapshot there was.                                                *)
(***************************************************************************)
THEOREM SnapshotsAreDurable ==
  ASSUME MaxAbandoned = 0
  PROVE  SnapshotSpec => []SnapshotDurable
<1>1. SnapshotInit => SnapshotInv
  BY SnapshotStarts
<1>2. SnapshotInv /\ [SnapshotStep]_snapshotVars => SnapshotInv'
  BY SnapshotGoesOn
<1>3. SnapshotInv => SnapshotDurable
  BY DEF SnapshotInv, MemoryInv, SnapshotDurable, Loadable, AckedDurable, SnapshotTypeOK
<1> QED BY <1>1, <1>2, <1>3, PTL DEF SnapshotSpec

(* Only the Windows build has a moment without a snapshot. *)
OnlyOnWindows == target \in Targets /\ (~ Windows => exposed = "safe")

LEMMA StaysOnWindows ==
  ASSUME OnlyOnWindows, [SnapshotStep]_snapshotVars PROVE OnlyOnWindows'
<1>1. ASSUME UNCHANGED <<target, exposed>> PROVE OnlyOnWindows'
  BY <1>1 DEF OnlyOnWindows, Windows
<1>2. ASSUME NEW r \in Requests, Mutate(r) \/ Drop(r) PROVE OnlyOnWindows'
  BY <1>1, <1>2 DEF Mutate, Drop
<1>3. CASE Tick \/ SnapshotRestart
  BY <1>1, <1>3 DEF Tick, SnapshotRestart
<1>4. ASSUME NEW s \in Savers, Capture(s) \/ Open(s) \/ Write(s) \/ Sync(s) \/ SaveFails(s)
      PROVE  OnlyOnWindows'
  BY <1>1, <1>4 DEF Capture, Open, Write, Sync, SaveFails
<1>5. ASSUME NEW s \in Savers, Replace(s) \/ ReplaceFails(s) \/ SyncDirectory(s)
      PROVE  OnlyOnWindows'
  BY <1>1, <1>5 DEF Replace, ReplaceFails, SyncDirectory
<1>6. ASSUME NEW s \in Savers, Rotate(s) \/ ActivateFails(s) \/ Cleanup(s) \/ RotationFails(s)
      PROVE  OnlyOnWindows'
  BY <1>1, <1>6 DEF Rotate, ActivateFails, Cleanup, RotationFails
<1>7. ASSUME NEW s \in Savers, RemoveBackup(s) \/ Activate(s) PROVE OnlyOnWindows'
  BY <1>7 DEF OnlyOnWindows, Windows, RemoveBackup, Activate
<1>8. CASE SnapshotCrash
  BY <1>8 DEF OnlyOnWindows, Windows, SnapshotCrash
<1>9. CASE UNCHANGED snapshotVars
  BY <1>1, <1>9 DEF snapshotVars
<1> QED BY <1>2, <1>3, <1>4, <1>5, <1>6, <1>7, <1>8, <1>9 DEF SnapshotStep

(***************************************************************************)
(* On Unix nothing is excepted: a hub that is up has what it answered for, *)
(* whatever crashed, failed or lost its power.                             *)
(***************************************************************************)
THEOREM UnixKeepsWhatItAnswered ==
  ASSUME MaxAbandoned = 0
  PROVE  SnapshotSpec => [](running = "up" /\ target = "unix" => inMemory >= acked)
<1>1. SnapshotInit => OnlyOnWindows
  BY DEF SnapshotInit, OnlyOnWindows
<1>2. OnlyOnWindows /\ [SnapshotStep]_snapshotVars => OnlyOnWindows'
  BY StaysOnWindows
<1>3. SnapshotDurable /\ OnlyOnWindows => (running = "up" /\ target = "unix" => inMemory >= acked)
  BY DEF SnapshotDurable, AckedDurable, OnlyOnWindows, Windows
<1>4. SnapshotSpec => []SnapshotDurable
  BY SnapshotsAreDurable
<1> QED BY <1>1, <1>2, <1>3, <1>4, PTL DEF SnapshotSpec
=============================================================================
