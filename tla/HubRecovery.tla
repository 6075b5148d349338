----------------------------- MODULE HubRecovery -----------------------------
(***************************************************************************)
(* One hub that restarts: several payments of all kinds compete for the    *)
(* liquidity of its channels; snapshots, the transaction journal and the   *)
(* memory are written at different times; after a crash recover_local      *)
(* rebuilds the ledger from the snapshot and the journal, or refuses.      *)
(*                                                                         *)
(* What the other hubs answer is a free choice here (CrossHubPayment), and *)
(* an append to the journal is one durable step (TxJournal).               *)
(***************************************************************************)
EXTENDS ChannelLedger, Sequences, SequencesExt

CONSTANTS
  Local,          \* payments over channels of this hub only
  Coordinated,    \* cross-hub payments created here
  Participated,   \* cross-hub payments of other origins
  Opening,        \* the registered balances
  MaxCrashes      \* bound: crashes of the hub

ASSUME KindsAssumption ==
  /\ Payments = Local \cup Coordinated \cup Participated
  /\ Local \cap Coordinated = {} /\ Local \cap Participated = {}
  /\ Coordinated \cap Participated = {}
ASSUME OpeningAssumption == Opening \in Balances
ASSUME CrashAssumption == MaxCrashes \in Nat

VARIABLES
  ledger,     \* balances, reservations, applied settlements (memory)
  session,    \* payment sessions (memory)
  preparing,  \* prepare_origin handlers that hold their lock (memory)
  saving,     \* the snapshot being written, and the request that waits for it
  journal,    \* states and their order (durable)
  snap,       \* the snapshot file (durable)
  status,     \* of the process: "up", "down", or "refused" to start
  acked,      \* history: local settlements reported to a client
  created,    \* history: payments of which this hub had a session
  crashes

vars == <<ledger, session, preparing, saving, journal, snap, status, acked, created, crashes>>

-----------------------------------------------------------------------------
Statuses == {"none", "collecting", "committing", "settled", "failed"}
CommitSide == {"CommitDecided", "Committed"}
AbortSide == {"AbortDecided", "Aborted"}
States == {"none", "Preparing", "Prepared"} \cup CommitSide \cup AbortSide

(***************************************************************************)
(* decided holds the transactions in the order of their commit decisions,  *)
(* recent the others in the order of their last records: the order in      *)
(* which list() returns them.                                              *)
(***************************************************************************)
Journals == [state : [Payments -> States], decided : Seq(Payments), recent : Seq(Payments)]

Cross == Coordinated \cup Participated
Images == [ledger : Ledgers, session : [Payments -> Statuses]]
NotSaving == [image |-> [ledger |-> [balance |-> Opening, reserved |-> {}, applied |-> {}],
                         session |-> [p \in Payments |-> "none"]],
              for |-> {}, active |-> FALSE]

TypeOK ==
  /\ ledger \in Ledgers
  /\ session \in [Payments -> Statuses]
  /\ preparing \in SUBSET Coordinated
  /\ saving \in [image : Images, for : SUBSET Local, active : BOOLEAN]
  /\ journal \in Journals
  /\ IsInjective(journal.decided \o journal.recent)
  /\ ToSet(journal.decided) = {p \in Payments : journal.state[p] \in CommitSide}
  /\ ToSet(journal.recent) =
       {p \in Payments : journal.state[p] \notin CommitSide \cup {"none"}}
  /\ snap \in Images
  /\ status \in {"up", "down", "refused"}
  /\ acked \in SUBSET Local /\ created \in SUBSET Payments
  /\ crashes \in Nat

(* Channels are registered, and that registration is checkpointed. *)
Init ==
  /\ ledger = NotSaving.image.ledger
  /\ session = NotSaving.image.session
  /\ preparing = {} /\ saving = NotSaving
  /\ journal = [state |-> [p \in Payments |-> "none"], decided |-> <<>>, recent |-> <<>>]
  /\ snap = NotSaving.image
  /\ status = "up" /\ acked = {} /\ created = {} /\ crashes = 0

\* Mutant of Record: the transaction keeps its old place in the order as well.
RecordTwice(p, state) ==
  journal' = [state |-> [journal.state EXCEPT ![p] = state],
              decided |-> IF state = "CommitDecided" THEN Append(journal.decided, p)
                                                     ELSE journal.decided,
              recent |-> IF state \in CommitSide THEN journal.recent
                                                 ELSE Append(journal.recent, p)]

(* Append a record for p. *)
Record(p, state) ==
  LET others == RemoveFirst(journal.recent, p)
  IN journal' = [state |-> [journal.state EXCEPT ![p] = state],
                 decided |-> IF state = "CommitDecided" THEN Append(journal.decided, p)
                                                        ELSE journal.decided,
                 recent |-> IF state \in CommitSide THEN others ELSE Append(others, p)]

-----------------------------------------------------------------------------
(* Sessions: local payments and the origin's side of cross-hub payments.   *)

Create(p) ==
  /\ status = "up" /\ p \in Local \cup Coordinated
  /\ session[p] = "none" /\ journal.state[p] = "none" /\ p \notin ledger.applied
  /\ Reservable(ledger, p)
  /\ ledger' = Reserve(ledger, p)
  /\ session' = [session EXCEPT ![p] = "collecting"]
  /\ created' = created \cup {p}
  /\ UNCHANGED <<preparing, saving, journal, snap, status, acked, crashes>>

(***************************************************************************)
(* The last signature settles a local payment at once; a cross-hub payment *)
(* is then committing.                                                     *)
(***************************************************************************)
SignLast(p) ==
  /\ status = "up" /\ session[p] = "collecting"
  /\ IF p \in Local
     THEN /\ Applicable(ledger, p)
          /\ ledger' = Apply(ledger, p)
          /\ session' = [session EXCEPT ![p] = "settled"]
     ELSE session' = [session EXCEPT ![p] = "committing"] /\ UNCHANGED ledger
  /\ UNCHANGED <<preparing, saving, journal, snap, status, acked, created, crashes>>

\* Mutant of Close: the reservation stays behind.
CloseHolding(p) ==
  /\ session' = [session EXCEPT ![p] = "failed"]
  /\ UNCHANGED ledger

Close(p) ==
  /\ session' = [session EXCEPT ![p] = "failed"]
  /\ ledger' = [ledger EXCEPT !.reserved = @ \ {p}]

(***************************************************************************)
(* A party cancels, an operator fails, or the TTL loop expires it.  The    *)
(* last is possible in spite of a journal entry.                           *)
(***************************************************************************)
CloseSession(p) ==
  /\ status = "up" /\ session[p] = "collecting"
  /\ Close(p)
  /\ UNCHANGED <<preparing, saving, journal, snap, status, acked, created, crashes>>

-----------------------------------------------------------------------------
(* The transaction manager.                                                *)

JournalPreparing(p) ==
  /\ status = "up" /\ p \in Coordinated
  /\ journal.state[p] = "none" /\ p \in ledger.reserved
  /\ Record(p, "Preparing")
  /\ preparing' = preparing \cup {p}
  /\ UNCHANGED <<ledger, session, saving, snap, status, acked, created, crashes>>

JournalPrepared(p) ==
  /\ status = "up" /\ p \in preparing
  /\ Record(p, "Prepared")
  /\ preparing' = preparing \ {p}
  /\ UNCHANGED <<ledger, session, saving, snap, status, acked, created, crashes>>

AbortDecide(p) ==
  /\ status = "up" /\ p \in Coordinated
  /\ journal.state[p] \in {"Preparing", "Prepared"}
  /\ Record(p, "AbortDecided")
  /\ preparing' = preparing \ {p}
  /\ UNCHANGED <<ledger, session, saving, snap, status, acked, created, crashes>>

(***************************************************************************)
(* abort_origin fails the session once it has tried every participant; the *)
(* abort is final when all of them have answered.                          *)
(***************************************************************************)
AbortFinish(p) ==
  /\ status = "up" /\ journal.state[p] = "AbortDecided"
  /\ IF session[p] \in {"collecting", "failed"} THEN Close(p) ELSE UNCHANGED <<ledger, session>>
  /\ Record(p, "Aborted") \/ Record(p, "AbortDecided")
  /\ UNCHANGED <<preparing, saving, snap, status, acked, created, crashes>>

CommitDecide(p) ==
  /\ status = "up" /\ p \in Coordinated
  /\ journal.state[p] = "Prepared" /\ session[p] = "committing"
  /\ Record(p, "CommitDecided")
  /\ UNCHANGED <<ledger, session, preparing, saving, snap, status, acked, created, crashes>>

HandlePrepare(p) ==
  /\ status = "up" /\ p \in Participated
  /\ journal.state[p] = "none" /\ Preparable(ledger, p)
  /\ ledger' = Prepare(ledger, p)
  /\ Record(p, "Prepared")
  /\ UNCHANGED <<session, preparing, saving, snap, status, acked, created, crashes>>

HandleCommit(p) ==
  /\ status = "up" /\ p \in Participated
  /\ journal.state[p] = "Prepared"
  /\ Record(p, "CommitDecided")
  /\ UNCHANGED <<ledger, session, preparing, saving, snap, status, acked, created, crashes>>

HandleAbort(p) ==
  /\ status = "up" /\ p \in Participated
  /\ journal.state[p] \in {"none", "Prepared"}
  /\ Record(p, "Aborted")
  /\ ledger' = Release(ledger, p)
  /\ UNCHANGED <<session, preparing, saving, snap, status, acked, created, crashes>>

(* The settlement of a decided transaction, at the origin or a participant. *)
ApplyDecided(p) ==
  /\ status = "up" /\ journal.state[p] = "CommitDecided"
  /\ Applicable(ledger, p) /\ p \notin ledger.applied
  /\ ledger' = Apply(ledger, p)
  /\ UNCHANGED <<session, preparing, saving, journal, snap, status, acked, created, crashes>>

RecordCommitted(p) ==
  /\ status = "up" /\ journal.state[p] = "CommitDecided" /\ p \in ledger.applied
  /\ Record(p, "Committed")
  /\ UNCHANGED <<ledger, session, preparing, saving, snap, status, acked, created, crashes>>

MarkSettled(p) ==
  /\ status = "up" /\ p \in Coordinated /\ journal.state[p] = "Committed"
  /\ p \in ledger.applied /\ session[p] \notin {"none", "settled"}
  /\ session' = [session EXCEPT ![p] = "settled"]
  /\ UNCHANGED <<ledger, preparing, saving, journal, snap, status, acked, created, crashes>>

-----------------------------------------------------------------------------
(* Snapshots: first the image, then the file.  Saves do not overlap here   *)
(* (SnapshotFile).                                                         *)

(***************************************************************************)
(* Open and settled sessions are exported, and the reservations of those;  *)
(* applied settlements all.                                                *)
(***************************************************************************)
Exported ==
  LET kept == {p \in Payments : session[p] \in {"collecting", "committing", "settled"}}
  IN [ledger |-> [ledger EXCEPT !.reserved = @ \cap kept],
      session |-> [p \in Payments |-> IF p \in kept THEN session[p] ELSE "none"]]

\* Mutant of BeginSave: the request joins a save that has already begun.
BeginSaveJoining ==
  /\ status = "up"
  /\ \E waiting \in {{}} \cup {{p} : p \in {q \in Local : session[q] = "settled"}} :
       saving' = [image |-> IF saving.active THEN saving.image ELSE Exported,
                  for |-> waiting \cup saving.for, active |-> TRUE]
  /\ UNCHANGED <<ledger, session, preparing, journal, snap, status, acked, created, crashes>>

(***************************************************************************)
(* The periodic loop saves, or the checkpoint after a sign request that    *)
(* has settled a local payment.                                            *)
(***************************************************************************)
BeginSave ==
  /\ status = "up" /\ ~saving.active
  /\ \E waiting \in {{}} \cup {{p} : p \in {q \in Local : session[q] = "settled"}} :
       saving' = [image |-> Exported, for |-> waiting, active |-> TRUE]
  /\ UNCHANGED <<ledger, session, preparing, journal, snap, status, acked, created, crashes>>

EndSave ==
  /\ status = "up" /\ saving.active
  /\ snap' = saving.image
  /\ acked' = acked \cup saving.for
  /\ saving' = NotSaving
  /\ UNCHANGED <<ledger, session, preparing, journal, status, created, crashes>>

Crash ==
  /\ status = "up" /\ crashes < MaxCrashes
  /\ crashes' = crashes + 1
  /\ status' = "down"
  /\ ledger' = NotSaving.image.ledger /\ session' = NotSaving.image.session
  /\ preparing' = {} /\ saving' = NotSaving
  /\ UNCHANGED <<journal, snap, acked, created>>

-----------------------------------------------------------------------------
(* recover_local.                                                          *)

(***************************************************************************)
(* The session: the journal's image fills a hole in the snapshot, and a    *)
(* commit decision replaces what the snapshot says.                        *)
(***************************************************************************)
RecoveredSession(p, known) ==
  LET state == journal.state[p]
      image == IF known = "none" THEN "collecting" ELSE known
  IN IF p \notin Coordinated THEN known
     ELSE CASE state = "Committed" -> "settled"
            [] state = "CommitDecided" -> "committing"
            [] state \in AbortSide /\ image = "collecting" -> "failed"
            [] OTHER -> image

\* Mutant of RecoveredLedger: prepared transactions are left to the retry loop.
RecoveredDecided(p, l) ==
  CASE journal.state[p] \in CommitSide ->
         LET prepared == IF Preparable(l, p) THEN Prepare(l, p) ELSE l
         IN IF Applicable(prepared, p) THEN {Apply(prepared, p)} ELSE {}
    [] journal.state[p] = "Prepared" -> {l}
    [] OTHER -> {Release(l, p)}

(***************************************************************************)
(* The ledger after one more transaction, or nothing at an error.  A       *)
(* decided transaction is reserved again if it can be, then applied.       *)
(***************************************************************************)
RecoveredLedger(p, l) ==
  CASE journal.state[p] \in CommitSide ->
         LET prepared == IF Preparable(l, p) THEN Prepare(l, p) ELSE l
         IN IF Applicable(prepared, p) THEN {Apply(prepared, p)} ELSE {}
    [] journal.state[p] = "Prepared" ->
         IF Preparable(l, p) THEN {Prepare(l, p)} ELSE {}
    [] OTHER -> {Release(l, p)}

\* Mutant of Listing: the order of the last records, decisions or not.
ListingRecent == journal.recent \o Reverse(journal.decided)

Listing == journal.decided \o journal.recent

Recovered ==
  FoldLeft(LAMBDA ledgers, p : UNION {RecoveredLedger(p, l) : l \in ledgers},
           {snap.ledger}, Listing)

Restart ==
  /\ status = "down"
  /\ IF Recovered = {}
     THEN status' = "refused" /\ UNCHANGED <<ledger, session>>
     ELSE /\ status' = "up"
          /\ ledger' \in Recovered
          /\ session' = [p \in Payments |->
                           IF journal.state[p] = "none" THEN snap.session[p]
                           ELSE RecoveredSession(p, snap.session[p])]
  /\ UNCHANGED <<preparing, saving, journal, snap, acked, created, crashes>>

Next ==
  \/ \E p \in Payments :
       \/ Create(p) \/ SignLast(p) \/ CloseSession(p)
       \/ JournalPreparing(p) \/ JournalPrepared(p) \/ AbortDecide(p) \/ AbortFinish(p)
       \/ CommitDecide(p) \/ HandlePrepare(p) \/ HandleCommit(p) \/ HandleAbort(p)
       \/ ApplyDecided(p) \/ RecordCommitted(p) \/ MarkSettled(p)
  \/ BeginSave \/ EndSave \/ Crash \/ Restart

Spec == Init /\ [][Next]_vars

-----------------------------------------------------------------------------
(* Properties.                                                             *)

(***************************************************************************)
(* However snapshots, journal and crashes fall together, reservations never*)
(* exceed the balance they are made on.                                    *)
(***************************************************************************)
ReservedCovered == status = "up" => Covered(ledger)

(***************************************************************************)
(* Balances are the registered ones moved once by every applied payment,   *)
(* also when snapshot and journal both know of it.                         *)
(***************************************************************************)
BalancesExplained ==
  status = "up" =>
    \A c \in Channels, side \in Sides :
      LET paid == {p \in ledger.applied : [channel |-> c, from |-> side] \in Hops[p]}
          got == {p \in ledger.applied : [channel |-> c, from |-> Opposite(side)] \in Hops[p]}
      IN ledger.balance[c][side] + Total(paid) = Opening[c][side] + Total(got)

(***************************************************************************)
(* A serving hub keeps what its journal promised: a prepared participant   *)
(* holds its liquidity, a commit that was recorded as done is applied.     *)
(***************************************************************************)
JournalHonoured ==
  status = "up" => \A p \in Cross :
    /\ journal.state[p] = "Committed" => p \in ledger.applied
    /\ journal.state[p] = "Prepared" /\ p \in Participated => p \in ledger.reserved
    /\ journal.state[p] = "Aborted" /\ p \in Participated => p \notin ledger.reserved

(***************************************************************************)
(* A local settlement whose sign request was answered with success is not  *)
(* undone by a crash.                                                      *)
(***************************************************************************)
AckedSurvives == status = "up" => acked \subseteq ledger.applied

(***************************************************************************)
(* No liquidity is lost: what is reserved belongs to an open session, a    *)
(* participant's prepared transaction or a decided one.                    *)
(***************************************************************************)
NoLeakedReservation ==
  status = "up" => \A p \in ledger.reserved :
    \/ session[p] \in {"collecting", "committing"}
    \/ journal.state[p] \in {"Prepared", "CommitDecided"}

(***************************************************************************)
(* A hub that has only taken part in payments of other origins starts      *)
(* again: replayed in the order of list(), decisions first, transactions   *)
(* fit the balances they once fitted.                                      *)
(***************************************************************************)
ParticipantRestarts == status = "refused" => created # {}

(* The money of a serving hub is sound: well-formed, covered, explained.   *)
LedgerSound == TypeOK /\ ReservedCovered /\ BalancesExplained

-----------------------------------------------------------------------------
(* What documents say and the code does not do.                            *)

(***************************************************************************)
(* "unresolved commit and abort acknowledgements are retried after         *)
(* restart" (SECURITY.md): a hub that has crashed starts again.            *)
(***************************************************************************)
RestartServes == status # "refused"
=============================================================================
