-------------------------- MODULE CrossHubPayment --------------------------
(***************************************************************************)
(* One cross-hub payment, from the moment the origin hub has created it to *)
(* its settlement or abort: the durable two-phase commit of                *)
(* src/distributed_tx.rs, the payment session and the local ledger of      *)
(* src/state.rs it drives, the requests between hubs, crashes and restarts *)
(* from a snapshot and a journal.                                          *)
(*                                                                         *)
(* Locks and journal entries are per transaction, so one payment is        *)
(* enough here; payments meet only at channel liquidity, which appears as  *)
(* the freedom of a participant to refuse a prepare.                       *)
(***************************************************************************)
EXTENDS Naturals, FiniteSets

CONSTANTS
  Coordinator,      \* the origin hub
  Participants,     \* the other hubs that own hops of the route
  NumSigners,       \* length of required_signers
  CanEvict,         \* whether the session table may reach max_payment_sessions
  MaxCrashes,       \* bound: process crashes, of all hubs together
  MaxGiveUps,       \* bound: coordinator handlers ended by an error or a disconnect
  MaxDiskFaults     \* bound: participant journal appends that report an error

ASSUME CoordinatorAssumption == Coordinator \notin Participants
ASSUME SignersAssumption == NumSigners \in Nat \ {0}
ASSUME EvictAssumption == CanEvict \in BOOLEAN
ASSUME BoundsAssumption ==
  MaxCrashes \in Nat /\ MaxGiveUps \in Nat /\ MaxDiskFaults \in Nat

Hubs == Participants \cup {Coordinator}

VARIABLES
  cj,         \* origin: journal record of the transaction (durable)
  pj,         \* participants: journal state of the transaction (durable)
  snap,       \* per hub: ledger of the last snapshot file (durable)
  paySnap,    \* origin: payment session in its last snapshot file (durable)
  up,         \* per hub: the process is serving
  ledger,     \* per hub: reservation and applied settlement (memory)
  pay,        \* origin: payment session (memory)
  op,         \* origin: the handler that holds the transaction lock (memory)
  failing,    \* origin: the create handler got an error and will fail_payment
  reqs,       \* signed requests sent so far; any may arrive late, twice, never
  acks,       \* signed acknowledgements sent so far
  expired,    \* the clock has reached expires_unix
  crashes, giveUps, diskFaults     \* counters of the bounded events

journals == <<cj, pj>>
disk == <<journals, snap, paySnap>>
memory == <<up, ledger, pay, op, failing>>
network == <<reqs, acks>>
counters == <<crashes, giveUps, diskFaults>>
vars == <<disk, memory, network, expired, counters>>

-----------------------------------------------------------------------------
(* Journal states, payment statuses, messages.                             *)

CommitSide == {"CommitDecided", "Committed"}
AbortSide == {"AbortDecided", "Aborted"}
CoordinatorStates == {"none", "Preparing", "Prepared"} \cup CommitSide \cup AbortSide
ParticipantStates == {"none", "Prepared", "Aborted"} \cup CommitSide

Statuses == {"none", "collecting", "committing", "settled", "failed", "timedOut"}
Terminal == {"settled", "failed", "timedOut"}

Payments == [status : Statuses, sigs : 0..NumSigners]
NoPayment == [status |-> "none", sigs |-> 0]
NewPayment == [status |-> "collecting", sigs |-> 0]

Records ==
  [state : CoordinatorStates, image : Payments,
   prepared : SUBSET Participants, committed : SUBSET Participants,
   aborted : SUBSET Participants]
NoRecord ==
  [state |-> "none", image |-> NoPayment,
   prepared |-> {}, committed |-> {}, aborted |-> {}]

(***************************************************************************)
(* One hub's view of its own hops: held, liquidity is reserved; applied,   *)
(* the transaction is in applied_settlements; moved, how often this image  *)
(* of the channel balances was shifted by the amount.                      *)
(***************************************************************************)
Ledgers == [held : BOOLEAN, applied : BOOLEAN, moved : Nat]
FreshLedger == [held |-> FALSE, applied |-> FALSE, moved |-> 0]

(***************************************************************************)
(* The handler inside the transaction lock: what it does, whom it still    *)
(* has to contact, whose answer it awaits, whether a contact failed.       *)
(***************************************************************************)
Kinds == {"idle", "begin", "prepare", "apply", "commit", "settle", "abort"}
Ops == [kind : Kinds, left : SUBSET Participants,
        asked : SUBSET Participants, failed : BOOLEAN]
Idle == [kind |-> "idle", left |-> {}, asked |-> {}, failed |-> FALSE]
Running(kind, targets) ==
  [kind |-> kind, left |-> targets, asked |-> {}, failed |-> FALSE]

Requests == [phase : {"prepare", "commit", "abort"}, to : Participants, sigs : 0..NumSigners]
Acks == [phase : {"prepare", "commit", "abort"}, from : Participants,
         state : ParticipantStates]

TypeOK ==
  /\ cj \in Records
  /\ pj \in [Participants -> ParticipantStates]
  /\ snap \in [Hubs -> Ledgers]
  /\ paySnap \in Payments
  /\ up \in [Hubs -> BOOLEAN]
  /\ ledger \in [Hubs -> Ledgers]
  /\ pay \in Payments
  /\ op \in Ops
  /\ failing \in BOOLEAN
  /\ reqs \in SUBSET Requests
  /\ acks \in SUBSET Acks
  /\ expired \in BOOLEAN
  /\ crashes \in Nat /\ giveUps \in Nat /\ diskFaults \in Nat

(***************************************************************************)
(* create_payment_mode has inserted the session and reserved its local     *)
(* hops; nothing is on disk yet.                                           *)
(***************************************************************************)
Init ==
  /\ cj = NoRecord
  /\ pj = [p \in Participants |-> "none"]
  /\ snap = [h \in Hubs |-> FreshLedger]
  /\ paySnap = NoPayment
  /\ up = [h \in Hubs |-> TRUE]
  /\ ledger = [h \in Hubs |-> IF h = Coordinator THEN [FreshLedger EXCEPT !.held = TRUE]
                                                 ELSE FreshLedger]
  /\ pay = NewPayment
  /\ op = Idle
  /\ failing = FALSE
  /\ reqs = {} /\ acks = {}
  /\ expired = FALSE
  /\ crashes = 0 /\ giveUps = 0 /\ diskFaults = 0

-----------------------------------------------------------------------------
(* Ledger and session operations of state.rs that the handlers call.       *)

\* Mutant of Release: the reservation is forgotten, not released.
ReleaseNothing(l) == l

Release(l) == IF l.applied THEN l ELSE [l EXCEPT !.held = FALSE]

Reserve(l) == IF l.applied THEN l ELSE [l EXCEPT !.held = TRUE]

CanApply(l) == l.applied \/ l.held

\* Mutant of Apply: applied_settlements is not consulted.
ApplyAgain(l) == [held |-> FALSE, applied |-> TRUE, moved |-> l.moved + 1]

Apply(l) ==
  IF l.applied THEN [l EXCEPT !.held = FALSE]
  ELSE [held |-> FALSE, applied |-> TRUE, moved |-> l.moved + 1]

Failable(payment) == payment.status \notin {"none", "committing", "settled"}

FailPayment ==
  IF Failable(pay)
  THEN /\ pay' = [pay EXCEPT !.status = "failed"]
       /\ ledger' = [ledger EXCEPT ![Coordinator].held = FALSE]
  ELSE UNCHANGED <<pay, ledger>>

\* Mutant of AllSigned: the last required signer is not counted.
AlmostAllSigned(payment) == payment.status # "none" /\ payment.sigs + 1 >= NumSigners

AllSigned(payment) == payment.status # "none" /\ payment.sigs = NumSigners

-----------------------------------------------------------------------------
(* The payment session, outside the transaction lock.                      *)

\* Mutant of AddSignature: only a settled payment refuses signatures.
AddSignatureLate ==
  /\ up[Coordinator]
  /\ pay.status \in {"collecting", "committing"} /\ ~expired
  /\ pay' = [status |-> IF pay.sigs + 1 = NumSigners THEN "committing" ELSE pay.status,
             sigs |-> pay.sigs + 1]
  /\ UNCHANGED <<disk, up, ledger, op, failing, network, expired, counters>>

(***************************************************************************)
(* The next required signer signs; the last one makes a cross-hub payment  *)
(* Committing.                                                             *)
(***************************************************************************)
AddSignature ==
  /\ up[Coordinator]
  /\ pay.status = "collecting" /\ ~expired
  /\ pay' = [status |-> IF pay.sigs + 1 = NumSigners THEN "committing" ELSE "collecting",
             sigs |-> pay.sigs + 1]
  /\ UNCHANGED <<disk, up, ledger, op, failing, network, expired, counters>>

(***************************************************************************)
(* The TTL loop, or a signature that comes too late, times the session out.*)
(***************************************************************************)
ExpirePayment ==
  /\ up[Coordinator]
  /\ pay.status = "collecting" /\ expired
  /\ pay' = [pay EXCEPT !.status = "timedOut"]
  /\ ledger' = [ledger EXCEPT ![Coordinator].held = FALSE]
  /\ UNCHANGED <<disk, up, op, failing, network, expired, counters>>

TimePasses ==
  /\ ~expired
  /\ expired' = TRUE
  /\ UNCHANGED <<disk, memory, network, counters>>

(***************************************************************************)
(* Another create drops finished sessions when the session table is full.  *)
(***************************************************************************)
EvictSession ==
  /\ CanEvict /\ up[Coordinator]
  /\ pay.status \in Terminal
  /\ pay' = NoPayment
  /\ UNCHANGED <<disk, up, ledger, op, failing, network, expired, counters>>

(***************************************************************************)
(* Fail or cancel of a payment the journal does not know.                  *)
(***************************************************************************)
FailUnjournaled ==
  /\ up[Coordinator]
  /\ cj.state = "none" /\ Failable(pay)
  /\ FailPayment
  /\ UNCHANGED <<disk, up, op, failing, network, expired, counters>>

-----------------------------------------------------------------------------
(* prepare_origin: the create handler, inside the transaction lock.        *)

LockFree == up[Coordinator] /\ op.kind = "idle"

PrepareBegin ==
  /\ LockFree
  /\ cj.state = "none" /\ ledger[Coordinator].held
  /\ op' = Running("begin", {})
  /\ UNCHANGED <<disk, up, ledger, pay, failing, network, expired, counters>>

(***************************************************************************)
(* A create that is replayed finds an unfinished or aborted entry, or no   *)
(* reservation to prepare: it fails the payment.                           *)
(***************************************************************************)
PrepareRefused ==
  /\ LockFree
  /\ \/ cj.state \in AbortSide \cup {"Preparing"}
     \/ cj.state = "none" /\ ~ledger[Coordinator].held
  /\ Failable(pay)
  /\ FailPayment
  /\ UNCHANGED <<disk, up, op, failing, network, expired, counters>>

(***************************************************************************)
(* The recovery image is the candidate the handler was called with: the    *)
(* new session, or the session a replayed create looked up at some time.   *)
(***************************************************************************)
CandidateImages ==
  {image \in Payments : /\ image.status = "collecting"
                        /\ image.sigs <= pay.sigs /\ image.sigs < NumSigners}
    \cup {image \in {pay} : image.status = "committing"}

JournalPreparing ==
  /\ up[Coordinator] /\ op.kind = "begin"
  /\ \E image \in CandidateImages :
       cj' = [NoRecord EXCEPT !.state = "Preparing", !.image = image]
  /\ op' = Running("prepare", Participants)
  /\ UNCHANGED <<pj, snap, paySnap, up, ledger, pay, failing, network, expired, counters>>

(***************************************************************************)
(* Every contact of a handler is one signed request and one wait for its   *)
(* answer.  A commit carries the user signatures.                          *)
(***************************************************************************)
Contact(p) ==
  /\ up[Coordinator] /\ op.kind \in {"prepare", "commit", "abort"}
  /\ op.asked = {} /\ p \in op.left
  /\ reqs' = reqs \cup {[phase |-> op.kind, to |-> p,
                         sigs |-> IF op.kind = "commit" THEN pay.sigs ELSE 0]}
  /\ op' = [op EXCEPT !.asked = {p}]
  /\ UNCHANGED <<disk, up, ledger, pay, failing, acks, expired, counters>>

Awaits(kind, p) == up[Coordinator] /\ op.kind = kind /\ op.asked = {p}

\* Mutant of PrepareAcknowledged: the answer is not looked at.
PrepareAssumed(p) ==
  /\ Awaits("prepare", p)
  /\ cj' = [cj EXCEPT !.prepared = @ \cup {p}]
  /\ op' = [op EXCEPT !.left = @ \ {p}, !.asked = {}]
  /\ UNCHANGED <<pj, snap, paySnap, up, ledger, pay, failing, network, expired, counters>>

PrepareAcknowledged(p) ==
  /\ Awaits("prepare", p)
  /\ [phase |-> "prepare", from |-> p, state |-> "Prepared"] \in acks
  /\ cj' = [cj EXCEPT !.prepared = @ \cup {p}]
  /\ op' = [op EXCEPT !.left = @ \ {p}, !.asked = {}]
  /\ UNCHANGED <<pj, snap, paySnap, up, ledger, pay, failing, network, expired, counters>>

(***************************************************************************)
(* A refusal, a wrong answer, or none within the client's timeout: the     *)
(* decision to abort is journaled and every participant is told, the ones  *)
(* that never prepared included.                                           *)
(***************************************************************************)
PrepareFailed(p) ==
  /\ Awaits("prepare", p)
  /\ cj' = [cj EXCEPT !.state = "AbortDecided"]
  /\ op' = Running("abort", Participants)
  /\ UNCHANGED <<pj, snap, paySnap, up, ledger, pay, failing, network, expired, counters>>

(***************************************************************************)
(* The last append of the handler; if it reports an error although the     *)
(* record reached the file, the create handler goes on to fail_payment.    *)
(***************************************************************************)
PrepareFinish ==
  /\ up[Coordinator] /\ op.kind = "prepare" /\ op.left = {}
  /\ cj' = [cj EXCEPT !.state = "Prepared"]
  /\ op' = Idle
  /\ \/ UNCHANGED <<failing, giveUps>>
     \/ giveUps < MaxGiveUps /\ giveUps' = giveUps + 1 /\ failing' = TRUE
  /\ UNCHANGED <<pj, snap, paySnap, up, ledger, pay, network, expired,
                 crashes, diskFaults>>

FailAfterPrepare ==
  /\ up[Coordinator] /\ failing
  /\ failing' = FALSE
  /\ FailPayment
  /\ UNCHANGED <<disk, up, op, network, expired, counters>>

-----------------------------------------------------------------------------
(* commit_origin_locked: after the last signature, and from the retry loop.*)

\* Mutant of CommitDecide: the recovery image of the prepare is kept.
CommitDecideOldImage ==
  /\ LockFree
  /\ cj.state = "Prepared" /\ AllSigned(pay)
  /\ cj' = [cj EXCEPT !.state = "CommitDecided"]
  /\ op' = Running("apply", {})
  /\ UNCHANGED <<pj, snap, paySnap, up, ledger, pay, failing, network, expired, counters>>

CommitDecide ==
  /\ LockFree
  /\ cj.state = "Prepared" /\ AllSigned(pay)
  /\ cj' = [cj EXCEPT !.state = "CommitDecided", !.image = pay]
  /\ op' = Running("apply", {})
  /\ UNCHANGED <<pj, snap, paySnap, up, ledger, pay, failing, network, expired, counters>>

CommitResume ==
  /\ LockFree
  /\ cj.state = "CommitDecided" /\ AllSigned(pay)
  /\ op' = Running("apply", {})
  /\ UNCHANGED <<disk, up, ledger, pay, failing, network, expired, counters>>

ApplyLocal ==
  /\ up[Coordinator] /\ op.kind = "apply"
  /\ IF CanApply(ledger[Coordinator])
     THEN /\ ledger' = [ledger EXCEPT ![Coordinator] = Apply(@)]
          /\ op' = Running("commit", Participants \ cj.committed)
     ELSE op' = Idle /\ UNCHANGED ledger
  /\ UNCHANGED <<disk, up, pay, failing, network, expired, counters>>

CommitAcknowledged(p) ==
  /\ Awaits("commit", p)
  /\ [phase |-> "commit", from |-> p, state |-> "Committed"] \in acks
  /\ cj' = [cj EXCEPT !.committed = @ \cup {p}]
  /\ op' = [op EXCEPT !.left = @ \ {p}, !.asked = {}]
  /\ UNCHANGED <<pj, snap, paySnap, up, ledger, pay, failing, network, expired, counters>>

\* Mutant of Unanswered: the failed contact is not remembered.
UnansweredIgnored(p) ==
  /\ Awaits("commit", p) \/ Awaits("abort", p)
  /\ op' = [op EXCEPT !.left = @ \ {p}, !.asked = {}]
  /\ UNCHANGED <<disk, up, ledger, pay, failing, network, expired, counters>>

Unanswered(p) ==
  /\ Awaits("commit", p) \/ Awaits("abort", p)
  /\ op' = [op EXCEPT !.left = @ \ {p}, !.asked = {}, !.failed = TRUE]
  /\ UNCHANGED <<disk, up, ledger, pay, failing, network, expired, counters>>

CommitPending ==
  /\ up[Coordinator] /\ op.kind = "commit" /\ op.left = {} /\ op.failed
  /\ op' = Idle
  /\ pay' = IF pay.status \in {"none", "settled"} THEN pay
            ELSE [pay EXCEPT !.status = "committing"]
  /\ UNCHANGED <<disk, up, ledger, failing, network, expired, counters>>

CommitFinish ==
  /\ up[Coordinator] /\ op.kind = "commit" /\ op.left = {} /\ ~op.failed
  /\ cj' = [cj EXCEPT !.state = "Committed"]
  /\ op' = Running("settle", {})
  /\ UNCHANGED <<pj, snap, paySnap, up, ledger, pay, failing, network, expired, counters>>

Settled(payment) ==
  IF payment.status = "none" THEN payment ELSE [payment EXCEPT !.status = "settled"]

MarkSettled ==
  /\ up[Coordinator] /\ op.kind = "settle"
  /\ pay' = IF ledger[Coordinator].applied THEN Settled(pay) ELSE pay
  /\ op' = Idle
  /\ UNCHANGED <<disk, up, ledger, failing, network, expired, counters>>

(***************************************************************************)
(* The retry loop settles a committed transaction whose session is behind; *)
(* it does so without the transaction lock.                                *)
(***************************************************************************)
Reconcile ==
  /\ up[Coordinator]
  /\ cj.state = "Committed" /\ pay.status \notin {"none", "settled"}
  /\ CanApply(ledger[Coordinator])
  /\ ledger' = [ledger EXCEPT ![Coordinator] = Apply(@)]
  /\ pay' = Settled(pay)
  /\ UNCHANGED <<disk, up, op, failing, network, expired, counters>>

-----------------------------------------------------------------------------
(* abort_origin: an operator, a party of the payment, or the retry loop.   *)

\* Mutants of Abortable: a commit decision, or a finished abort, is reopened.
AbortableCommitted == {"Preparing", "Prepared", "AbortDecided", "CommitDecided"}
AbortableTwice == {"Preparing", "Prepared", "AbortDecided", "Aborted"}

Abortable == {"Preparing", "Prepared", "AbortDecided"}

AbortOrigin ==
  /\ LockFree
  /\ cj.state \in Abortable
  /\ cj' = [cj EXCEPT !.state = "AbortDecided"]
  /\ op' = Running("abort", Participants \ cj.aborted)
  /\ UNCHANGED <<pj, snap, paySnap, up, ledger, pay, failing, network, expired, counters>>

\* Mutant of RetryDue: expiry of a prepared payment is left to somebody else.
RetryDueNoExpiry == cj.state \in {"Preparing", "AbortDecided"}

(***************************************************************************)
(* The retry loop aborts what was never prepared, what is already being    *)
(* aborted, and what expired before its last signature.                    *)
(***************************************************************************)
RetryDue ==
  \/ cj.state \in {"Preparing", "AbortDecided"}
  \/ /\ cj.state = "Prepared" /\ expired
     /\ pay.status \notin {"none", "committing"} /\ ~AllSigned(pay)

RetryAbort == RetryDue /\ AbortOrigin

AbortAcknowledged(p) ==
  /\ Awaits("abort", p)
  /\ [phase |-> "abort", from |-> p, state |-> "Aborted"] \in acks
  /\ cj' = [cj EXCEPT !.aborted = @ \cup {p}]
  /\ op' = [op EXCEPT !.left = @ \ {p}, !.asked = {}]
  /\ UNCHANGED <<pj, snap, paySnap, up, ledger, pay, failing, network, expired, counters>>

(***************************************************************************)
(* Only now, after the network waits, does the session fail; the record    *)
(* becomes final when every participant has acknowledged.                  *)
(***************************************************************************)
AbortFinish ==
  /\ up[Coordinator] /\ op.kind = "abort" /\ op.left = {}
  /\ FailPayment
  /\ \/ /\ cj' = IF ~op.failed /\ cj.aborted = Participants
                 THEN [cj EXCEPT !.state = "Aborted"] ELSE cj
        /\ UNCHANGED giveUps
     \/ giveUps < MaxGiveUps /\ giveUps' = giveUps + 1 /\ UNCHANGED cj
  /\ op' = Idle
  /\ UNCHANGED <<pj, snap, paySnap, up, failing, network, expired, crashes, diskFaults>>

(***************************************************************************)
(* A handler ends early at a journal error, a vanished peer, or because    *)
(* its HTTP caller is gone; the lock is released.  A create handler that   *)
(* is still alive then fails the payment.                                  *)
(***************************************************************************)
GiveUp ==
  /\ up[Coordinator] /\ op.kind # "idle" /\ giveUps < MaxGiveUps
  /\ giveUps' = giveUps + 1
  /\ op' = Idle
  /\ failing' \in IF op.kind \in {"begin", "prepare"} THEN BOOLEAN ELSE {failing}
  /\ UNCHANGED <<disk, up, ledger, pay, network, expired, crashes, diskFaults>>

-----------------------------------------------------------------------------
(* handle_participant_request, inside the participant's transaction lock.  *)

Received(phase, p) ==
  up[p] /\ \E r \in reqs : r.phase = phase /\ r.to = p

Acknowledge(phase, p, state) ==
  acks' = acks \cup {[phase |-> phase, from |-> p, state |-> state]}

HandlePrepare(p) ==
  /\ Received("prepare", p) /\ ~expired
  /\ pj[p] = "none"
  /\ ledger' = [ledger EXCEPT ![p] = Reserve(@)]
  /\ pj' = [pj EXCEPT ![p] = "Prepared"]
  /\ Acknowledge("prepare", p, "Prepared")
  /\ UNCHANGED <<cj, snap, paySnap, up, pay, op, failing, reqs, expired, counters>>

HandlePrepareAgain(p) ==
  /\ Received("prepare", p) /\ ~expired
  /\ pj[p] \in {"Prepared", "Committed"}
  /\ Acknowledge("prepare", p, pj[p])
  /\ UNCHANGED <<disk, memory, reqs, expired, counters>>

(***************************************************************************)
(* The append reports an error although its record reached the file: the   *)
(* reservation is released, the journal that is read again says Prepared.  *)
(***************************************************************************)
PrepareDiskFault(p) ==
  /\ diskFaults < MaxDiskFaults /\ diskFaults' = diskFaults + 1
  /\ Received("prepare", p) /\ ~expired
  /\ pj[p] = "none"
  /\ pj' = [pj EXCEPT ![p] = "Prepared"]
  /\ ledger' = [ledger EXCEPT ![p] = Release(@)]
  /\ UNCHANGED <<cj, snap, paySnap, up, pay, op, failing, network, expired,
                 crashes, giveUps>>

(***************************************************************************)
(* A commit must carry every required signature.  Decision, application    *)
(* and completion are three steps: an error or a crash may part them, and  *)
(* the next delivery goes on from where the journal stands.                *)
(***************************************************************************)
CommitReceived(p) ==
  up[p] /\ \E r \in reqs : r.phase = "commit" /\ r.to = p /\ r.sigs = NumSigners

RecordCommitDecision(p) ==
  /\ CommitReceived(p) /\ pj[p] = "Prepared"
  /\ pj' = [pj EXCEPT ![p] = "CommitDecided"]
  /\ UNCHANGED <<cj, snap, paySnap, memory, network, expired, counters>>

ApplyParticipant(p) ==
  /\ CommitReceived(p) /\ pj[p] = "CommitDecided"
  /\ ledger[p].held /\ ~ledger[p].applied
  /\ ledger' = [ledger EXCEPT ![p] = Apply(@)]
  /\ UNCHANGED <<disk, up, pay, op, failing, network, expired, counters>>

RecordCommitted(p) ==
  /\ CommitReceived(p)
  /\ pj[p] = "CommitDecided" /\ ledger[p].applied
  /\ pj' = [pj EXCEPT ![p] = "Committed"]
  /\ Acknowledge("commit", p, "Committed")
  /\ UNCHANGED <<cj, snap, paySnap, memory, reqs, expired, counters>>

\* Mutant of HandleAbort: an abort without a prior prepare is refused.
HandleAbortNoTombstone(p) ==
  /\ Received("abort", p) /\ pj[p] \in {"Prepared", "Aborted"}
  /\ pj' = [pj EXCEPT ![p] = "Aborted"]
  /\ ledger' = [ledger EXCEPT ![p] = IF pj[p] = "Aborted" THEN @ ELSE Release(@)]
  /\ Acknowledge("abort", p, "Aborted")
  /\ UNCHANGED <<cj, snap, paySnap, up, pay, op, failing, reqs, expired, counters>>

(***************************************************************************)
(* An abort is refused only against a commit decision.  Without a prior    *)
(* prepare it leaves a tombstone.                                          *)
(***************************************************************************)
HandleAbort(p) ==
  /\ Received("abort", p) /\ pj[p] \notin CommitSide
  /\ pj' = [pj EXCEPT ![p] = "Aborted"]
  /\ ledger' = [ledger EXCEPT ![p] = IF pj[p] = "Aborted" THEN @ ELSE Release(@)]
  /\ Acknowledge("abort", p, "Aborted")
  /\ UNCHANGED <<cj, snap, paySnap, up, pay, op, failing, reqs, expired, counters>>

AbortDiskFault(p) ==
  /\ diskFaults < MaxDiskFaults /\ diskFaults' = diskFaults + 1
  /\ Received("abort", p) /\ pj[p] \in {"none", "Prepared"}
  /\ pj' = [pj EXCEPT ![p] = "Aborted"]
  /\ UNCHANGED <<cj, snap, paySnap, memory, network, expired, crashes, giveUps>>

-----------------------------------------------------------------------------
(* Snapshots, crashes, and recover_local before the hub serves again.      *)

Exported(payment) == payment.status \in {"collecting", "committing", "settled"}

(***************************************************************************)
(* A snapshot keeps open and settled sessions, their reservations, and the *)
(* applied settlements with the channel balances.  A participant has no    *)
(* session, so its reservation is not in the file.                         *)
(***************************************************************************)
Checkpoint(h) ==
  /\ up[h]
  /\ LET exported == h = Coordinator /\ Exported(pay)
     IN  /\ snap' = [snap EXCEPT ![h] =
                       [ledger[h] EXCEPT !.held = exported /\ @]]
         /\ paySnap' = IF h # Coordinator THEN paySnap
                       ELSE IF exported THEN pay ELSE NoPayment
  /\ UNCHANGED <<journals, memory, network, expired, counters>>

Crash(h) ==
  /\ up[h] /\ crashes < MaxCrashes
  /\ crashes' = crashes + 1
  /\ up' = [up EXCEPT ![h] = FALSE]
  /\ ledger' = [ledger EXCEPT ![h] = FreshLedger]
  /\ IF h = Coordinator
     THEN pay' = NoPayment /\ op' = Idle /\ failing' = FALSE
     ELSE UNCHANGED <<pay, op, failing>>
  /\ UNCHANGED <<disk, network, expired, giveUps, diskFaults>>

\* Mutant of RecoveredLedger: only decided transactions are rebuilt.
RecoveredLedgerDecided(state, l) ==
  CASE state \in {"none", "Prepared"} -> l
    [] state \in CommitSide -> Apply(Reserve(l))
    [] OTHER -> Release(l)

(***************************************************************************)
(* What the journal makes of the ledger in the snapshot.  Re-reserving is  *)
(* taken to succeed: a hub where it fails refuses to start.                *)
(***************************************************************************)
RecoveredLedger(state, l) ==
  CASE state = "none" -> l
    [] state = "Prepared" -> Reserve(l)
    [] state \in CommitSide -> Apply(Reserve(l))
    [] OTHER -> Release(l)

\* Mutant of RecoveredPayment: a session in the snapshot wins over the image.
RecoveredPaymentStale ==
  LET known == IF paySnap.status = "none" /\ cj.state # "none" THEN cj.image ELSE paySnap
  IN  CASE cj.state = "Committed" -> [known EXCEPT !.status = "settled"]
        [] cj.state = "CommitDecided" -> [known EXCEPT !.status = "committing"]
        [] cj.state \in AbortSide /\ Failable(known) -> [known EXCEPT !.status = "failed"]
        [] OTHER -> known

(***************************************************************************)
(* The commit image replaces the session; otherwise the image only fills a *)
(* hole in the snapshot.  A durable abort fails the session if it can.     *)
(***************************************************************************)
RecoveredPayment ==
  LET known == IF paySnap.status = "none" /\ cj.state # "none" THEN cj.image ELSE paySnap
  IN  CASE cj.state = "Committed" -> [cj.image EXCEPT !.status = "settled"]
        [] cj.state = "CommitDecided" -> [cj.image EXCEPT !.status = "committing"]
        [] cj.state \in AbortSide /\ Failable(known) -> [known EXCEPT !.status = "failed"]
        [] OTHER -> known

Restart(h) ==
  /\ ~up[h]
  /\ up' = [up EXCEPT ![h] = TRUE]
  /\ ledger' = [ledger EXCEPT ![h] =
                  RecoveredLedger(IF h = Coordinator THEN cj.state ELSE pj[h], snap[h])]
  /\ pay' = IF h = Coordinator THEN RecoveredPayment ELSE pay
  /\ UNCHANGED <<disk, op, failing, network, expired, counters>>

-----------------------------------------------------------------------------
Session == AddSignature \/ ExpirePayment \/ EvictSession \/ FailUnjournaled

Preparation ==
  \/ PrepareBegin \/ PrepareRefused \/ JournalPreparing \/ PrepareFinish
  \/ FailAfterPrepare
  \/ \E p \in Participants : PrepareAcknowledged(p) \/ PrepareFailed(p)

Commitment ==
  \/ CommitDecide \/ CommitResume \/ ApplyLocal \/ CommitPending \/ CommitFinish
  \/ MarkSettled \/ Reconcile
  \/ \E p \in Participants : CommitAcknowledged(p)

Abortion ==
  AbortOrigin \/ AbortFinish \/ \E p \in Participants : AbortAcknowledged(p)

ParticipantStep(p) ==
  \/ HandlePrepare(p) \/ HandlePrepareAgain(p) \/ PrepareDiskFault(p)
  \/ RecordCommitDecision(p) \/ ApplyParticipant(p) \/ RecordCommitted(p)
  \/ HandleAbort(p) \/ AbortDiskFault(p)

Next ==
  \/ Session \/ TimePasses
  \/ Preparation \/ Commitment \/ Abortion \/ GiveUp
  \/ \E p \in Participants : Contact(p) \/ Unanswered(p) \/ ParticipantStep(p)
  \/ \E h \in Hubs : Checkpoint(h) \/ Crash(h) \/ Restart(h)

Spec == Init /\ [][Next]_vars

(***************************************************************************)
(* A running handler goes on: its HTTP client times out after 8 seconds at *)
(* the latest.                                                             *)
(***************************************************************************)
HandlerStep ==
  \/ JournalPreparing \/ PrepareFinish \/ ApplyLocal \/ CommitPending \/ CommitFinish
  \/ MarkSettled \/ AbortFinish
  \/ \E p \in Participants : Contact(p) \/ PrepareFailed(p) \/ Unanswered(p)

(***************************************************************************)
(* What the program and its surroundings keep doing: crashed hubs are      *)
(* started again, the clock runs, the retry loop ticks, a delivered        *)
(* request is handled, and an answer that is offered again and again is    *)
(* received at last.  Users, operators and faults owe nothing.             *)
(***************************************************************************)
Fairness ==
  /\ WF_vars(TimePasses) /\ WF_vars(HandlerStep)
  /\ WF_vars(CommitDecide) /\ WF_vars(CommitResume)
  /\ WF_vars(Reconcile) /\ WF_vars(RetryAbort)
  /\ \A h \in Hubs : WF_vars(Restart(h))
  /\ \A p \in Participants :
       /\ WF_vars(HandleAbort(p)) /\ WF_vars(RecordCommitDecision(p))
       /\ WF_vars(ApplyParticipant(p)) /\ WF_vars(RecordCommitted(p))
       /\ SF_vars(CommitAcknowledged(p)) /\ SF_vars(AbortAcknowledged(p))

FairSpec == Spec /\ Fairness

-----------------------------------------------------------------------------
(* Safety.                                                                 *)

(***************************************************************************)
(* PROTOCOL-SPEC-V3 invariant 8 over all hubs: whatever is lost, repeated  *)
(* or delayed, and whoever restarts, no hub is durably on the commit side  *)
(* while the origin or another hub is durably on the abort side.           *)
(***************************************************************************)
DecisionAgreement ==
  \A p, q \in Participants :
    pj[p] \in CommitSide => pj[q] # "Aborted" /\ cj.state \notin AbortSide

(***************************************************************************)
(* Nobody commits alone: a commit decision anywhere means the origin has   *)
(* decided, holds every required signature in its recovery image, and      *)
(* every participant is durably prepared.                                  *)
(***************************************************************************)
CommitNeedsEveryone ==
  (cj.state \in CommitSide \/ \E p \in Participants : pj[p] \in CommitSide) =>
    /\ cj.state \in CommitSide
    /\ cj.image = [status |-> "committing", sigs |-> NumSigners]
    /\ \A p \in Participants : pj[p] \in CommitSide \cup {"Prepared"}

(***************************************************************************)
(* Exactly-once application: replaying the journal over any snapshot, old  *)
(* or new, and any repeated commit, never shifts a balance twice, and none *)
(* is shifted before the decision is on this hub's disk.                   *)
(***************************************************************************)
DurableSide(h) == IF h = Coordinator THEN cj.state ELSE pj[h]

MovedOnce(h, l) ==
  /\ l.moved = IF l.applied THEN 1 ELSE 0
  /\ l.applied => DurableSide(h) \in CommitSide

ExactlyOnce == \A h \in Hubs : MovedOnce(h, ledger[h]) /\ MovedOnce(h, snap[h])

(***************************************************************************)
(* "settled means every participant acknowledged commit" (api.rs): and     *)
(* every hub that is serving has moved its balances.                       *)
(***************************************************************************)
SettledEverywhere ==
  (pay.status = "settled" \/ paySnap.status = "settled") =>
    /\ \A p \in Participants : pj[p] = "Committed"
    /\ \A h \in Hubs : up[h] => ledger[h].applied

(***************************************************************************)
(* recover_local refuses to start a hub whose recovery image is terminal   *)
(* or, after a commit decision, not fully signed: that never happens.      *)
(***************************************************************************)
ImageRestorable ==
  /\ cj.state # "none" => cj.image.status \in {"collecting", "committing"}
  /\ cj.state \in CommitSide => cj.image.status = "committing" /\ AllSigned(cj.image)

(***************************************************************************)
(* A decided commit is never blocked by its own hub: every serving hub has *)
(* applied its hops or still holds the liquidity for them.                 *)
(***************************************************************************)
CommitApplicable ==
  cj.state \in CommitSide => \A h \in Hubs : up[h] => CanApply(ledger[h])

(***************************************************************************)
(* A finished abort leaves no participant with locked liquidity.           *)
(***************************************************************************)
AbortReleases ==
  cj.state = "Aborted" => \A p \in Participants : up[p] => ~ledger[p].held

-----------------------------------------------------------------------------
(* Why the safety properties hold: an inductive invariant, in parts.       *)

FullySigned(payment) ==
  payment.sigs = NumSigners => payment.status \in {"committing", "settled"}

SignatureInv == FullySigned(pay) /\ FullySigned(paySnap) /\ FullySigned(cj.image)

\* What the running handler knows of the journal: nobody else writes it.
HandlerInv ==
  /\ op.kind = "begin" => cj.state = "none"
  /\ op.kind = "prepare" => cj.state = "Preparing"
  /\ op.kind \in {"apply", "commit"} => cj.state = "CommitDecided"
  /\ op.kind = "settle" => cj.state = "Committed"
  /\ op.kind = "abort" => cj.state = "AbortDecided"

\* What a message in flight proves, however late it arrives.
MessageInv ==
  /\ \A r \in reqs : /\ r.phase = "commit" => cj.state \in CommitSide
                     /\ r.phase = "abort" => cj.state \in AbortSide
  /\ \A a \in acks : /\ a.phase = "prepare" => pj[a.from] # "none"
                     /\ a.phase = "commit" => pj[a.from] = "Committed"
                     /\ a.phase = "abort" => pj[a.from] = "Aborted"

\* What a participant's journal says of the origin's, and the reverse.
VoteInv ==
  \A p \in Participants :
    /\ pj[p] \in CommitSide => cj.state \in CommitSide
    /\ pj[p] = "Aborted" => cj.state \in AbortSide
    /\ cj.state \in {"Prepared"} \cup CommitSide => pj[p] # "none"
    /\ cj.state = "Committed" \/ p \in cj.committed => pj[p] = "Committed"
    /\ cj.state = "Aborted" \/ p \in cj.aborted => pj[p] = "Aborted"
    /\ op.kind = "prepare" /\ p \notin op.left => pj[p] # "none"
    /\ op.kind = "commit" /\ p \notin op.left /\ ~op.failed => pj[p] = "Committed"

\* What the recovery image holds, and that "settled" needs the final record.
ImageInv ==
  /\ cj.state = "none" => cj = NoRecord
  /\ cj.state # "none" => cj.image.status \in {"collecting", "committing"}
  /\ cj.state \in CommitSide => cj.image = [status |-> "committing", sigs |-> NumSigners]
  /\ pay.status = "settled" \/ paySnap.status = "settled" => cj.state = "Committed"

(***************************************************************************)
(* The parts together are kept by every step, whatever the constants.      *)
(***************************************************************************)
InductiveInv ==
  TypeOK /\ SignatureInv /\ HandlerInv /\ MessageInv /\ VoteInv /\ ImageInv /\ ExactlyOnce

-----------------------------------------------------------------------------
(* Steps of the journals.                                                  *)

CoordinatorSuccessors ==
  [none |-> {"Preparing"},
   Preparing |-> {"Preparing", "Prepared", "AbortDecided"},
   Prepared |-> {"Prepared", "CommitDecided", "AbortDecided"},
   CommitDecided |-> {"CommitDecided", "Committed"},
   Committed |-> {"Committed"},
   AbortDecided |-> {"AbortDecided", "Aborted"},
   Aborted |-> {"Aborted"}]

ParticipantSuccessors ==
  [none |-> {"none", "Prepared", "Aborted"},
   Prepared |-> {"Prepared", "CommitDecided", "Aborted"},
   CommitDecided |-> {"CommitDecided", "Committed"},
   Committed |-> {"Committed"},
   Aborted |-> {"Aborted"}]

ValidTransition(previous, next) ==
  /\ next.state \in CoordinatorSuccessors[previous.state]
  /\ previous.prepared \subseteq next.prepared
  /\ previous.committed \subseteq next.committed
  /\ previous.aborted \subseteq next.aborted
  /\ next.committed \cap next.aborted = {}

JournalAction ==
  /\ cj' # cj => ValidTransition(cj, cj')
  /\ \A p \in Participants : pj'[p] \in ParticipantSuccessors[pj[p]]

(***************************************************************************)
(* The transaction manager never asks for an append that                   *)
(* validate_journal_transition refuses, so no decision is lost to a        *)
(* refused record; in particular no decision is ever taken back.           *)
(***************************************************************************)
JournalStepsValid == [][JournalAction]_journals

(***************************************************************************)
(* The journals alone implement the abstract commitment: memory, network   *)
(* and snapshots are invisible to it, whatever happens to them.            *)
(***************************************************************************)
AbstractDecision ==
  IF cj.state \in CommitSide THEN "commit"
  ELSE IF cj.state \in AbortSide THEN "abort" ELSE "undecided"

AbstractPart ==
  [p \in Participants |->
    CASE pj[p] = "none" -> "working"
      [] pj[p] = "Committed" -> "moved"
      [] pj[p] = "Aborted" -> "undone"
      [] OTHER -> "ready"]

Promise == INSTANCE AtomicCommitment
  WITH decision <- AbstractDecision, part <- AbstractPart,
       reported <- cj.state \in {"Committed", "Aborted"}

ImplementsAtomicCommitment == Promise!Spec

-----------------------------------------------------------------------------
(* Liveness, under FairSpec.                                               *)

(***************************************************************************)
(* A commit decision is carried out everywhere and the payer is told, in   *)
(* spite of lost answers, failed handlers and restarts.                    *)
(***************************************************************************)
CommitCompletes ==
  cj.state = "CommitDecided" ~>
    /\ cj.state = "Committed" /\ pay.status = "settled"
    /\ \A p \in Participants : pj[p] = "Committed"

(***************************************************************************)
(* An abort decision reaches every participant, also those that never      *)
(* prepared.                                                               *)
(***************************************************************************)
AbortCompletes ==
  cj.state = "AbortDecided" ~>
    cj.state = "Aborted" /\ \A p \in Participants : pj[p] = "Aborted"

(***************************************************************************)
(* "A failed coordinator must not lock funds permanently": a prepared      *)
(* participant learns the outcome of a payment that expires.               *)
(***************************************************************************)
PreparedResolves ==
  \A p \in Participants : pj[p] = "Prepared" ~> pj[p] \in {"Committed", "Aborted"}

-----------------------------------------------------------------------------
(* What documents say and the code does not do.                            *)

(***************************************************************************)
(* "committing means the durable decision is retrying" (api.rs): a payment *)
(* shown as committing does not belong to a finished abort.                *)
(***************************************************************************)
CommittingIsRetried == cj.state = "Aborted" => pay.status # "committing"
=============================================================================
