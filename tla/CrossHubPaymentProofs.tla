----------------------- MODULE CrossHubPaymentProofs -----------------------
(***************************************************************************)
(* What holds of CrossHubPayment for every set of participants, every      *)
(* number of signers and any number of crashes and faults.                 *)
(***************************************************************************)
EXTENDS CrossHubPayment, TLAPS

-----------------------------------------------------------------------------
(* What the operators of the model return.                                 *)

(***************************************************************************)
(* Releasing, reserving, applying and expiring a reservation (state.rs)    *)
(* turn a ledger view into a ledger view.                                  *)
(***************************************************************************)
LEMMA LedgerTypes ==
  ASSUME NEW l \in Ledgers
  PROVE  /\ Release(l) \in Ledgers /\ Reserve(l) \in Ledgers /\ Apply(l) \in Ledgers
         /\ [l EXCEPT !.held = FALSE] \in Ledgers
<1>1. Release(l) \in Ledgers
  BY DEF Ledgers, Release
<1>2. Reserve(l) \in Ledgers
  BY DEF Ledgers, Reserve
<1>3. Apply(l) \in Ledgers
  <2>1. CASE l.applied
    BY <2>1 DEF Ledgers, Apply
  <2>2. CASE ~l.applied
    <3>1. l.moved + 1 \in Nat
      BY DEF Ledgers
    <3> QED BY <2>2, <3>1 DEF Ledgers, Apply
  <2> QED BY <2>1, <2>2
<1>4. [l EXCEPT !.held = FALSE] \in Ledgers
  BY DEF Ledgers
<1> QED BY <1>1, <1>2, <1>3, <1>4

(***************************************************************************)
(* Every value the transaction lock's holder is given is a handler state.  *)
(***************************************************************************)
LEMMA OpTypes ==
  /\ Idle \in Ops /\ Idle.kind = "idle"
  /\ \A kind \in Kinds, targets \in SUBSET Participants :
       /\ Running(kind, targets) \in Ops
       /\ Running(kind, targets).kind = kind
       /\ Running(kind, targets).left = targets
BY DEF Ops, Kinds, Idle, Running

(***************************************************************************)
(* A payment that changes its status only, to one that a fully signed      *)
(* payment may have or from one that it may not have, stays well-formed.   *)
(***************************************************************************)
LEMMA StatusTypes ==
  ASSUME NEW payment \in Payments, NEW status \in Statuses
  PROVE  /\ [payment EXCEPT !.status = status] \in Payments
         /\ [payment EXCEPT !.status = status].status = status
         /\ [payment EXCEPT !.status = status].sigs = payment.sigs
BY DEF Payments, Statuses

(***************************************************************************)
(* An append that changes the state of a record leaves the rest of it.     *)
(***************************************************************************)
LEMMA StateTypes ==
  ASSUME NEW r \in Records, NEW s \in CoordinatorStates
  PROVE  /\ [r EXCEPT !.state = s] \in Records
         /\ [r EXCEPT !.state = s].state = s
         /\ [r EXCEPT !.state = s].image = r.image
         /\ [r EXCEPT !.state = s].prepared = r.prepared
         /\ [r EXCEPT !.state = s].committed = r.committed
         /\ [r EXCEPT !.state = s].aborted = r.aborted
BY DEF Records

(***************************************************************************)
(* fail_payment leaves a well-formed session and ledger, whatever the      *)
(* status it finds.                                                        *)
(***************************************************************************)
LEMMA FailPaymentTypes ==
  TypeOK /\ SignatureInv /\ FailPayment =>
    pay' \in Payments /\ FullySigned(pay') /\ ledger' \in [Hubs -> Ledgers]
<1> SUFFICES ASSUME TypeOK, SignatureInv, FailPayment
             PROVE  pay' \in Payments /\ FullySigned(pay') /\ ledger' \in [Hubs -> Ledgers]
  OBVIOUS
<1>1. pay' \in Payments /\ FullySigned(pay')
  BY DEF TypeOK, Payments, Statuses, SignatureInv, FullySigned, FailPayment, Failable
<1>2. ledger' \in [Hubs -> Ledgers]
  <2> DEFINE l == [ledger[Coordinator] EXCEPT !.held = FALSE]
  <2>1. ledger \in [Hubs -> Ledgers] /\ ledger[Coordinator] \in Ledgers
    BY DEF TypeOK, Hubs
  <2>2. l \in Ledgers
    BY <2>1 DEF Ledgers
  <2>3. ledger' = ledger \/ ledger' = [ledger EXCEPT ![Coordinator] = l]
    BY DEF FailPayment
  <2> HIDE DEF l
  <2> QED BY <2>1, <2>2, <2>3
<1> QED BY <1>1, <1>2

-----------------------------------------------------------------------------
(* Types.                                                                  *)

(***************************************************************************)
(* No step leaves the types, and a session or image with every signature   *)
(* never has a status in which it could be failed.                         *)
(***************************************************************************)
LEMMA TypeStep == TypeOK /\ SignatureInv /\ [Next]_vars => TypeOK' /\ SignatureInv'
<1> SUFFICES ASSUME TypeOK, SignatureInv, [Next]_vars
             PROVE  TypeOK' /\ SignatureInv'
  OBVIOUS
<1> USE DEF disk, journals, memory, network, counters
<1>1. CASE AddSignature
  <2>1. pay' \in Payments /\ FullySigned(pay')
    BY <1>1, SignersAssumption
    DEF TypeOK, Payments, Statuses, AddSignature, SignatureInv, FullySigned
  <2> QED BY <1>1, <2>1 DEF AddSignature, TypeOK, SignatureInv, FullySigned
<1>2. CASE ExpirePayment
  <2>1. pay' \in Payments /\ FullySigned(pay')
    BY <1>2 DEF TypeOK, Payments, Statuses, ExpirePayment, SignatureInv, FullySigned
  <2>2. ledger' \in [Hubs -> Ledgers]
    BY <1>2, LedgerTypes DEF TypeOK, ExpirePayment
  <2> QED BY <1>2, <2>1, <2>2 DEF ExpirePayment, TypeOK, SignatureInv, FullySigned
<1>3. CASE EvictSession
  <2>1. pay' \in Payments /\ FullySigned(pay')
    BY <1>3, SignersAssumption DEF Payments, Statuses, EvictSession, NoPayment, FullySigned
  <2> QED BY <1>3, <2>1 DEF EvictSession, TypeOK, SignatureInv, FullySigned
<1>4. CASE FailUnjournaled
  BY <1>4, FailPaymentTypes DEF FailUnjournaled, TypeOK, SignatureInv, FullySigned
<1>5. CASE TimePasses
  BY <1>5 DEF TimePasses, TypeOK, SignatureInv, FullySigned
<1>6. CASE PrepareBegin
  BY <1>6, OpTypes DEF PrepareBegin, Kinds, TypeOK, SignatureInv, FullySigned
<1>7. CASE PrepareRefused
  BY <1>7, FailPaymentTypes DEF PrepareRefused, TypeOK, SignatureInv, FullySigned
<1>8. CASE JournalPreparing
  <2>1. PICK image \in CandidateImages :
          cj' = [NoRecord EXCEPT !.state = "Preparing", !.image = image]
    BY <1>8 DEF JournalPreparing
  <2>2. image \in Payments /\ FullySigned(image)
    BY <2>1, SignersAssumption DEF CandidateImages, TypeOK, FullySigned, Payments
  <2>3. cj' \in Records /\ cj'.image = image
    BY <2>1, <2>2 DEF NoRecord, Records, CoordinatorStates
  <2> QED
    BY <1>8, <2>2, <2>3, OpTypes DEF JournalPreparing, Kinds, TypeOK, SignatureInv, FullySigned
<1>9. ASSUME NEW p \in Participants, Contact(p) PROVE TypeOK' /\ SignatureInv'
  <2>1. [phase |-> op.kind, to |-> p,
         sigs |-> IF op.kind = "commit" THEN pay.sigs ELSE 0] \in Requests
    BY <1>9, SignersAssumption DEF Contact, TypeOK, Requests, Payments
  <2>2. op' \in Ops
    BY <1>9 DEF Contact, TypeOK, Ops
  <2> QED BY <1>9, <2>1, <2>2 DEF Contact, TypeOK, SignatureInv, FullySigned
<1>10. ASSUME NEW p \in Participants, PrepareAcknowledged(p) PROVE TypeOK' /\ SignatureInv'
  <2>1. cj' \in Records /\ cj'.image = cj.image
    BY <1>10 DEF PrepareAcknowledged, TypeOK, Records
  <2>2. op' \in Ops
    BY <1>10 DEF PrepareAcknowledged, TypeOK, Ops
  <2> QED BY <1>10, <2>1, <2>2 DEF PrepareAcknowledged, TypeOK, SignatureInv, FullySigned
<1>11. ASSUME NEW p \in Participants, PrepareFailed(p) PROVE TypeOK' /\ SignatureInv'
  <2>1. cj' \in Records /\ cj'.image = cj.image
    BY <1>11, StateTypes DEF PrepareFailed, CoordinatorStates, AbortSide, TypeOK
  <2> QED BY <1>11, <2>1, OpTypes DEF PrepareFailed, Kinds, TypeOK, SignatureInv, FullySigned
<1>12. CASE PrepareFinish
  <2>1. cj' \in Records /\ cj'.image = cj.image
    BY <1>12, StateTypes DEF PrepareFinish, CoordinatorStates, TypeOK
  <2>2. giveUps' \in Nat
    BY <1>12 DEF PrepareFinish, TypeOK
  <2>3. failing' \in BOOLEAN
    BY <1>12, Zenon DEF PrepareFinish, TypeOK
  <2> QED BY <1>12, <2>1, <2>2, <2>3, OpTypes DEF PrepareFinish, TypeOK, SignatureInv, FullySigned
<1>13. CASE FailAfterPrepare
  BY <1>13, FailPaymentTypes DEF FailAfterPrepare, TypeOK, SignatureInv, FullySigned
<1>14. CASE CommitDecide
  <2>1. cj' \in Records /\ cj'.image = pay
    BY <1>14 DEF CommitDecide, TypeOK, Records, CoordinatorStates, CommitSide
  <2> QED BY <1>14, <2>1, OpTypes DEF CommitDecide, Kinds, TypeOK, SignatureInv, FullySigned
<1>15. CASE CommitResume
  BY <1>15, OpTypes DEF CommitResume, Kinds, TypeOK, SignatureInv, FullySigned
<1>16. CASE ApplyLocal
  <2>1. ledger' \in [Hubs -> Ledgers]
    BY <1>16, LedgerTypes DEF ApplyLocal, TypeOK
  <2>2. op' \in Ops
    BY <1>16, OpTypes DEF ApplyLocal, TypeOK, Kinds
  <2> QED BY <1>16, <2>1, <2>2 DEF ApplyLocal, TypeOK, SignatureInv, FullySigned
<1>17. ASSUME NEW p \in Participants, CommitAcknowledged(p) PROVE TypeOK' /\ SignatureInv'
  <2>1. cj' \in Records /\ cj'.image = cj.image
    BY <1>17 DEF CommitAcknowledged, TypeOK, Records
  <2>2. op' \in Ops
    BY <1>17 DEF CommitAcknowledged, TypeOK, Ops
  <2> QED BY <1>17, <2>1, <2>2 DEF CommitAcknowledged, TypeOK, SignatureInv, FullySigned
<1>18. ASSUME NEW p \in Participants, Unanswered(p) PROVE TypeOK' /\ SignatureInv'
  <2>1. op' \in Ops
    BY <1>18 DEF Unanswered, TypeOK, Ops
  <2> QED BY <1>18, <2>1 DEF Unanswered, TypeOK, SignatureInv, FullySigned
<1>19. CASE CommitPending
  <2>1. pay' \in Payments /\ FullySigned(pay')
    BY <1>19, StatusTypes
    DEF CommitPending, Statuses, TypeOK, SignatureInv, FullySigned
  <2> QED BY <1>19, <2>1, OpTypes DEF CommitPending, TypeOK, SignatureInv, FullySigned
<1>20. CASE CommitFinish
  <2>1. cj' \in Records /\ cj'.image = cj.image
    BY <1>20, StateTypes DEF CommitFinish, CoordinatorStates, CommitSide, TypeOK
  <2> QED BY <1>20, <2>1, OpTypes DEF CommitFinish, Kinds, TypeOK, SignatureInv, FullySigned
<1>21. CASE MarkSettled
  <2>1. pay' \in Payments /\ FullySigned(pay')
    BY <1>21, StatusTypes
    DEF MarkSettled, Settled, Statuses, TypeOK, SignatureInv, FullySigned
  <2> QED BY <1>21, <2>1, OpTypes DEF MarkSettled, TypeOK, SignatureInv, FullySigned
<1>22. CASE Reconcile
  <2>1. pay' \in Payments /\ FullySigned(pay')
    BY <1>22, StatusTypes
    DEF Reconcile, Settled, Statuses, TypeOK, SignatureInv, FullySigned
  <2>2. ledger' \in [Hubs -> Ledgers]
    BY <1>22, LedgerTypes DEF Reconcile, TypeOK
  <2> QED BY <1>22, <2>1, <2>2 DEF Reconcile, TypeOK, SignatureInv, FullySigned
<1>23. CASE AbortOrigin
  <2>1. cj' \in Records /\ cj'.image = cj.image
    BY <1>23, StateTypes DEF AbortOrigin, CoordinatorStates, AbortSide, TypeOK
  <2> QED BY <1>23, <2>1, OpTypes DEF AbortOrigin, Kinds, TypeOK, SignatureInv, FullySigned
<1>24. ASSUME NEW p \in Participants, AbortAcknowledged(p) PROVE TypeOK' /\ SignatureInv'
  <2>1. cj' \in Records /\ cj'.image = cj.image
    BY <1>24 DEF AbortAcknowledged, TypeOK, Records
  <2>2. op' \in Ops
    BY <1>24 DEF AbortAcknowledged, TypeOK, Ops
  <2> QED BY <1>24, <2>1, <2>2 DEF AbortAcknowledged, TypeOK, SignatureInv, FullySigned
<1>25. CASE AbortFinish
  <2>1. cj' \in Records /\ cj'.image = cj.image
    <3>1. cj' = cj \/ cj' = [cj EXCEPT !.state = "Aborted"]
      BY <1>25 DEF AbortFinish
    <3> QED BY <3>1 DEF Records, CoordinatorStates, AbortSide, TypeOK
  <2>2. giveUps' \in Nat
    BY <1>25 DEF AbortFinish, TypeOK
  <2> QED
    BY <1>25, <2>1, <2>2, OpTypes, FailPaymentTypes
    DEF AbortFinish, TypeOK, SignatureInv, FullySigned
<1>26. CASE GiveUp
  BY <1>26, OpTypes DEF GiveUp, TypeOK, SignatureInv, FullySigned
<1>27. ASSUME NEW p \in Participants, ParticipantStep(p) PROVE TypeOK' /\ SignatureInv'
  <2>1. pj' \in [Participants -> ParticipantStates]
    BY <1>27 DEF ParticipantStep, HandlePrepare, HandlePrepareAgain, PrepareDiskFault,
      RecordCommitDecision, ApplyParticipant, RecordCommitted, HandleAbort,
      AbortDiskFault, TypeOK, ParticipantStates, CommitSide
  <2>2. ledger' = ledger \/ \E l \in Ledgers : ledger' = [ledger EXCEPT ![p] = l]
    <3>1. ledger[p] \in Ledgers
      BY DEF TypeOK, Hubs
    <3> QED
      BY <1>27, <3>1, LedgerTypes DEF ParticipantStep, HandlePrepare, HandlePrepareAgain,
        PrepareDiskFault, RecordCommitDecision, ApplyParticipant, RecordCommitted,
        HandleAbort, AbortDiskFault
  <2>3. acks' \in SUBSET Acks
    BY <1>27 DEF ParticipantStep, HandlePrepare, HandlePrepareAgain, PrepareDiskFault,
      RecordCommitDecision, ApplyParticipant, RecordCommitted, HandleAbort,
      AbortDiskFault, Acknowledge, TypeOK, Acks, ParticipantStates, CommitSide
  <2>4. crashes' \in Nat /\ giveUps' \in Nat /\ diskFaults' \in Nat
    BY <1>27 DEF ParticipantStep, HandlePrepare, HandlePrepareAgain, PrepareDiskFault,
      RecordCommitDecision, ApplyParticipant, RecordCommitted, HandleAbort,
      AbortDiskFault, TypeOK
  <2>5. UNCHANGED <<cj, snap, paySnap, up, pay, op, failing, reqs, expired>>
    BY <1>27 DEF ParticipantStep, HandlePrepare, HandlePrepareAgain, PrepareDiskFault,
      RecordCommitDecision, ApplyParticipant, RecordCommitted, HandleAbort, AbortDiskFault
  <2> QED BY <2>1, <2>2, <2>3, <2>4, <2>5 DEF TypeOK, Hubs, SignatureInv, FullySigned
<1>28. ASSUME NEW h \in Hubs, Checkpoint(h) PROVE TypeOK' /\ SignatureInv'
  <2>1. snap' \in [Hubs -> Ledgers]
    BY <1>28 DEF Checkpoint, TypeOK, Ledgers
  <2>2. paySnap' \in Payments /\ FullySigned(paySnap')
    BY <1>28, SignersAssumption
    DEF Checkpoint, NoPayment, Payments, Statuses, TypeOK, SignatureInv, FullySigned
  <2> QED BY <1>28, <2>1, <2>2 DEF Checkpoint, TypeOK, SignatureInv, FullySigned
<1>29. ASSUME NEW h \in Hubs, Crash(h) PROVE TypeOK' /\ SignatureInv'
  <2>1. ledger' \in [Hubs -> Ledgers]
    BY <1>29 DEF Crash, FreshLedger, Ledgers, TypeOK
  <2>2. pay' \in Payments /\ FullySigned(pay')
    BY <1>29, SignersAssumption
    DEF Crash, NoPayment, Payments, Statuses, TypeOK, SignatureInv, FullySigned
  <2>3. failing' \in BOOLEAN /\ op' \in Ops
    BY <1>29, OpTypes DEF Crash, TypeOK
  <2> QED BY <1>29, <2>1, <2>2, <2>3 DEF Crash, TypeOK, SignatureInv, FullySigned
<1>30. ASSUME NEW h \in Hubs, Restart(h) PROVE TypeOK' /\ SignatureInv'
  <2>1. ledger' \in [Hubs -> Ledgers]
    BY <1>30, LedgerTypes DEF Restart, RecoveredLedger, TypeOK
  <2>2. pay' \in Payments /\ FullySigned(pay')
    BY <1>30 DEF Restart, RecoveredPayment, Failable, AbortSide, Payments, Statuses, Records,
      TypeOK, SignatureInv, FullySigned
  <2> QED BY <1>30, <2>1, <2>2 DEF Restart, TypeOK, SignatureInv, FullySigned
<1>31. CASE UNCHANGED vars
  BY <1>31 DEF vars, TypeOK, SignatureInv, FullySigned
<1> QED
  BY <1>1, <1>2, <1>3, <1>4, <1>5, <1>6, <1>7, <1>8, <1>9, <1>10, <1>11, <1>12, <1>13,
     <1>14, <1>15, <1>16, <1>17, <1>18, <1>19, <1>20, <1>21, <1>22, <1>23, <1>24, <1>25,
     <1>26, <1>27, <1>28, <1>29, <1>30, <1>31
  DEF Next, Session, Preparation, Commitment, Abortion

-----------------------------------------------------------------------------
(* Agreement.                                                              *)

(***************************************************************************)
(* Sessions, the clock, snapshots and restarts touch neither a journal,    *)
(* nor the handler in the lock, nor a message.                             *)
(***************************************************************************)
LEMMA Bystanders ==
  ASSUME \/ Session \/ TimePasses \/ PrepareRefused \/ FailAfterPrepare \/ Reconcile
         \/ \E h \in Hubs : Checkpoint(h) \/ Restart(h)
         \/ UNCHANGED vars
  PROVE  UNCHANGED <<cj, pj, op, reqs, acks>>
BY DEF Session, AddSignature, ExpirePayment, EvictSession, FailUnjournaled, TimePasses,
  PrepareRefused, FailAfterPrepare, Reconcile, Checkpoint, Restart, vars, disk, journals,
  memory, network, counters

Agreement == HandlerInv /\ MessageInv /\ VoteInv

(***************************************************************************)
(* No step breaks what handler, messages and journals say of each other.   *)
(***************************************************************************)
LEMMA AgreementStep == TypeOK /\ Agreement /\ [Next]_vars => Agreement'
<1> SUFFICES ASSUME TypeOK, Agreement, [Next]_vars
             PROVE  Agreement'
  OBVIOUS
<1> USE DEF disk, journals, network, counters
<1>a. HandlerInv /\ MessageInv /\ VoteInv
  BY DEF Agreement
<1>b. cj \in Records /\ op \in Ops
  BY DEF TypeOK
<1>1. CASE UNCHANGED <<cj, pj, op, reqs, acks>>
  BY <1>1 DEF Agreement, HandlerInv, MessageInv, VoteInv
<1>2. CASE PrepareBegin
  <2>1. op'.kind = "begin" /\ UNCHANGED <<cj, pj, reqs, acks>> /\ cj.state = "none"
    BY <1>2, OpTypes DEF PrepareBegin, Kinds
  <2> QED BY <1>a, <2>1 DEF Agreement, HandlerInv, MessageInv, VoteInv, CommitSide
<1>3. CASE JournalPreparing
  <2>1. /\ cj.state = "none" /\ cj'.state = "Preparing"
        /\ cj'.committed = {} /\ cj'.aborted = {}
        /\ op'.kind = "prepare" /\ op'.left = Participants
        /\ UNCHANGED <<pj, reqs, acks>>
    BY <1>3, <1>a, OpTypes DEF JournalPreparing, HandlerInv, NoRecord, Kinds
  <2> QED BY <1>a, <2>1 DEF Agreement, HandlerInv, MessageInv, VoteInv, CommitSide, AbortSide
<1>4. ASSUME NEW p \in Participants, Contact(p) PROVE Agreement'
  <2>1. op'.kind = op.kind /\ op'.left = op.left /\ op'.failed = op.failed
    BY <1>4, <1>b DEF Contact, Ops
  <2>2. UNCHANGED <<cj, pj, acks>>
    BY <1>4 DEF Contact
  <2>3. \A r \in reqs' : r \in reqs \/ (r.phase = op.kind /\ op.kind \in {"prepare", "commit", "abort"})
    BY <1>4 DEF Contact
  <2> QED BY <1>a, <2>1, <2>2, <2>3
          DEF Agreement, HandlerInv, MessageInv, VoteInv, CommitSide, AbortSide
<1>5. ASSUME NEW p \in Participants, PrepareAcknowledged(p) PROVE Agreement'
  <2>1. pj[p] # "none"
    BY <1>5, <1>a DEF PrepareAcknowledged, MessageInv
  <2>2. /\ cj'.state = cj.state /\ cj'.committed = cj.committed /\ cj'.aborted = cj.aborted
        /\ UNCHANGED <<pj, reqs, acks>>
    BY <1>5, <1>b DEF PrepareAcknowledged, Records
  <2>3. op.kind = "prepare" /\ op'.kind = op.kind /\ op'.left = op.left \ {p}
    BY <1>5, <1>b DEF PrepareAcknowledged, Awaits, Ops
  <2> QED BY <1>a, <2>1, <2>2, <2>3 DEF Agreement, HandlerInv, MessageInv, VoteInv
<1>6. ASSUME NEW p \in Participants, PrepareFailed(p) PROVE Agreement'
  <2>1. cj.state = "Preparing"
    BY <1>6, <1>a DEF PrepareFailed, Awaits, HandlerInv
  <2>2. /\ cj'.state = "AbortDecided" /\ cj'.committed = cj.committed /\ cj'.aborted = cj.aborted
        /\ op'.kind = "abort" /\ UNCHANGED <<pj, reqs, acks>>
    BY <1>6, <1>b, OpTypes, StateTypes
    DEF PrepareFailed, Kinds, CoordinatorStates, AbortSide
  <2> QED BY <1>a, <2>1, <2>2
          DEF Agreement, HandlerInv, MessageInv, VoteInv, CommitSide, AbortSide
<1>7. CASE PrepareFinish
  <2>1. cj.state = "Preparing" /\ \A p \in Participants : pj[p] # "none"
    BY <1>7, <1>a DEF PrepareFinish, HandlerInv, VoteInv
  <2>2. /\ cj'.state = "Prepared" /\ cj'.committed = cj.committed /\ cj'.aborted = cj.aborted
        /\ op'.kind = "idle" /\ UNCHANGED <<pj, reqs, acks>>
    BY <1>7, <1>b, OpTypes, StateTypes DEF PrepareFinish, CoordinatorStates
  <2> QED BY <1>a, <2>1, <2>2
          DEF Agreement, HandlerInv, MessageInv, VoteInv, CommitSide, AbortSide
<1>8. CASE CommitDecide
  <2>1. /\ cj.state = "Prepared" /\ cj'.state = "CommitDecided"
        /\ cj'.committed = cj.committed /\ cj'.aborted = cj.aborted
        /\ op'.kind = "apply" /\ UNCHANGED <<pj, reqs, acks>>
    BY <1>8, <1>b, OpTypes DEF CommitDecide, Records, Kinds
  <2> QED BY <1>a, <2>1
          DEF Agreement, HandlerInv, MessageInv, VoteInv, CommitSide, AbortSide
<1>9. CASE CommitResume
  <2>1. cj.state = "CommitDecided" /\ op'.kind = "apply" /\ UNCHANGED <<cj, pj, reqs, acks>>
    BY <1>9, OpTypes DEF CommitResume, Kinds
  <2> QED BY <1>a, <2>1 DEF Agreement, HandlerInv, MessageInv, VoteInv
<1>10. CASE ApplyLocal
  <2>1. cj.state = "CommitDecided" /\ UNCHANGED <<cj, pj, reqs, acks>>
    BY <1>10, <1>a DEF ApplyLocal, HandlerInv
  <2>2. \/ op'.kind = "idle"
        \/ op'.kind = "commit" /\ op'.left = Participants \ cj.committed
    BY <1>10, OpTypes DEF ApplyLocal, Kinds
  <2> QED BY <1>a, <2>1, <2>2 DEF Agreement, HandlerInv, MessageInv, VoteInv
<1>11. ASSUME NEW p \in Participants, CommitAcknowledged(p) PROVE Agreement'
  <2>1. pj[p] = "Committed"
    BY <1>11, <1>a DEF CommitAcknowledged, MessageInv
  <2>2. /\ cj'.state = cj.state /\ cj'.committed = cj.committed \cup {p}
        /\ cj'.aborted = cj.aborted /\ UNCHANGED <<pj, reqs, acks>>
    BY <1>11, <1>b DEF CommitAcknowledged, Records
  <2>3. /\ op.kind = "commit" /\ op'.kind = op.kind
        /\ op'.left = op.left \ {p} /\ op'.failed = op.failed
    BY <1>11, <1>b DEF CommitAcknowledged, Awaits, Ops
  <2> QED BY <1>a, <2>1, <2>2, <2>3 DEF Agreement, HandlerInv, MessageInv, VoteInv
<1>12. ASSUME NEW p \in Participants, Unanswered(p) PROVE Agreement'
  <2>1. op'.kind = op.kind /\ op.kind \in {"commit", "abort"} /\ op'.failed = TRUE
    BY <1>12, <1>b DEF Unanswered, Awaits, Ops
  <2>2. UNCHANGED <<cj, pj, reqs, acks>>
    BY <1>12 DEF Unanswered
  <2> QED BY <1>a, <2>1, <2>2 DEF Agreement, HandlerInv, MessageInv, VoteInv
<1>13. CASE CommitPending
  <2>1. op'.kind = "idle" /\ UNCHANGED <<cj, pj, reqs, acks>>
    BY <1>13, OpTypes DEF CommitPending
  <2> QED BY <1>a, <2>1 DEF Agreement, HandlerInv, MessageInv, VoteInv
<1>14. CASE CommitFinish
  <2>1. cj.state = "CommitDecided" /\ \A p \in Participants : pj[p] = "Committed"
    BY <1>14, <1>a DEF CommitFinish, HandlerInv, VoteInv
  <2>2. /\ cj'.state = "Committed" /\ cj'.committed = cj.committed /\ cj'.aborted = cj.aborted
        /\ op'.kind = "settle" /\ UNCHANGED <<pj, reqs, acks>>
    BY <1>14, <1>b, OpTypes, StateTypes DEF CommitFinish, Kinds, CoordinatorStates, CommitSide
  <2> QED BY <1>a, <2>1, <2>2
          DEF Agreement, HandlerInv, MessageInv, VoteInv, CommitSide, AbortSide
<1>15. CASE MarkSettled
  <2>1. op'.kind = "idle" /\ UNCHANGED <<cj, pj, reqs, acks>>
    BY <1>15, OpTypes DEF MarkSettled
  <2> QED BY <1>a, <2>1 DEF Agreement, HandlerInv, MessageInv, VoteInv
<1>16. CASE AbortOrigin
  <2>1. /\ cj.state \in Abortable /\ cj'.state = "AbortDecided"
        /\ cj'.committed = cj.committed /\ cj'.aborted = cj.aborted
        /\ op'.kind = "abort" /\ UNCHANGED <<pj, reqs, acks>>
    BY <1>16, <1>b, OpTypes, StateTypes
    DEF AbortOrigin, Kinds, CoordinatorStates, AbortSide
  <2> QED BY <1>a, <2>1
          DEF Agreement, HandlerInv, MessageInv, VoteInv, Abortable, CommitSide, AbortSide
<1>17. ASSUME NEW p \in Participants, AbortAcknowledged(p) PROVE Agreement'
  <2>1. pj[p] = "Aborted"
    BY <1>17, <1>a DEF AbortAcknowledged, MessageInv
  <2>2. /\ cj'.state = cj.state /\ cj'.aborted = cj.aborted \cup {p}
        /\ cj'.committed = cj.committed /\ UNCHANGED <<pj, reqs, acks>>
    BY <1>17, <1>b DEF AbortAcknowledged, Records
  <2>3. op.kind = "abort" /\ op'.kind = op.kind
    BY <1>17, <1>b DEF AbortAcknowledged, Awaits, Ops
  <2> QED BY <1>a, <2>1, <2>2, <2>3 DEF Agreement, HandlerInv, MessageInv, VoteInv
<1>18. CASE AbortFinish
  <2>1. cj.state = "AbortDecided" /\ op'.kind = "idle" /\ UNCHANGED <<pj, reqs, acks>>
    BY <1>18, <1>a, OpTypes DEF AbortFinish, HandlerInv
  <2>2. \/ cj' = cj
        \/ /\ cj.aborted = Participants /\ cj'.state = "Aborted"
           /\ cj'.committed = cj.committed /\ cj'.aborted = cj.aborted
    <3>1. cj' = cj \/ (cj.aborted = Participants /\ cj' = [cj EXCEPT !.state = "Aborted"])
      BY <1>18 DEF AbortFinish
    <3> QED BY <3>1, <1>b DEF Records, CoordinatorStates, AbortSide
  <2> QED BY <1>a, <2>1, <2>2
          DEF Agreement, HandlerInv, MessageInv, VoteInv, CommitSide, AbortSide
<1>19. CASE GiveUp
  <2>1. op'.kind = "idle" /\ UNCHANGED <<cj, pj, reqs, acks>>
    BY <1>19, OpTypes DEF GiveUp
  <2> QED BY <1>a, <2>1 DEF Agreement, HandlerInv, MessageInv, VoteInv
<1>20. ASSUME NEW h \in Hubs, Crash(h) PROVE Agreement'
  <2>1. (op' = op \/ op'.kind = "idle") /\ UNCHANGED <<cj, pj, reqs, acks>>
    BY <1>20, OpTypes DEF Crash
  <2> QED BY <1>a, <2>1 DEF Agreement, HandlerInv, MessageInv, VoteInv
<1>21. ASSUME NEW p \in Participants, ParticipantStep(p) PROVE Agreement'
  <2>1. UNCHANGED <<cj, op, reqs>>
    BY <1>21 DEF ParticipantStep, HandlePrepare, HandlePrepareAgain, PrepareDiskFault,
      RecordCommitDecision, ApplyParticipant, RecordCommitted, HandleAbort, AbortDiskFault,
      memory
  <2>2. pj \in [Participants -> ParticipantStates]
    BY DEF TypeOK
  <2>3. CASE HandlePrepare(p) \/ PrepareDiskFault(p)
    <3>1. pj[p] = "none" /\ pj' = [pj EXCEPT ![p] = "Prepared"]
      BY <2>3 DEF HandlePrepare, PrepareDiskFault
    <3>2. \A a \in acks' : a \in acks \/ (a.phase = "prepare" /\ a.from = p)
      BY <2>3 DEF HandlePrepare, PrepareDiskFault, Acknowledge
    <3> QED BY <1>a, <2>1, <2>2, <3>1, <3>2
            DEF Agreement, HandlerInv, MessageInv, VoteInv, CommitSide
  <2>4. CASE HandlePrepareAgain(p)
    <3>1. pj[p] # "none" /\ UNCHANGED pj
      BY <2>4 DEF HandlePrepareAgain
    <3>2. \A a \in acks' : a \in acks \/ (a.phase = "prepare" /\ a.from = p)
      BY <2>4 DEF HandlePrepareAgain, Acknowledge
    <3> QED BY <1>a, <2>1, <3>1, <3>2 DEF Agreement, HandlerInv, MessageInv, VoteInv
  <2>5. CASE RecordCommitDecision(p)
    <3>1. pj[p] = "Prepared" /\ pj' = [pj EXCEPT ![p] = "CommitDecided"] /\ UNCHANGED acks
      BY <2>5 DEF RecordCommitDecision
    <3>2. cj.state \in CommitSide
      BY <2>5, <1>a DEF RecordCommitDecision, CommitReceived, MessageInv
    <3> QED BY <1>a, <2>1, <2>2, <3>1, <3>2
            DEF Agreement, HandlerInv, MessageInv, VoteInv, CommitSide
  <2>6. CASE ApplyParticipant(p)
    BY <1>a, <2>1, <2>6 DEF ApplyParticipant, Agreement, HandlerInv, MessageInv, VoteInv
  <2>7. CASE RecordCommitted(p)
    <3>1. pj[p] = "CommitDecided" /\ pj' = [pj EXCEPT ![p] = "Committed"]
      BY <2>7 DEF RecordCommitted
    <3>2. \A a \in acks' : a \in acks \/ (a.phase = "commit" /\ a.from = p)
      BY <2>7 DEF RecordCommitted, Acknowledge
    <3> QED BY <1>a, <2>1, <2>2, <3>1, <3>2
            DEF Agreement, HandlerInv, MessageInv, VoteInv, CommitSide
  <2>8. CASE HandleAbort(p) \/ AbortDiskFault(p)
    <3>1. pj[p] \notin CommitSide /\ pj' = [pj EXCEPT ![p] = "Aborted"]
      BY <2>8 DEF HandleAbort, AbortDiskFault, CommitSide
    <3>2. \A a \in acks' : a \in acks \/ (a.phase = "abort" /\ a.from = p)
      BY <2>8 DEF HandleAbort, AbortDiskFault, Acknowledge
    <3>3. cj.state \in AbortSide
      BY <2>8, <1>a DEF HandleAbort, AbortDiskFault, Received, MessageInv
    <3> QED BY <1>a, <2>1, <2>2, <3>1, <3>2, <3>3
            DEF Agreement, HandlerInv, MessageInv, VoteInv, CommitSide, AbortSide
  <2> QED BY <1>21, <2>3, <2>4, <2>5, <2>6, <2>7, <2>8 DEF ParticipantStep
<1> QED
  BY Bystanders, <1>1, <1>2, <1>3, <1>4, <1>5, <1>6, <1>7, <1>8, <1>9, <1>10, <1>11, <1>12,
     <1>13, <1>14, <1>15, <1>16, <1>17, <1>18, <1>19, <1>20, <1>21
  DEF Next, Preparation, Commitment, Abortion

-----------------------------------------------------------------------------
(* Recovery images and settled sessions.                                   *)

(***************************************************************************)
(* A record is empty before the first append; its image is never terminal, *)
(* and complete from the decision on; "settled" needs the final record.    *)
(***************************************************************************)
LEMMA ImageStep ==
  TypeOK /\ SignatureInv /\ HandlerInv /\ ImageInv /\ [Next]_vars => ImageInv'
<1> SUFFICES ASSUME TypeOK, SignatureInv, HandlerInv, ImageInv, [Next]_vars
             PROVE  ImageInv'
  OBVIOUS
<1> USE DEF disk, journals
<1>a. cj \in Records /\ pay \in Payments /\ paySnap \in Payments
  BY DEF TypeOK
<1>1. CASE UNCHANGED <<cj, pay, paySnap>>
  BY <1>1 DEF ImageInv
<1>2. ASSUME UNCHANGED <<cj, paySnap>>, pay'.status # "settled" PROVE ImageInv'
  BY <1>2 DEF ImageInv
<1>3. CASE AddSignature \/ ExpirePayment \/ EvictSession
  <2>1. pay'.status # "settled"
    BY <1>3, <1>a DEF AddSignature, ExpirePayment, EvictSession, NoPayment, Payments
  <2> QED BY <1>2, <1>3, <2>1 DEF AddSignature, ExpirePayment, EvictSession
<1>4. CASE FailUnjournaled \/ PrepareRefused \/ FailAfterPrepare
  <2>1. pay' = pay \/ pay'.status # "settled"
    BY <1>4, <1>a DEF FailUnjournaled, PrepareRefused, FailAfterPrepare, FailPayment, Payments
  <2> QED BY <1>1, <1>2, <1>4, <2>1 DEF FailUnjournaled, PrepareRefused, FailAfterPrepare
<1>5. CASE TimePasses \/ PrepareBegin \/ CommitResume \/ ApplyLocal \/ GiveUp
        \/ \E p \in Participants : Contact(p) \/ Unanswered(p) \/ ParticipantStep(p)
  BY <1>1, <1>5 DEF TimePasses, PrepareBegin, CommitResume, ApplyLocal, GiveUp, Contact,
    Unanswered, ParticipantStep, HandlePrepare, HandlePrepareAgain, PrepareDiskFault,
    RecordCommitDecision, ApplyParticipant, RecordCommitted, HandleAbort, AbortDiskFault,
    memory
<1>6. CASE JournalPreparing
  <2>1. PICK image \in CandidateImages :
          cj' = [NoRecord EXCEPT !.state = "Preparing", !.image = image]
    BY <1>6 DEF JournalPreparing
  <2>2. cj'.state = "Preparing" /\ cj'.image = image /\ cj.state = "none"
    BY <1>6, <2>1 DEF JournalPreparing, HandlerInv, NoRecord
  <2>3. image.status \in {"collecting", "committing"}
    BY <2>1 DEF CandidateImages
  <2> QED BY <1>6, <2>2, <2>3 DEF JournalPreparing, ImageInv, CommitSide
<1>7. ASSUME NEW p \in Participants,
             PrepareAcknowledged(p) \/ CommitAcknowledged(p) \/ AbortAcknowledged(p)
      PROVE  ImageInv'
  <2>1. cj'.state = cj.state /\ cj'.image = cj.image /\ UNCHANGED <<pay, paySnap>>
    BY <1>7, <1>a DEF PrepareAcknowledged, CommitAcknowledged, AbortAcknowledged, Records
  <2>2. cj.state # "none"
    BY <1>7 DEF PrepareAcknowledged, CommitAcknowledged, AbortAcknowledged, Awaits, HandlerInv
  <2> QED BY <2>1, <2>2 DEF ImageInv
<1>8. CASE PrepareFinish \/ AbortOrigin \/ \E p \in Participants : PrepareFailed(p)
  <2>1. /\ cj.state \in {"Preparing", "Prepared", "AbortDecided"}
        /\ cj'.state \in {"Prepared", "AbortDecided"}
        /\ cj'.image = cj.image /\ UNCHANGED <<pay, paySnap>>
    <3>1. /\ cj.state \in {"Preparing", "Prepared", "AbortDecided"}
          /\ \E s \in {"Prepared", "AbortDecided"} : cj' = [cj EXCEPT !.state = s]
      BY <1>8 DEF PrepareFinish, AbortOrigin, PrepareFailed, Awaits, Abortable, HandlerInv
    <3>2. UNCHANGED <<pay, paySnap>>
      BY <1>8 DEF PrepareFinish, AbortOrigin, PrepareFailed
    <3> QED BY <1>a, <3>1, <3>2 DEF Records
  <2> QED BY <2>1 DEF ImageInv, CommitSide
<1>9. CASE CommitDecide
  <2>1. pay.sigs = NumSigners /\ cj.state = "Prepared"
    BY <1>9 DEF CommitDecide, AllSigned
  <2>2. pay = [status |-> "committing", sigs |-> NumSigners]
    BY <1>a, <2>1 DEF SignatureInv, FullySigned, ImageInv, Payments
  <2>3. cj'.state = "CommitDecided" /\ cj'.image = pay /\ UNCHANGED <<pay, paySnap>>
    BY <1>9, <1>a DEF CommitDecide, Records
  <2> QED BY <2>1, <2>2, <2>3 DEF ImageInv, CommitSide
<1>10. CASE CommitPending
  <2>1. pay' = pay \/ pay'.status # "settled"
    BY <1>10, <1>a DEF CommitPending, Payments
  <2> QED BY <1>1, <1>2, <1>10, <2>1 DEF CommitPending
<1>11. CASE CommitFinish
  <2>1. cj.state = "CommitDecided" /\ UNCHANGED <<pay, paySnap>>
    BY <1>11 DEF CommitFinish, HandlerInv
  <2>2. cj'.state = "Committed" /\ cj'.image = cj.image
    BY <1>11, <1>a, StateTypes DEF CommitFinish, CoordinatorStates, CommitSide
  <2> QED BY <2>1, <2>2 DEF ImageInv, CommitSide
<1>12. CASE MarkSettled \/ Reconcile
  <2>1. cj.state = "Committed" /\ UNCHANGED <<cj, paySnap>>
    BY <1>12 DEF MarkSettled, Reconcile, HandlerInv
  <2> QED BY <2>1 DEF ImageInv
<1>13. CASE AbortFinish
  <2>1. cj.state = "AbortDecided" /\ UNCHANGED paySnap
    BY <1>13 DEF AbortFinish, HandlerInv
  <2>2. pay'.status # "settled"
    BY <1>13, <1>a, <2>1 DEF AbortFinish, FailPayment, ImageInv, Payments
  <2>3. cj' = cj \/ cj' = [cj EXCEPT !.state = "Aborted"]
    BY <1>13 DEF AbortFinish
  <2>4. cj'.state \in AbortSide /\ cj'.image = cj.image
    BY <1>a, <2>1, <2>3 DEF Records, AbortSide
  <2> QED BY <2>1, <2>2, <2>4 DEF ImageInv, CommitSide, AbortSide
<1>14. ASSUME NEW h \in Hubs, Checkpoint(h) PROVE ImageInv'
  <2>1. UNCHANGED <<cj, pay>>
    BY <1>14 DEF Checkpoint, memory
  <2>2. paySnap' \in {paySnap, pay, NoPayment}
    BY <1>14 DEF Checkpoint
  <2> QED BY <2>1, <2>2 DEF ImageInv, NoPayment
<1>15. ASSUME NEW h \in Hubs, Crash(h) PROVE ImageInv'
  <2>1. UNCHANGED <<cj, paySnap>> /\ pay' \in {pay, NoPayment}
    BY <1>15 DEF Crash
  <2> QED BY <2>1 DEF ImageInv, NoPayment
<1>16. ASSUME NEW h \in Hubs, Restart(h) PROVE ImageInv'
  <2>1. UNCHANGED <<cj, paySnap>> /\ (pay' = RecoveredPayment \/ pay' = pay)
    BY <1>16 DEF Restart
  <2>2. RecoveredPayment.status = "settled" => cj.state = "Committed"
    BY <1>a DEF RecoveredPayment, ImageInv, CommitSide, AbortSide, Records, Payments
  <2> QED BY <2>1, <2>2 DEF ImageInv
<1> QED
  BY <1>1, <1>3, <1>4, <1>5, <1>6, <1>7, <1>8, <1>9, <1>10, <1>11, <1>12, <1>13, <1>14, <1>15,
     <1>16
  DEF Next, Session, Preparation, Commitment, Abortion, vars, memory

-----------------------------------------------------------------------------
(* Ledgers.                                                                *)

(***************************************************************************)
(* Releasing, reserving and, after a commit decision, applying keep a      *)
(* ledger view at one application or none.                                 *)
(***************************************************************************)
LEMMA MovedOnceKept ==
  ASSUME NEW h \in Hubs, NEW l \in Ledgers, MovedOnce(h, l)
  PROVE  /\ MovedOnce(h, Release(l)) /\ MovedOnce(h, Reserve(l))
         /\ MovedOnce(h, [l EXCEPT !.held = FALSE])
         /\ DurableSide(h) \in CommitSide => MovedOnce(h, Apply(l))
<1>1. MovedOnce(h, Release(l)) /\ MovedOnce(h, [l EXCEPT !.held = FALSE])
  BY DEF MovedOnce, Release, Ledgers
<1>2. MovedOnce(h, Reserve(l))
  BY DEF MovedOnce, Reserve, Ledgers
<1>3. DurableSide(h) \in CommitSide => MovedOnce(h, Apply(l))
  BY DEF MovedOnce, Apply, Ledgers
<1> QED BY <1>1, <1>2, <1>3

(***************************************************************************)
(* A hub that has journaled a commit decision never journals another side. *)
(***************************************************************************)
LEMMA CommitStays ==
  ASSUME TypeOK, HandlerInv, [Next]_vars, NEW h \in Hubs, DurableSide(h) \in CommitSide
  PROVE  DurableSide(h)' \in CommitSide
<1> USE DEF disk, journals
<1>1. ASSUME UNCHANGED <<cj, pj>> PROVE DurableSide(h)' \in CommitSide
  BY <1>1 DEF DurableSide
<1>2. ASSUME UNCHANGED pj, cj.state \in CommitSide => cj'.state \in CommitSide
      PROVE  DurableSide(h)' \in CommitSide
  BY <1>2 DEF DurableSide
<1>3. CASE JournalPreparing \/ PrepareFinish \/ CommitDecide \/ CommitFinish \/ AbortOrigin
        \/ AbortFinish
        \/ \E p \in Participants : PrepareAcknowledged(p) \/ PrepareFailed(p)
             \/ CommitAcknowledged(p) \/ AbortAcknowledged(p)
  <2>1. cj \in Records
    BY DEF TypeOK
  <2>2. UNCHANGED pj
    BY <1>3 DEF JournalPreparing, PrepareFinish, CommitDecide, CommitFinish, AbortOrigin,
      AbortFinish, PrepareAcknowledged, PrepareFailed, CommitAcknowledged, AbortAcknowledged
  <2>3. CASE cj.state \notin CommitSide
    BY <1>2, <2>2, <2>3
  <2>4. CASE CommitFinish
    BY <1>2, <2>1, <2>2, <2>4 DEF CommitFinish, Records, CommitSide
  <2>5. ASSUME NEW p \in Participants,
               PrepareAcknowledged(p) \/ CommitAcknowledged(p) \/ AbortAcknowledged(p)
        PROVE  DurableSide(h)' \in CommitSide
    BY <1>2, <2>1, <2>2, <2>5
    DEF PrepareAcknowledged, CommitAcknowledged, AbortAcknowledged, Records
  <2>6. CASE JournalPreparing \/ PrepareFinish \/ CommitDecide \/ AbortOrigin
          \/ AbortFinish \/ \E p \in Participants : PrepareFailed(p)
    BY <2>3, <2>6 DEF JournalPreparing, PrepareFinish, CommitDecide, AbortOrigin, Abortable,
      AbortFinish, PrepareFailed, Awaits, HandlerInv, CommitSide
  <2> QED BY <1>3, <2>4, <2>5, <2>6
<1>4. ASSUME NEW p \in Participants, ParticipantStep(p) PROVE DurableSide(h)' \in CommitSide
  <2>1. UNCHANGED cj /\ pj \in [Participants -> ParticipantStates]
    BY <1>4 DEF ParticipantStep, HandlePrepare, HandlePrepareAgain, PrepareDiskFault,
      RecordCommitDecision, ApplyParticipant, RecordCommitted, HandleAbort, AbortDiskFault,
      TypeOK
  <2>2. \/ UNCHANGED pj
        \/ \E s \in CommitSide : pj' = [pj EXCEPT ![p] = s]
        \/ pj[p] \notin CommitSide /\ \E s : pj' = [pj EXCEPT ![p] = s]
    BY <1>4 DEF ParticipantStep, HandlePrepare, HandlePrepareAgain, PrepareDiskFault,
      RecordCommitDecision, ApplyParticipant, RecordCommitted, HandleAbort, AbortDiskFault,
      CommitSide
  <2> QED BY <2>1, <2>2 DEF DurableSide, Hubs
<1> QED
  BY Bystanders, <1>1, <1>3, <1>4
  DEF Next, Preparation, Commitment, Abortion, PrepareBegin, CommitResume, ApplyLocal,
    CommitPending, MarkSettled, GiveUp, Contact, Unanswered, Crash

(***************************************************************************)
(* No step moves a balance twice, or before the hub's own disk says so.    *)
(***************************************************************************)
LEMMA LedgerStep ==
  TypeOK /\ HandlerInv /\ ExactlyOnce /\ [Next]_vars => ExactlyOnce'
<1> SUFFICES ASSUME TypeOK, HandlerInv, ExactlyOnce, [Next]_vars, NEW h \in Hubs
             PROVE  MovedOnce(h, ledger[h])' /\ MovedOnce(h, snap[h])'
  BY DEF ExactlyOnce
<1>a. /\ ledger \in [Hubs -> Ledgers] /\ snap \in [Hubs -> Ledgers]
      /\ ledger[h] \in Ledgers /\ snap[h] \in Ledgers
  BY DEF TypeOK
<1>b. MovedOnce(h, ledger[h]) /\ MovedOnce(h, snap[h])
  BY DEF ExactlyOnce
<1>c. ASSUME NEW l, MovedOnce(h, l), ledger'[h] = l PROVE MovedOnce(h, ledger[h])'
  BY <1>c, CommitStays DEF MovedOnce
<1>d. ASSUME NEW l, MovedOnce(h, l), snap'[h] = l PROVE MovedOnce(h, snap[h])'
  BY <1>d, CommitStays DEF MovedOnce
<1>e. ASSUME UNCHANGED snap PROVE MovedOnce(h, snap[h])'
  BY <1>b, <1>d, <1>e
<1> USE DEF disk, memory
<1>1. CASE UNCHANGED <<ledger, snap>>
  BY <1>b, <1>c, <1>d, <1>1
<1>2. CASE ExpirePayment \/ FailUnjournaled \/ PrepareRefused \/ FailAfterPrepare \/ AbortFinish
  <2>1. UNCHANGED snap /\ ledger'[h] \in {ledger[h], [ledger[h] EXCEPT !.held = FALSE]}
    BY <1>2, <1>a DEF ExpirePayment, FailUnjournaled, PrepareRefused, FailAfterPrepare,
      AbortFinish, FailPayment
  <2> QED BY <1>a, <1>b, <1>c, <1>e, <2>1, MovedOnceKept
<1>3. CASE ApplyLocal \/ Reconcile
  <2>1. cj.state \in CommitSide /\ UNCHANGED snap
    BY <1>3 DEF ApplyLocal, Reconcile, HandlerInv, CommitSide
  <2>2. \/ ledger'[h] = ledger[h]
        \/ h = Coordinator /\ ledger'[h] = Apply(ledger[h])
    BY <1>3, <1>a DEF ApplyLocal, Reconcile
  <2> QED BY <1>a, <1>b, <1>c, <1>e, <2>1, <2>2, MovedOnceKept DEF DurableSide
<1>4. ASSUME NEW p \in Participants, ParticipantStep(p)
      PROVE  MovedOnce(h, ledger[h])' /\ MovedOnce(h, snap[h])'
  <2>1. CASE HandlePrepare(p) \/ PrepareDiskFault(p) \/ HandleAbort(p)
    <3>1. UNCHANGED snap /\ ledger'[h] \in {ledger[h], Reserve(ledger[h]), Release(ledger[h])}
      BY <1>a, <2>1 DEF HandlePrepare, PrepareDiskFault, HandleAbort
    <3> QED BY <1>a, <1>b, <1>c, <1>e, <3>1, MovedOnceKept
  <2>2. CASE ApplyParticipant(p)
    <3>1. p # Coordinator /\ UNCHANGED snap /\ pj[p] \in CommitSide
      BY <2>2, CoordinatorAssumption DEF ApplyParticipant, CommitSide
    <3>2. ledger'[h] = ledger[h] \/ (h = p /\ ledger'[h] = Apply(ledger[h]))
      <4>1. ledger' = [ledger EXCEPT ![p] = Apply(ledger[p])]
        BY <2>2 DEF ApplyParticipant
      <4> QED BY <1>a, <4>1
    <3>3. CASE ledger'[h] = ledger[h]
      BY <1>b, <1>c, <1>e, <3>1, <3>3
    <3>4. CASE h = p /\ ledger'[h] = Apply(ledger[h])
      <4>1. DurableSide(h) \in CommitSide
        BY <3>1, <3>4 DEF DurableSide
      <4> QED BY <1>a, <1>b, <1>c, <1>e, <3>1, <3>4, <4>1, MovedOnceKept
    <3> QED BY <3>2, <3>3, <3>4
  <2>3. CASE HandlePrepareAgain(p) \/ RecordCommitDecision(p) \/ RecordCommitted(p)
          \/ AbortDiskFault(p)
    BY <1>1, <2>3 DEF HandlePrepareAgain, RecordCommitDecision, RecordCommitted, AbortDiskFault
  <2> QED BY <1>4, <2>1, <2>2, <2>3 DEF ParticipantStep
<1>5. ASSUME NEW hub \in Hubs, Checkpoint(hub)
      PROVE  MovedOnce(h, ledger[h])' /\ MovedOnce(h, snap[h])'
  <2>1. UNCHANGED ledger
    BY <1>5 DEF Checkpoint
  <2>2. snap'[h] = snap[h] \/ \E held : snap'[h] = [ledger[h] EXCEPT !.held = held]
    BY <1>5, <1>a DEF Checkpoint
  <2>3. \A held : MovedOnce(h, [ledger[h] EXCEPT !.held = held])
    BY <1>a, <1>b DEF MovedOnce, Ledgers
  <2> QED BY <1>b, <1>c, <1>d, <2>1, <2>2, <2>3
<1>6. ASSUME NEW hub \in Hubs, Crash(hub)
      PROVE  MovedOnce(h, ledger[h])' /\ MovedOnce(h, snap[h])'
  <2>1. UNCHANGED snap /\ ledger'[h] \in {ledger[h], FreshLedger}
    BY <1>6, <1>a DEF Crash
  <2> QED BY <1>b, <1>c, <1>e, <2>1 DEF MovedOnce, FreshLedger
<1>7. ASSUME NEW hub \in Hubs, Restart(hub)
      PROVE  MovedOnce(h, ledger[h])' /\ MovedOnce(h, snap[h])'
  <2>1. /\ UNCHANGED snap
        /\ ledger'[h] = ledger[h] \/ ledger'[h] = RecoveredLedger(DurableSide(h), snap[h])
    BY <1>7, <1>a DEF Restart, DurableSide
  <2>2. MovedOnce(h, RecoveredLedger(DurableSide(h), snap[h]))
    BY <1>a, <1>b, MovedOnceKept, LedgerTypes DEF RecoveredLedger
  <2> QED BY <1>b, <1>c, <1>e, <2>1, <2>2
<1>8. CASE AddSignature \/ EvictSession \/ TimePasses \/ PrepareBegin \/ JournalPreparing
        \/ PrepareFinish \/ CommitDecide \/ CommitResume \/ CommitPending \/ CommitFinish
        \/ MarkSettled \/ AbortOrigin \/ GiveUp
        \/ \E p \in Participants : Contact(p) \/ Unanswered(p) \/ PrepareAcknowledged(p)
             \/ PrepareFailed(p) \/ CommitAcknowledged(p) \/ AbortAcknowledged(p)
  BY <1>1, <1>8 DEF AddSignature, EvictSession, TimePasses, PrepareBegin, JournalPreparing,
    PrepareFinish, CommitDecide, CommitResume, CommitPending, CommitFinish, MarkSettled,
    AbortOrigin, GiveUp, Contact, Unanswered, PrepareAcknowledged, PrepareFailed,
    CommitAcknowledged, AbortAcknowledged
<1> QED
  BY <1>1, <1>2, <1>3, <1>4, <1>5, <1>6, <1>7, <1>8
  DEF Next, Session, Preparation, Commitment, Abortion, vars

-----------------------------------------------------------------------------
(* The theorems.                                                           *)

(***************************************************************************)
(* A new payment satisfies the whole inductive invariant.                  *)
(***************************************************************************)
LEMMA InvInit == Init => InductiveInv
<1> SUFFICES ASSUME Init PROVE InductiveInv
  OBVIOUS
<1>1. /\ NoPayment \in Payments /\ NewPayment \in Payments
      /\ FullySigned(NoPayment) /\ FullySigned(NewPayment)
  BY SignersAssumption DEF NoPayment, NewPayment, Payments, Statuses, FullySigned
<1>2. NoRecord \in Records /\ NoRecord.image = NoPayment
  BY <1>1 DEF NoRecord, Records, CoordinatorStates
<1>3. FreshLedger \in Ledgers /\ [FreshLedger EXCEPT !.held = TRUE] \in Ledgers
  BY DEF FreshLedger, Ledgers
<1>4. TypeOK
  BY <1>1, <1>2, <1>3, OpTypes DEF Init, TypeOK, ParticipantStates
<1>5. SignatureInv
  BY <1>1, <1>2 DEF Init, SignatureInv
<1>6. cj.state = "none" /\ cj.committed = {} /\ cj.aborted = {} /\ op.kind = "idle"
  BY OpTypes DEF Init, NoRecord
<1>7. HandlerInv /\ MessageInv /\ VoteInv
  BY <1>6 DEF Init, HandlerInv, MessageInv, VoteInv, CommitSide
<1>8. ImageInv
  BY <1>6 DEF Init, ImageInv, NewPayment, NoPayment, CommitSide
<1>9. ExactlyOnce
  BY DEF Init, ExactlyOnce, MovedOnce, FreshLedger
<1> QED BY <1>4, <1>5, <1>7, <1>8, <1>9 DEF InductiveInv

(***************************************************************************)
(* Every step keeps the whole inductive invariant.                         *)
(***************************************************************************)
LEMMA InvStep == InductiveInv /\ [Next]_vars => InductiveInv'
<1> SUFFICES ASSUME InductiveInv, [Next]_vars PROVE InductiveInv'
  OBVIOUS
<1>1. TypeOK' /\ SignatureInv'
  BY TypeStep DEF InductiveInv
<1>2. HandlerInv' /\ MessageInv' /\ VoteInv'
  BY AgreementStep DEF InductiveInv, Agreement
<1>3. ImageInv'
  BY ImageStep DEF InductiveInv
<1>4. ExactlyOnce'
  BY LedgerStep DEF InductiveInv
<1> QED BY <1>1, <1>2, <1>3, <1>4 DEF InductiveInv

(***************************************************************************)
(* The inductive invariant holds throughout every run of the protocol.     *)
(***************************************************************************)
THEOREM Invariance == Spec => []InductiveInv
BY InvInit, InvStep, PTL DEF Spec

(***************************************************************************)
(* Journal, session, ledgers and messages always have their types: in      *)
(* particular no payment ever counts more signatures than it has signers.  *)
(***************************************************************************)
THEOREM TypeCorrect == Spec => []TypeOK
<1>1. InductiveInv => TypeOK
  BY DEF InductiveInv
<1> QED BY Invariance, <1>1, PTL

(***************************************************************************)
(* No hub is durably on the commit side while the origin or another hub is *)
(* durably on the abort side.                                              *)
(***************************************************************************)
THEOREM NoSplitDecision == Spec => []DecisionAgreement
<1>1. InductiveInv => DecisionAgreement
  BY DEF InductiveInv, VoteInv, DecisionAgreement, CommitSide, AbortSide
<1> QED BY Invariance, <1>1, PTL

(***************************************************************************)
(* A commit decision anywhere means a fully signed image at the origin and *)
(* a durably prepared participant everywhere.                              *)
(***************************************************************************)
THEOREM UnanimousCommit == Spec => []CommitNeedsEveryone
<1>1. InductiveInv => CommitNeedsEveryone
  <2> SUFFICES ASSUME InductiveInv,
                      cj.state \in CommitSide \/ \E p \in Participants : pj[p] \in CommitSide
               PROVE  /\ cj.state \in CommitSide
                      /\ cj.image = [status |-> "committing", sigs |-> NumSigners]
                      /\ \A p \in Participants : pj[p] \in CommitSide \cup {"Prepared"}
    BY DEF CommitNeedsEveryone
  <2>1. cj.state \in CommitSide
    BY DEF InductiveInv, VoteInv
  <2>2. cj.image = [status |-> "committing", sigs |-> NumSigners]
    BY <2>1 DEF InductiveInv, ImageInv
  <2>3. \A p \in Participants : pj[p] \in CommitSide \cup {"Prepared"}
    BY <2>1 DEF InductiveInv, TypeOK, ParticipantStates, VoteInv, CommitSide, AbortSide
  <2> QED BY <2>1, <2>2, <2>3
<1> QED BY Invariance, <1>1, PTL

(***************************************************************************)
(* Whatever is replayed over whatever snapshot, no balance moves twice,    *)
(* and none before the decision is on the hub's own disk.                  *)
(***************************************************************************)
THEOREM AppliedExactlyOnce == Spec => []ExactlyOnce
<1>1. InductiveInv => ExactlyOnce
  BY DEF InductiveInv
<1> QED BY Invariance, <1>1, PTL

(***************************************************************************)
(* recover_local never meets an image that it refuses to restore.          *)
(***************************************************************************)
THEOREM ImagesRestorable == Spec => []ImageRestorable
<1>1. InductiveInv => ImageRestorable
  BY SignersAssumption DEF InductiveInv, ImageInv, ImageRestorable, AllSigned
<1> QED BY Invariance, <1>1, PTL

-----------------------------------------------------------------------------
(* Steps of the journals, and the abstract commitment.                     *)

\* How one append may change the origin's record.
AckStep(p) ==
  /\ cj.state # "none"
  /\ \/ cj' = [cj EXCEPT !.prepared = @ \cup {p}]
     \/ pj[p] = "Committed" /\ cj' = [cj EXCEPT !.committed = @ \cup {p}]
     \/ pj[p] = "Aborted" /\ cj' = [cj EXCEPT !.aborted = @ \cup {p}]

RecordStep ==
  \/ /\ cj = NoRecord
     /\ \E image \in Payments : cj' = [NoRecord EXCEPT !.state = "Preparing", !.image = image]
  \/ cj.state = "Preparing" /\ cj' = [cj EXCEPT !.state = "Prepared"]
  \/ cj.state = "Prepared" /\ cj' = [cj EXCEPT !.state = "CommitDecided", !.image = pay]
  \/ /\ cj.state = "CommitDecided" /\ \A p \in Participants : pj[p] = "Committed"
     /\ cj' = [cj EXCEPT !.state = "Committed"]
  \/ cj.state \in Abortable /\ cj' = [cj EXCEPT !.state = "AbortDecided"]
  \/ /\ cj.state = "AbortDecided" /\ \A p \in Participants : pj[p] = "Aborted"
     /\ cj' = [cj EXCEPT !.state = "Aborted"]

\* How one append may change a participant's journal.
VoteStep(p) ==
  \/ /\ pj[p] = "none" /\ cj.state \notin CommitSide
     /\ pj' = [pj EXCEPT ![p] = "Prepared"]
  \/ /\ pj[p] = "Prepared" /\ cj.state \in CommitSide
     /\ pj' = [pj EXCEPT ![p] = "CommitDecided"]
  \/ /\ pj[p] = "CommitDecided" /\ cj.state \in CommitSide
     /\ pj' = [pj EXCEPT ![p] = "Committed"]
  \/ /\ pj[p] \in {"none", "Prepared", "Aborted"} /\ cj.state \in AbortSide
     /\ pj' = [pj EXCEPT ![p] = "Aborted"]

(***************************************************************************)
(* The states an append of the origin's leads from and to.                 *)
(***************************************************************************)
LEMMA RecordStates ==
  ASSUME cj \in Records, RecordStep
  PROVE  \/ cj.state = "none" /\ cj'.state = "Preparing"
         \/ cj.state = "Preparing" /\ cj'.state = "Prepared"
         \/ cj.state = "Prepared" /\ cj'.state = "CommitDecided"
         \/ /\ cj.state = "CommitDecided" /\ cj'.state = "Committed"
            /\ \A p \in Participants : pj[p] = "Committed"
         \/ cj.state \in Abortable /\ cj'.state = "AbortDecided"
         \/ /\ cj.state = "AbortDecided" /\ cj'.state = "Aborted"
            /\ \A p \in Participants : pj[p] = "Aborted"
<1>1. CASE /\ cj = NoRecord
           /\ \E image \in Payments :
                cj' = [NoRecord EXCEPT !.state = "Preparing", !.image = image]
  BY <1>1 DEF NoRecord
<1>2. CASE cj.state = "Preparing" /\ cj' = [cj EXCEPT !.state = "Prepared"]
  BY <1>2 DEF Records
<1>3. CASE cj.state = "Prepared" /\ cj' = [cj EXCEPT !.state = "CommitDecided", !.image = pay]
  BY <1>3 DEF Records
<1>4. CASE /\ cj.state = "CommitDecided" /\ \A p \in Participants : pj[p] = "Committed"
           /\ cj' = [cj EXCEPT !.state = "Committed"]
  BY <1>4 DEF Records
<1>5. CASE cj.state \in Abortable /\ cj' = [cj EXCEPT !.state = "AbortDecided"]
  BY <1>5 DEF Records
<1>6. CASE /\ cj.state = "AbortDecided" /\ \A p \in Participants : pj[p] = "Aborted"
           /\ cj' = [cj EXCEPT !.state = "Aborted"]
  BY <1>6 DEF Records
<1> QED BY <1>1, <1>2, <1>3, <1>4, <1>5, <1>6 DEF RecordStep

(***************************************************************************)
(* Every step of the program is one append, to one journal, or none.       *)
(***************************************************************************)
LEMMA OneAppend ==
  InductiveInv /\ [Next]_vars =>
    \/ UNCHANGED <<cj, pj>>
    \/ UNCHANGED pj /\ (RecordStep \/ \E p \in Participants : AckStep(p))
    \/ UNCHANGED cj /\ \E p \in Participants : VoteStep(p)
<1> DEFINE Goal == \/ UNCHANGED <<cj, pj>>
                   \/ UNCHANGED pj /\ (RecordStep \/ \E p \in Participants : AckStep(p))
                   \/ UNCHANGED cj /\ \E p \in Participants : VoteStep(p)
<1> SUFFICES ASSUME InductiveInv, [Next]_vars PROVE Goal
  OBVIOUS
<1> USE DEF disk, journals
<1>a. HandlerInv /\ MessageInv /\ VoteInv /\ ImageInv
  BY DEF InductiveInv
<1>1. CASE JournalPreparing
  <2>1. cj = NoRecord /\ UNCHANGED pj
    BY <1>1, <1>a DEF JournalPreparing, HandlerInv, ImageInv
  <2>2. \E image \in Payments : cj' = [NoRecord EXCEPT !.state = "Preparing", !.image = image]
    BY <1>1 DEF JournalPreparing, CandidateImages, InductiveInv, TypeOK
  <2> QED BY <2>1, <2>2 DEF RecordStep
<1>2. ASSUME NEW p \in Participants, PrepareAcknowledged(p) PROVE Goal
  BY <1>2, <1>a DEF PrepareAcknowledged, Awaits, HandlerInv, AckStep
<1>3. ASSUME NEW p \in Participants, PrepareFailed(p) PROVE Goal
  BY <1>3, <1>a DEF PrepareFailed, Awaits, HandlerInv, RecordStep, Abortable
<1>4. CASE PrepareFinish
  BY <1>4, <1>a DEF PrepareFinish, HandlerInv, RecordStep
<1>5. CASE CommitDecide
  BY <1>5 DEF CommitDecide, RecordStep
<1>6. ASSUME NEW p \in Participants, CommitAcknowledged(p) PROVE Goal
  BY <1>6, <1>a DEF CommitAcknowledged, Awaits, HandlerInv, MessageInv, AckStep
<1>7. CASE CommitFinish
  BY <1>7, <1>a DEF CommitFinish, HandlerInv, VoteInv, RecordStep
<1>8. CASE AbortOrigin
  BY <1>8 DEF AbortOrigin, RecordStep
<1>9. ASSUME NEW p \in Participants, AbortAcknowledged(p) PROVE Goal
  BY <1>9, <1>a DEF AbortAcknowledged, Awaits, HandlerInv, MessageInv, AckStep
<1>10. CASE AbortFinish
  BY <1>10, <1>a DEF AbortFinish, HandlerInv, VoteInv, RecordStep
<1>11. ASSUME NEW p \in Participants, ParticipantStep(p) PROVE Goal
  <2>1. CASE HandlePrepare(p) \/ PrepareDiskFault(p)
    BY <1>a, <2>1 DEF HandlePrepare, PrepareDiskFault, VoteInv, VoteStep
  <2>2. CASE HandlePrepareAgain(p) \/ ApplyParticipant(p)
    BY <2>2 DEF HandlePrepareAgain, ApplyParticipant
  <2>3. CASE RecordCommitDecision(p)
    BY <1>a, <2>3 DEF RecordCommitDecision, CommitReceived, MessageInv, VoteStep
  <2>4. CASE RecordCommitted(p)
    BY <1>a, <2>4 DEF RecordCommitted, VoteInv, VoteStep, CommitSide
  <2>5. CASE HandleAbort(p) \/ AbortDiskFault(p)
    <3>1. UNCHANGED cj /\ pj' = [pj EXCEPT ![p] = "Aborted"] /\ pj[p] \notin CommitSide
      BY <2>5 DEF HandleAbort, AbortDiskFault, CommitSide
    <3>2. cj.state \in AbortSide
      BY <2>5, <1>a DEF HandleAbort, AbortDiskFault, Received, MessageInv
    <3>3. pj[p] \in {"none", "Prepared", "Aborted"}
      BY <3>1 DEF InductiveInv, TypeOK, ParticipantStates
    <3> QED BY <3>1, <3>2, <3>3 DEF VoteStep
  <2> QED BY <1>11, <2>1, <2>2, <2>3, <2>4, <2>5 DEF ParticipantStep
<1>12. CASE PrepareBegin \/ CommitResume \/ ApplyLocal \/ CommitPending \/ MarkSettled \/ GiveUp
         \/ (\E p \in Participants : Contact(p) \/ Unanswered(p)) \/ \E h \in Hubs : Crash(h)
  BY <1>12 DEF PrepareBegin, CommitResume, ApplyLocal, CommitPending, MarkSettled, GiveUp,
    Contact, Unanswered, Crash
<1> QED
  BY Bystanders, <1>1, <1>2, <1>3, <1>4, <1>5, <1>6, <1>7, <1>8, <1>9, <1>10, <1>11, <1>12
  DEF Next, Preparation, Commitment, Abortion

(***************************************************************************)
(* Every append asked for is one that validate_journal_transition accepts. *)
(***************************************************************************)
THEOREM JournalDiscipline == Spec => JournalStepsValid
<1>1. InductiveInv /\ [Next]_vars => [JournalAction]_journals
  <2> SUFFICES ASSUME InductiveInv, [Next]_vars, ~UNCHANGED journals
               PROVE  JournalAction
    OBVIOUS
  <2>a. cj \in Records /\ pj \in [Participants -> ParticipantStates]
    BY DEF InductiveInv, TypeOK
  <2>b. \A p \in Participants : pj[p] \in ParticipantSuccessors[pj[p]] \/ pj[p] = "none"
    BY <2>a DEF ParticipantStates, CommitSide, ParticipantSuccessors
  <2>c. \A p \in Participants : ~(p \in cj.committed /\ p \in cj.aborted)
    BY DEF InductiveInv, VoteInv
  <2>1. CASE UNCHANGED pj /\ RecordStep
    <3>1. cj'.state \in CoordinatorSuccessors[cj.state]
      BY <2>1, <2>a, RecordStates DEF Abortable, CoordinatorSuccessors
    <3>2. cj.prepared \subseteq cj'.prepared /\ cj'.committed = cj.committed
          /\ cj'.aborted = cj.aborted
      BY <2>1, <2>a DEF RecordStep, Records, NoRecord
    <3>3. ValidTransition(cj, cj')
      BY <2>a, <2>c, <3>1, <3>2 DEF ValidTransition, Records
    <3> QED BY <2>1, <2>b, <3>3 DEF JournalAction, ParticipantSuccessors
  <2>2. CASE UNCHANGED pj /\ \E p \in Participants : AckStep(p)
    <3>1. PICK p \in Participants : AckStep(p)
      BY <2>2
    <3>2. cj'.state = cj.state /\ cj.state # "none"
      BY <2>a, <3>1 DEF AckStep, Records
    <3>3. cj'.state \in CoordinatorSuccessors[cj.state]
      BY <2>a, <3>2 DEF Records, CoordinatorStates, CommitSide, AbortSide, CoordinatorSuccessors
    <3>4. cj.prepared \subseteq cj'.prepared /\ cj.committed \subseteq cj'.committed
          /\ cj.aborted \subseteq cj'.aborted
      BY <2>a, <3>1 DEF AckStep, Records
    <3>5. \A q \in Participants : ~(q \in cj'.committed /\ q \in cj'.aborted)
      BY <2>a, <2>c, <3>1 DEF AckStep, Records, InductiveInv, VoteInv
    <3>6. cj'.committed \subseteq Participants
      BY <2>a, <3>1 DEF AckStep, Records
    <3>7. ValidTransition(cj, cj')
      BY <3>3, <3>4, <3>5, <3>6 DEF ValidTransition
    <3> QED BY <2>2, <2>b, <3>7 DEF JournalAction, ParticipantSuccessors
  <2>3. CASE UNCHANGED cj /\ \E p \in Participants : VoteStep(p)
    BY <2>3, <2>a, <2>b DEF JournalAction, VoteStep, ParticipantSuccessors, CommitSide, AbortSide
  <2> QED BY OneAppend, <2>1, <2>2, <2>3 DEF journals
<1> QED BY Invariance, <1>1, PTL DEF Spec, JournalStepsValid

(***************************************************************************)
(* The journals implement the abstract commitment: the first record maps   *)
(* to an undecided payment, and every append to a step of the abstraction  *)
(* or to none.                                                             *)
(***************************************************************************)
THEOREM Implementation == Spec => ImplementsAtomicCommitment
<1>1. Init => Promise!Init
  BY DEF Init, Promise!Init, NoRecord, AbstractDecision, AbstractPart, CommitSide, AbortSide
<1>2. InductiveInv /\ [Next]_vars => [Promise!Next]_(Promise!vars)
  <2> SUFFICES ASSUME InductiveInv, [Next]_vars
               PROVE  Promise!Next \/ UNCHANGED Promise!vars
    OBVIOUS
  <2>a. cj \in Records /\ pj \in [Participants -> ParticipantStates] /\ VoteInv
    BY DEF InductiveInv, TypeOK
  <2>1. CASE UNCHANGED <<cj, pj>>
    BY <2>1 DEF Promise!vars, AbstractDecision, AbstractPart
  <2>2. CASE UNCHANGED pj /\ \E p \in Participants : AckStep(p)
    <3>1. cj'.state = cj.state
      BY <2>2, <2>a DEF AckStep, Records
    <3> QED BY <2>2, <3>1 DEF Promise!vars, AbstractDecision, AbstractPart
  <2>3. CASE UNCHANGED pj /\ RecordStep
    <3>1. AbstractPart' = AbstractPart
      BY <2>3 DEF AbstractPart
    <3>2. CASE cj.state \in {"none", "Preparing"} /\ cj'.state \in {"Preparing", "Prepared"}
      BY <3>1, <3>2 DEF Promise!vars, AbstractDecision, CommitSide, AbortSide
    <3>3. CASE cj.state = "Prepared" /\ cj'.state = "CommitDecided"
      <4>1. \A p \in Participants : AbstractPart[p] = "ready"
        BY <2>a, <3>3 DEF VoteInv, AbstractPart, ParticipantStates, CommitSide, AbortSide
      <4> QED BY <3>1, <3>3, <4>1
              DEF Promise!Next, Promise!DecideCommit, AbstractDecision, CommitSide, AbortSide
    <3>4. CASE cj.state \in Abortable /\ cj'.state = "AbortDecided"
      BY <3>1, <3>4 DEF Promise!Next, Promise!DecideAbort, Promise!vars, Abortable,
        AbstractDecision, CommitSide, AbortSide
    <3>5. CASE /\ cj.state = "CommitDecided" /\ cj'.state = "Committed"
               /\ \A p \in Participants : pj[p] = "Committed"
      <4>1. \A p \in Participants : AbstractPart[p] = "moved"
        BY <3>5 DEF AbstractPart
      <4> QED BY <3>1, <3>5, <4>1
              DEF Promise!Next, Promise!Report, AbstractDecision, CommitSide, AbortSide
    <3>6. CASE /\ cj.state = "AbortDecided" /\ cj'.state = "Aborted"
               /\ \A p \in Participants : pj[p] = "Aborted"
      <4>1. \A p \in Participants : AbstractPart[p] = "undone"
        BY <3>6 DEF AbstractPart
      <4> QED BY <3>1, <3>6, <4>1
              DEF Promise!Next, Promise!Report, AbstractDecision, CommitSide, AbortSide
    <3> QED BY <2>a, <2>3, RecordStates, <3>2, <3>3, <3>4, <3>5, <3>6
  <2>4. CASE UNCHANGED cj /\ \E p \in Participants : VoteStep(p)
    <3>1. PICK p \in Participants : VoteStep(p)
      BY <2>4
    <3>2. AbstractDecision' = AbstractDecision
      BY <2>4 DEF AbstractDecision
    <3>3. CASE /\ pj[p] = "none" /\ cj.state \notin CommitSide
               /\ pj' = [pj EXCEPT ![p] = "Prepared"]
      <4>1. AbstractPart[p] = "working" /\ AbstractPart' = [AbstractPart EXCEPT ![p] = "ready"]
        BY <2>a, <3>3 DEF AbstractPart
      <4>2. AbstractDecision # "commit"
        BY <3>3 DEF AbstractDecision
      <4>3. Promise!Ready(p)
        BY <2>4, <3>2, <4>1, <4>2 DEF Promise!Ready
      <4> QED BY <4>3 DEF Promise!Next
    <3>4. CASE /\ pj[p] = "Prepared" /\ cj.state \in CommitSide
               /\ pj' = [pj EXCEPT ![p] = "CommitDecided"]
      <4>1. AbstractPart' = AbstractPart
        BY <2>a, <3>4 DEF AbstractPart
      <4> QED BY <2>4, <3>2, <4>1 DEF Promise!vars
    <3>5. CASE /\ pj[p] = "CommitDecided" /\ cj.state \in CommitSide
               /\ pj' = [pj EXCEPT ![p] = "Committed"]
      <4>1. AbstractPart[p] = "ready" /\ AbstractPart' = [AbstractPart EXCEPT ![p] = "moved"]
        BY <2>a, <3>5 DEF AbstractPart
      <4>2. AbstractDecision = "commit"
        BY <3>5 DEF AbstractDecision
      <4>3. Promise!Move(p)
        BY <2>4, <3>2, <4>1, <4>2 DEF Promise!Move
      <4> QED BY <4>3 DEF Promise!Next
    <3>6. CASE /\ pj[p] \in {"none", "Prepared", "Aborted"} /\ cj.state \in AbortSide
               /\ pj' = [pj EXCEPT ![p] = "Aborted"]
      <4>1. CASE pj[p] = "Aborted"
        <5>1. pj' = pj
          BY <2>a, <3>6, <4>1
        <5> QED BY <2>1, <2>4, <5>1
      <4>2. CASE pj[p] # "Aborted"
        <5>1. /\ AbstractPart[p] \in {"working", "ready"}
              /\ AbstractPart' = [AbstractPart EXCEPT ![p] = "undone"]
          BY <2>a, <3>6, <4>2 DEF AbstractPart
        <5>2. AbstractDecision = "abort"
          BY <3>6 DEF AbstractDecision, CommitSide, AbortSide
        <5>3. Promise!Undo(p)
          BY <2>4, <3>2, <5>1, <5>2 DEF Promise!Undo
        <5> QED BY <5>3 DEF Promise!Next
      <4> QED BY <4>1, <4>2
    <3> QED BY <3>1, <3>3, <3>4, <3>5, <3>6 DEF VoteStep
  <2> QED BY OneAppend, <2>1, <2>2, <2>3, <2>4
<1> QED BY Invariance, <1>1, <1>2, PTL DEF Spec, ImplementsAtomicCommitment, Promise!Spec

-----------------------------------------------------------------------------
(* What the hubs hold, and what they have moved.                           *)

\* Who has seen the commit through has moved its balances.
MovedInv ==
  /\ ~up[Coordinator] => op.kind = "idle"
  /\ up[Coordinator] /\ (op.kind = "commit" \/ cj.state = "Committed") =>
       ledger[Coordinator].applied
  /\ \A p \in Participants : up[p] /\ pj[p] = "Committed" => ledger[p].applied

(***************************************************************************)
(* The origin's session stands for its reservation until the transaction   *)
(* is decided, if it ever got past the prepares; a snapshot taken before   *)
(* the first append restores both.  A decided commit cannot fail.          *)
(***************************************************************************)
OriginHolds ==
  /\ up[Coordinator] /\ pay.status \in {"collecting", "committing"}
       /\ (cj.state \in {"none", "Prepared"} \/ op.kind = "prepare") =>
       CanApply(ledger[Coordinator])
  /\ cj.state = "none" /\ paySnap.status \in {"collecting", "committing"} =>
       CanApply(snap[Coordinator])
  /\ cj.state \in CommitSide =>
       /\ pay.status \in {"none", "committing", "settled"}
       /\ up[Coordinator] => CanApply(ledger[Coordinator])

\* A participant holds what it has prepared, and nothing of an abort.
ParticipantsHold ==
  \A p \in Participants :
    up[p] => /\ pj[p] \in {"Prepared"} \cup CommitSide => CanApply(ledger[p])
             /\ pj[p] = "Aborted" => ~ledger[p].held

(***************************************************************************)
(* Reserving and applying give what their names say; what is applied stays *)
(* applied.                                                                *)
(***************************************************************************)
LEMMA LedgerOperations ==
  ASSUME NEW l \in Ledgers
  PROVE  /\ CanApply(Reserve(l)) /\ Apply(l).applied
         /\ CanApply(l) => CanApply(Reserve(l))
         /\ l.applied => Release(l).applied /\ Reserve(l).applied
                         /\ [l EXCEPT !.held = FALSE].applied
         /\ ~l.applied => ~Release(l).held
BY DEF Ledgers, CanApply, Reserve, Apply, Release

(***************************************************************************)
(* The steps that leave the origin's hub as it is.                         *)
(***************************************************************************)
LEMMA OriginBystanders ==
  ASSUME TypeOK,
         \/ TimePasses \/ UNCHANGED vars
         \/ \E p \in Participants : Contact(p) \/ Unanswered(p) \/ ParticipantStep(p)
         \/ \E p \in Participants : Checkpoint(p) \/ Crash(p) \/ Restart(p)
  PROVE  /\ UNCHANGED <<cj, pay, paySnap>> /\ op'.kind = op.kind
         /\ up'[Coordinator] = up[Coordinator]
         /\ ledger'[Coordinator] = ledger[Coordinator]
         /\ snap'[Coordinator] = snap[Coordinator]
<1> USE CoordinatorAssumption DEF TypeOK, Hubs
<1>1. CASE TimePasses \/ UNCHANGED vars
  BY <1>1 DEF TimePasses, vars, disk, journals, memory, network
<1>2. ASSUME NEW p \in Participants, Contact(p) \/ Unanswered(p)
      PROVE  UNCHANGED <<cj, pay, paySnap, up, ledger, snap>> /\ op'.kind = op.kind
  BY <1>2 DEF Contact, Unanswered, disk, journals, Ops
<1>3. ASSUME NEW p \in Participants, ParticipantStep(p)
      PROVE  UNCHANGED <<cj, pay, paySnap, op, up, snap>>
             /\ ledger'[Coordinator] = ledger[Coordinator]
  BY <1>3 DEF ParticipantStep, HandlePrepare, HandlePrepareAgain, PrepareDiskFault,
    RecordCommitDecision, ApplyParticipant, RecordCommitted, HandleAbort, AbortDiskFault,
    disk, journals, memory
<1>4. ASSUME NEW p \in Participants, Checkpoint(p) \/ Crash(p) \/ Restart(p)
      PROVE  /\ UNCHANGED <<cj, pay, paySnap, op>>
             /\ up'[Coordinator] = up[Coordinator]
             /\ ledger'[Coordinator] = ledger[Coordinator]
             /\ snap'[Coordinator] = snap[Coordinator]
  BY <1>4 DEF Checkpoint, Crash, Restart, disk, journals, memory
<1> QED BY <1>1, <1>2, <1>3, <1>4

(***************************************************************************)
(* The steps that leave the participants as they are.                      *)
(***************************************************************************)
LEMMA ParticipantBystanders ==
  ASSUME TypeOK, NEW p \in Participants,
         \/ Session \/ TimePasses \/ Preparation \/ Commitment \/ Abortion \/ GiveUp
         \/ \E q \in Participants : Contact(q) \/ Unanswered(q)
         \/ \E h \in Hubs : Checkpoint(h)
         \/ Crash(Coordinator) \/ Restart(Coordinator) \/ UNCHANGED vars
  PROVE  UNCHANGED pj /\ up'[p] = up[p] /\ ledger'[p] = ledger[p]
<1> USE CoordinatorAssumption DEF TypeOK, Hubs, disk, journals, memory
<1>1. CASE Session
  BY <1>1 DEF Session, AddSignature, ExpirePayment, EvictSession, FailUnjournaled, FailPayment
<1>2. CASE Preparation
  BY <1>2 DEF Preparation, PrepareBegin, PrepareRefused, JournalPreparing, PrepareFinish,
    FailAfterPrepare, PrepareAcknowledged, PrepareFailed, FailPayment
<1>3. CASE Commitment
  BY <1>3 DEF Commitment, CommitDecide, CommitResume, ApplyLocal, CommitPending, CommitFinish,
    MarkSettled, Reconcile, CommitAcknowledged
<1>4. CASE Abortion
  BY <1>4 DEF Abortion, AbortOrigin, AbortFinish, AbortAcknowledged, FailPayment
<1>5. CASE TimePasses \/ GiveUp \/ UNCHANGED vars
        \/ \E q \in Participants : Contact(q) \/ Unanswered(q)
  BY <1>5 DEF TimePasses, GiveUp, vars, Contact, Unanswered
<1>6. CASE Crash(Coordinator) \/ Restart(Coordinator) \/ \E h \in Hubs : Checkpoint(h)
  BY <1>6 DEF Crash, Restart, Checkpoint
<1> QED BY <1>1, <1>2, <1>3, <1>4, <1>5, <1>6

(***************************************************************************)
(* A commit that is acknowledged has been applied: no step takes that back.*)
(***************************************************************************)
LEMMA MovedStep == InductiveInv /\ MovedInv /\ [Next]_vars => MovedInv'
<1> SUFFICES ASSUME InductiveInv, MovedInv, [Next]_vars PROVE MovedInv'
  OBVIOUS
<1>a. /\ TypeOK /\ HandlerInv /\ cj \in Records /\ op \in Ops
      /\ ledger \in [Hubs -> Ledgers] /\ snap \in [Hubs -> Ledgers] /\ up \in [Hubs -> BOOLEAN]
      /\ Coordinator \in Hubs
  BY DEF InductiveInv, TypeOK, Hubs
<1> DEFINE Origin ==
      /\ ~up[Coordinator] => op.kind = "idle"
      /\ up[Coordinator] /\ (op.kind = "commit" \/ cj.state = "Committed") =>
           ledger[Coordinator].applied
<1> DEFINE Part(p) == up[p] /\ pj[p] = "Committed" => ledger[p].applied
<1>b. Origin /\ \A p \in Participants : Part(p)
  BY DEF MovedInv
<1>1. Origin'
  <2>1. ASSUME op'.kind = op.kind, cj'.state = cj.state, up'[Coordinator] = up[Coordinator],
               ledger[Coordinator].applied => ledger'[Coordinator].applied
        PROVE  Origin'
    BY <1>b, <2>1
  <2>2. ASSUME op'.kind # "commit", cj'.state # "Committed" \/ cj'.state = cj.state,
               up[Coordinator], UNCHANGED <<up, ledger>>
        PROVE  Origin'
    BY <1>b, <2>2
  <2>3. ASSUME \/ TimePasses \/ UNCHANGED vars
               \/ \E p \in Participants : Contact(p) \/ Unanswered(p) \/ ParticipantStep(p)
               \/ \E p \in Participants : Checkpoint(p) \/ Crash(p) \/ Restart(p)
        PROVE  Origin'
    BY <1>a, <2>1, <2>3, OriginBystanders
  <2>4. ASSUME Session \/ PrepareRefused \/ FailAfterPrepare PROVE Origin'
    <3>1. UNCHANGED <<cj, op, up>>
      BY <2>4 DEF Session, AddSignature, ExpirePayment, EvictSession, FailUnjournaled,
        PrepareRefused, FailAfterPrepare, disk, journals
    <3>2. ledger'[Coordinator] \in {ledger[Coordinator], [ledger[Coordinator] EXCEPT !.held = FALSE]}
      BY <1>a, <2>4 DEF Session, AddSignature, ExpirePayment, EvictSession, FailUnjournaled,
        PrepareRefused, FailAfterPrepare, FailPayment
    <3>3. ledger[Coordinator].applied => ledger'[Coordinator].applied
      BY <1>a, <3>2, LedgerOperations
    <3> QED BY <2>1, <3>1, <3>3
  <2>5. ASSUME PrepareBegin \/ CommitResume \/ CommitPending \/ GiveUp \/ MarkSettled
        PROVE  Origin'
    <3>1. op'.kind # "commit" /\ UNCHANGED <<cj, up, ledger>> /\ up[Coordinator]
      BY <2>5, OpTypes DEF PrepareBegin, CommitResume, CommitPending, GiveUp, MarkSettled,
        LockFree, disk, journals, Kinds
    <3> QED BY <2>2, <3>1
  <2>6. ASSUME \/ JournalPreparing \/ PrepareFinish \/ CommitDecide \/ AbortOrigin
               \/ \E p \in Participants : PrepareFailed(p)
        PROVE  Origin'
    <3>1. UNCHANGED <<up, ledger>> /\ up[Coordinator]
      BY <2>6 DEF JournalPreparing, PrepareFinish, CommitDecide, AbortOrigin,
        PrepareFailed, Awaits, LockFree
    <3>2. op' = Idle \/ \E kind \in {"prepare", "apply", "abort"} :
                          \E targets \in SUBSET Participants : op' = Running(kind, targets)
      BY <2>6 DEF JournalPreparing, PrepareFinish, CommitDecide, AbortOrigin, PrepareFailed
    <3>3. op'.kind # "commit"
      BY <3>2 DEF Idle, Running
    <3>4. cj'.state # "Committed"
      BY <1>a, <2>6, StateTypes DEF JournalPreparing, PrepareFinish, CommitDecide, AbortOrigin,
        PrepareFailed, Records, NoRecord
    <3> QED BY <2>2, <3>1, <3>4, <3>3
  <2>7. ASSUME NEW p \in Participants,
               PrepareAcknowledged(p) \/ CommitAcknowledged(p) \/ AbortAcknowledged(p)
        PROVE  Origin'
    <3>1. op'.kind = op.kind /\ cj'.state = cj.state /\ UNCHANGED <<up, ledger>>
      BY <1>a, <2>7 DEF PrepareAcknowledged, CommitAcknowledged, AbortAcknowledged, Records, Ops
    <3> QED BY <2>1, <3>1
  <2>8. ASSUME ApplyLocal PROVE Origin'
    <3>1. UNCHANGED <<cj, up>> /\ cj.state = "CommitDecided" /\ up[Coordinator]
      BY <1>a, <2>8 DEF ApplyLocal, HandlerInv, disk, journals
    <3>2. CASE CanApply(ledger[Coordinator])
      <4>1. ledger'[Coordinator] = Apply(ledger[Coordinator])
        BY <1>a, <2>8, <3>2 DEF ApplyLocal
      <4> QED BY <1>a, <3>1, <4>1, LedgerOperations
    <3>3. CASE ~CanApply(ledger[Coordinator])
      BY <2>2, <2>8, <3>1, <3>3, OpTypes DEF ApplyLocal
    <3> QED BY <3>2, <3>3
  <2>9. ASSUME CommitFinish PROVE Origin'
    BY <1>b, <2>9 DEF CommitFinish
  <2>10. ASSUME Reconcile PROVE Origin'
    <3>1. UNCHANGED <<cj, op, up>> /\ ledger'[Coordinator] = Apply(ledger[Coordinator])
      BY <1>a, <2>10 DEF Reconcile, disk, journals
    <3> QED BY <1>a, <2>1, <3>1, LedgerOperations
  <2>11. ASSUME AbortFinish PROVE Origin'
    <3>1. op'.kind = "idle" /\ UNCHANGED up /\ up[Coordinator] /\ cj.state = "AbortDecided"
      BY <1>a, <2>11, OpTypes DEF AbortFinish, HandlerInv
    <3>2. cj'.state # "Committed"
      BY <1>a, <2>11, <3>1 DEF AbortFinish, Records
    <3> QED BY <3>1, <3>2
  <2>12. ASSUME Checkpoint(Coordinator) PROVE Origin'
    BY <2>1, <2>12 DEF Checkpoint, journals, memory
  <2>13. ASSUME Crash(Coordinator) PROVE Origin'
    BY <1>a, <2>13, OpTypes DEF Crash
  <2>14. ASSUME Restart(Coordinator) PROVE Origin'
    <3>1. UNCHANGED <<cj, op>> /\ op.kind = "idle" /\ up'[Coordinator]
      BY <1>a, <1>b, <2>14 DEF Restart, disk, journals
    <3>2. ledger'[Coordinator] = RecoveredLedger(cj.state, snap[Coordinator])
      BY <1>a, <2>14 DEF Restart
    <3>3. cj.state = "Committed" => ledger'[Coordinator].applied
      BY <1>a, <3>2, LedgerTypes, LedgerOperations DEF RecoveredLedger, CommitSide
    <3> QED BY <3>1, <3>3
  <2> QED
    BY <2>3, <2>4, <2>5, <2>6, <2>7, <2>8, <2>9, <2>10, <2>11, <2>12, <2>13, <2>14
    DEF Next, Preparation, Commitment, Abortion, Hubs
<1>2. ASSUME NEW p \in Participants PROVE Part(p)'
  <2>a. /\ p \in Hubs /\ p # Coordinator /\ pj \in [Participants -> ParticipantStates]
        /\ ledger[p] \in Ledgers /\ snap[p] \in Ledgers
    BY <1>a, CoordinatorAssumption DEF Hubs, TypeOK
  <2>1. ASSUME pj'[p] = pj[p], up'[p] = up[p],
               ledger[p].applied => ledger'[p].applied
        PROVE  Part(p)'
    BY <1>b, <2>1
  <2>2. ASSUME \/ Session \/ TimePasses \/ Preparation \/ Commitment \/ Abortion \/ GiveUp
               \/ \E q \in Participants : Contact(q) \/ Unanswered(q)
               \/ \E h \in Hubs : Checkpoint(h)
               \/ Crash(Coordinator) \/ Restart(Coordinator) \/ UNCHANGED vars
        PROVE  Part(p)'
    BY <1>a, <2>1, <2>2, ParticipantBystanders
  <2>3. ASSUME NEW q \in Participants, ParticipantStep(q) PROVE Part(p)'
    <3>1. UNCHANGED up
      BY <2>3 DEF ParticipantStep, HandlePrepare, HandlePrepareAgain, PrepareDiskFault,
        RecordCommitDecision, ApplyParticipant, RecordCommitted, HandleAbort, AbortDiskFault,
        memory
    <3>2. ledger'[p] \in {ledger[p], Reserve(ledger[p]), Release(ledger[p]), Apply(ledger[p])}
      BY <1>a, <2>a, <2>3 DEF ParticipantStep, HandlePrepare, HandlePrepareAgain,
        PrepareDiskFault, RecordCommitDecision, ApplyParticipant, RecordCommitted, HandleAbort,
        AbortDiskFault, memory
    <3>3. ledger[p].applied => ledger'[p].applied
      BY <2>a, <3>2, LedgerOperations
    <3>4. \/ pj'[p] = pj[p] \/ pj'[p] # "Committed"
          \/ ledger[p].applied
      BY <2>a, <2>3 DEF ParticipantStep, HandlePrepare, HandlePrepareAgain,
        PrepareDiskFault, RecordCommitDecision, ApplyParticipant, RecordCommitted, HandleAbort,
        AbortDiskFault, disk, journals
    <3> QED BY <1>b, <2>1, <3>1, <3>3, <3>4
  <2>4. ASSUME NEW q \in Participants, Crash(q) PROVE Part(p)'
    <3>1. pj' = pj /\ (~up'[p] \/ (up'[p] = up[p] /\ ledger'[p] = ledger[p]))
      BY <1>a, <2>a, <2>4 DEF Crash, disk, journals, Hubs
    <3> QED BY <2>1, <3>1
  <2>5. ASSUME NEW q \in Participants, Restart(q) PROVE Part(p)'
    <3>1. /\ pj' = pj
          /\ \/ up'[p] = up[p] /\ ledger'[p] = ledger[p]
             \/ ledger'[p] = RecoveredLedger(pj[p], snap[p])
      BY <1>a, <2>a, <2>5, CoordinatorAssumption DEF Restart, disk, journals, Hubs
    <3>2. pj[p] = "Committed" => RecoveredLedger(pj[p], snap[p]).applied
      BY <2>a, LedgerTypes, LedgerOperations DEF RecoveredLedger, CommitSide
    <3> QED BY <2>1, <3>1, <3>2
  <2> QED
    BY <2>2, <2>3, <2>4, <2>5 DEF Next, Hubs
<1> HIDE DEF Origin, Part
<1>3. Origin' /\ (\A p \in Participants : Part(p)')
  BY <1>1, <1>2
<1> QED
  <2> USE DEF Origin, Part
  <2> QED BY <1>3 DEF MovedInv

(***************************************************************************)
(* Nothing takes the origin's liquidity away from a payment that may still *)
(* be committed: expiry and failure refuse a signed or decided one, and a  *)
(* restart reserves again.                                                 *)
(***************************************************************************)
LEMMA OriginStep == InductiveInv /\ MovedInv /\ OriginHolds /\ [Next]_vars => OriginHolds'
<1> SUFFICES ASSUME InductiveInv, MovedInv, OriginHolds, [Next]_vars PROVE OriginHolds'
  OBVIOUS
<1> DEFINE l == ledger[Coordinator]
<1> DEFINE Open == {"collecting", "committing"}
<1>a. /\ TypeOK /\ HandlerInv /\ ImageInv /\ SignatureInv /\ cj \in Records /\ op \in Ops
      /\ pay \in Payments /\ paySnap \in Payments
      /\ ledger \in [Hubs -> Ledgers] /\ snap \in [Hubs -> Ledgers] /\ up \in [Hubs -> BOOLEAN]
      /\ Coordinator \in Hubs /\ l \in Ledgers /\ snap[Coordinator] \in Ledgers
  BY DEF InductiveInv, TypeOK, Hubs
<1> USE DEF disk, journals
<1>b. ASSUME UNCHANGED <<cj, paySnap, snap>>,
             up'[Coordinator] => up[Coordinator] /\ (CanApply(l) => CanApply(l')),
             pay'.status \in Open => pay.status \in Open,
             op'.kind = "prepare" => op.kind = "prepare",
             cj.state \in CommitSide => pay'.status \in {"none", "committing", "settled"}
      PROVE  OriginHolds'
  BY <1>b DEF OriginHolds
<1>1. ASSUME \/ TimePasses \/ UNCHANGED vars
             \/ \E p \in Participants : Contact(p) \/ Unanswered(p) \/ ParticipantStep(p)
             \/ \E p \in Participants : Checkpoint(p) \/ Crash(p) \/ Restart(p)
      PROVE  OriginHolds'
  <2>1. /\ UNCHANGED <<cj, pay, paySnap>> /\ op'.kind = op.kind
        /\ up'[Coordinator] = up[Coordinator] /\ ledger'[Coordinator] = ledger[Coordinator]
        /\ snap'[Coordinator] = snap[Coordinator]
    BY <1>a, <1>1, OriginBystanders
  <2> QED BY <2>1 DEF OriginHolds
<1>2. ASSUME AddSignature PROVE OriginHolds'
  <2>1. /\ UNCHANGED <<cj, paySnap, snap, up, ledger, op>>
        /\ pay.status = "collecting" /\ pay'.status \in Open
    BY <1>2 DEF AddSignature
  <2> QED BY <1>b, <2>1 DEF OriginHolds
<1>3. ASSUME ExpirePayment PROVE OriginHolds'
  <2>1. /\ UNCHANGED <<cj, paySnap, snap, up, op>>
        /\ pay.status = "collecting" /\ pay'.status = "timedOut"
    BY <1>a, <1>3 DEF ExpirePayment, Payments
  <2> QED BY <2>1 DEF OriginHolds
<1>4. ASSUME EvictSession PROVE OriginHolds'
  <2>1. UNCHANGED <<cj, paySnap, snap, up, ledger, op>> /\ pay'.status = "none"
    BY <1>4 DEF EvictSession, NoPayment
  <2> QED BY <1>b, <2>1
<1>5. ASSUME FailUnjournaled \/ PrepareRefused \/ FailAfterPrepare PROVE OriginHolds'
  <2>1. UNCHANGED <<cj, paySnap, snap, up, op>> /\ FailPayment
    BY <1>5 DEF FailUnjournaled, PrepareRefused, FailAfterPrepare
  <2>2. CASE Failable(pay)
    <3>1. pay'.status = "failed" /\ cj.state \notin CommitSide
      BY <1>a, <2>1, <2>2 DEF FailPayment, Payments, Failable, OriginHolds
    <3> QED BY <2>1, <3>1 DEF OriginHolds
  <2>3. CASE ~Failable(pay)
    BY <1>b, <2>1, <2>3 DEF FailPayment, OriginHolds
  <2> QED BY <2>2, <2>3
<1>6. ASSUME PrepareBegin \/ CommitResume \/ GiveUp PROVE OriginHolds'
  <2>1. UNCHANGED <<cj, paySnap, snap, up, ledger, pay>>
    BY <1>6 DEF PrepareBegin, CommitResume, GiveUp
  <2>2. op'.kind # "prepare"
    BY <1>6, OpTypes DEF PrepareBegin, CommitResume, GiveUp, Kinds
  <2> QED BY <1>b, <2>1, <2>2 DEF OriginHolds
<1>7. ASSUME JournalPreparing PROVE OriginHolds'
  <2>1. cj.state = "none" /\ UNCHANGED <<paySnap, snap, up, ledger, pay>>
    BY <1>a, <1>7 DEF JournalPreparing, HandlerInv
  <2>2. cj'.state = "Preparing"
    BY <1>7 DEF JournalPreparing, NoRecord
  <2> QED BY <2>1, <2>2 DEF OriginHolds, CommitSide
<1>8. ASSUME PrepareFinish PROVE OriginHolds'
  <2>1. /\ op.kind = "prepare" /\ cj.state = "Preparing" /\ cj'.state = "Prepared"
        /\ UNCHANGED <<paySnap, snap, up, ledger, pay>>
    BY <1>a, <1>8, StateTypes DEF PrepareFinish, HandlerInv, CoordinatorStates
  <2> QED BY <2>1 DEF OriginHolds, CommitSide
<1>9. ASSUME AbortOrigin \/ \E p \in Participants : PrepareFailed(p) PROVE OriginHolds'
  <2>1. cj'.state = "AbortDecided"
    BY <1>a, <1>9 DEF AbortOrigin, PrepareFailed, Records
  <2>2. op'.kind = "abort"
    BY <1>9, OpTypes DEF AbortOrigin, PrepareFailed, Kinds
  <2> QED BY <2>1, <2>2 DEF OriginHolds, CommitSide
<1>10. ASSUME NEW p \in Participants,
              PrepareAcknowledged(p) \/ CommitAcknowledged(p) \/ AbortAcknowledged(p)
       PROVE  OriginHolds'
  <2>1. op'.kind = op.kind /\ cj'.state = cj.state
    BY <1>a, <1>10 DEF PrepareAcknowledged, CommitAcknowledged, AbortAcknowledged, Records, Ops
  <2>2. UNCHANGED <<paySnap, snap, up, ledger, pay>>
    BY <1>10 DEF PrepareAcknowledged, CommitAcknowledged, AbortAcknowledged
  <2> QED BY <2>1, <2>2 DEF OriginHolds
<1>11. ASSUME CommitDecide PROVE OriginHolds'
  <2>1. /\ cj.state = "Prepared" /\ cj'.state = "CommitDecided" /\ op'.kind = "apply"
        /\ UNCHANGED <<paySnap, snap, up, ledger, pay>> /\ up[Coordinator]
    BY <1>a, <1>11, OpTypes DEF CommitDecide, LockFree, Records, Kinds
  <2>2. pay.status = "committing"
    BY <1>a, <1>11, <2>1
    DEF CommitDecide, AllSigned, SignatureInv, FullySigned, ImageInv, Payments
  <2> QED BY <2>1, <2>2 DEF OriginHolds
<1>12. ASSUME ApplyLocal PROVE OriginHolds'
  <2>1. UNCHANGED <<cj, paySnap, snap, up, pay>>
    BY <1>12 DEF ApplyLocal
  <2>2. op'.kind # "prepare"
    BY <1>12, OpTypes DEF ApplyLocal, Kinds
  <2>3. CanApply(l) => CanApply(l')
    BY <1>a, <1>12, LedgerOperations DEF ApplyLocal, CanApply
  <2> QED BY <1>b, <2>1, <2>2, <2>3 DEF OriginHolds
<1>13. ASSUME CommitPending \/ MarkSettled PROVE OriginHolds'
  <2>1. /\ cj.state \in CommitSide /\ op'.kind = "idle"
        /\ UNCHANGED <<cj, paySnap, snap, up, ledger>>
    BY <1>a, <1>13, OpTypes DEF CommitPending, MarkSettled, HandlerInv, CommitSide
  <2>2. pay'.status \in {"none", "committing", "settled"}
    BY <1>a, <1>13, <2>1 DEF CommitPending, MarkSettled, Settled, Payments, OriginHolds
  <2> QED BY <2>1, <2>2 DEF OriginHolds, CommitSide
<1>14. ASSUME CommitFinish PROVE OriginHolds'
  <2>1. cj.state = "CommitDecided" /\ UNCHANGED <<paySnap, snap, up, ledger, pay>>
    BY <1>a, <1>14 DEF CommitFinish, HandlerInv
  <2>2. cj'.state = "Committed" /\ op'.kind = "settle"
    BY <1>a, <1>14, OpTypes, StateTypes DEF CommitFinish, Kinds, CoordinatorStates, CommitSide
  <2> QED BY <2>1, <2>2 DEF OriginHolds, CommitSide
<1>15. ASSUME Reconcile PROVE OriginHolds'
  <2>1. UNCHANGED <<cj, paySnap, snap, up, op>> /\ cj.state = "Committed"
        /\ op.kind # "prepare"
    BY <1>a, <1>15 DEF Reconcile, HandlerInv
  <2>2. l' = Apply(l) /\ pay'.status \in {"none", "settled"}
    BY <1>a, <1>15 DEF Reconcile, Settled, Payments
  <2>3. CanApply(l')
    BY <1>a, <2>2, LedgerOperations DEF CanApply
  <2> QED BY <2>1, <2>2, <2>3 DEF OriginHolds
<1>16. ASSUME AbortFinish PROVE OriginHolds'
  <2>1. cj.state = "AbortDecided" /\ op'.kind = "idle"
    BY <1>a, <1>16, OpTypes DEF AbortFinish, HandlerInv
  <2>2. cj'.state \in AbortSide
    BY <1>a, <1>16, <2>1 DEF AbortFinish, AbortSide, Records
  <2> QED BY <2>1, <2>2 DEF OriginHolds, AbortSide, CommitSide
<1>17. ASSUME Checkpoint(Coordinator) PROVE OriginHolds'
  <2>1. UNCHANGED <<cj, pay, op, up, ledger>>
    BY <1>17 DEF Checkpoint, memory
  <2>2. paySnap'.status \in Open => paySnap'.status = pay.status /\ snap'[Coordinator] = l
    BY <1>a, <1>17 DEF Checkpoint, Exported, NoPayment, Ledgers
  <2>3. up[Coordinator]
    BY <1>17 DEF Checkpoint
  <2> QED BY <2>1, <2>2, <2>3 DEF OriginHolds
<1>18. ASSUME Crash(Coordinator) PROVE OriginHolds'
  <2>1. /\ UNCHANGED <<cj, paySnap, snap>> /\ ~up'[Coordinator] /\ pay'.status = "none"
    BY <1>a, <1>18 DEF Crash, NoPayment
  <2> QED BY <2>1 DEF OriginHolds
<1>19. ASSUME Restart(Coordinator) PROVE OriginHolds'
  <2>1. /\ UNCHANGED <<cj, paySnap, snap, op>> /\ op.kind = "idle"
        /\ pay' = RecoveredPayment /\ l' = RecoveredLedger(cj.state, snap[Coordinator])
    BY <1>a, <1>19 DEF Restart, MovedInv
  <2>2. CASE cj.state = "none"
    <3>1. l' = snap[Coordinator] /\ pay' = paySnap
      BY <1>a, <2>1, <2>2 DEF RecoveredLedger, RecoveredPayment, CommitSide, AbortSide
    <3> QED BY <2>1, <2>2, <3>1 DEF OriginHolds, CommitSide
  <2>3. CASE cj.state = "Prepared"
    <3>1. CanApply(l')
      BY <1>a, <2>1, <2>3, LedgerOperations DEF RecoveredLedger, CommitSide
    <3> QED BY <2>1, <2>3, <3>1 DEF OriginHolds, CommitSide
  <2>4. CASE cj.state \in CommitSide
    <3>1. CanApply(l')
      BY <1>a, <2>1, <2>4, LedgerTypes, LedgerOperations DEF RecoveredLedger, CommitSide, CanApply
    <3>2. pay'.status \in {"committing", "settled"}
      BY <1>a, <2>1, <2>4 DEF RecoveredPayment, CommitSide, AbortSide, Records, Payments
    <3> QED BY <2>1, <2>4, <3>1, <3>2 DEF OriginHolds, CommitSide
  <2>5. CASE cj.state \notin {"none", "Prepared"} \cup CommitSide
    BY <2>1, <2>5 DEF OriginHolds
  <2> QED BY <2>2, <2>3, <2>4, <2>5
<1> QED
  BY <1>1, <1>2, <1>3, <1>4, <1>5, <1>6, <1>7, <1>8, <1>9, <1>10, <1>11, <1>12, <1>13, <1>14,
     <1>15, <1>16, <1>17, <1>18, <1>19
  DEF Next, Session, Preparation, Commitment, Abortion, Hubs

(***************************************************************************)
(* A participant whose journal never errs after it has written holds what  *)
(* its journal says it has prepared, and releases it with the abort.       *)
(***************************************************************************)
LEMMA ParticipantsStep ==
  ASSUME MaxDiskFaults = 0
  PROVE  InductiveInv /\ ParticipantsHold /\ [Next]_vars => ParticipantsHold'
<1> DEFINE Part(p) == up[p] => /\ pj[p] \in {"Prepared"} \cup CommitSide => CanApply(ledger[p])
                               /\ pj[p] = "Aborted" => ~ledger[p].held
<1> SUFFICES ASSUME InductiveInv, ParticipantsHold, [Next]_vars, NEW p \in Participants
             PROVE  Part(p)'
  BY DEF ParticipantsHold
<1>a. /\ TypeOK /\ p \in Hubs /\ p # Coordinator /\ pj \in [Participants -> ParticipantStates]
      /\ ledger \in [Hubs -> Ledgers] /\ snap \in [Hubs -> Ledgers] /\ up \in [Hubs -> BOOLEAN]
      /\ ledger[p] \in Ledgers /\ snap[p] \in Ledgers /\ diskFaults \in Nat
  BY CoordinatorAssumption DEF InductiveInv, TypeOK, Hubs
<1>b. Part(p)
  BY DEF ParticipantsHold
<1>c. /\ ledger[p].applied => pj[p] \in CommitSide
      /\ snap[p].applied => pj[p] \in CommitSide
  BY <1>a DEF InductiveInv, ExactlyOnce, MovedOnce, DurableSide
<1>1. ASSUME pj'[p] = pj[p], up'[p] = up[p], ledger'[p] = ledger[p] PROVE Part(p)'
  BY <1>b, <1>1
<1>2. ASSUME \/ Session \/ TimePasses \/ Preparation \/ Commitment \/ Abortion \/ GiveUp
             \/ \E q \in Participants : Contact(q) \/ Unanswered(q)
             \/ \E h \in Hubs : Checkpoint(h)
             \/ Crash(Coordinator) \/ Restart(Coordinator) \/ UNCHANGED vars
      PROVE  Part(p)'
  BY <1>a, <1>1, <1>2, ParticipantBystanders
<1>3. ASSUME NEW q \in Participants, HandlePrepare(q) PROVE Part(p)'
  <2>1. CASE q = p
    <3>1. pj'[p] = "Prepared" /\ ledger'[p] = Reserve(ledger[p])
      BY <1>a, <1>3, <2>1 DEF HandlePrepare
    <3> QED BY <1>a, <3>1, LedgerOperations
  <2>2. CASE q # p
    BY <1>a, <1>1, <1>3, <2>2 DEF HandlePrepare
  <2> QED BY <2>1, <2>2
<1>4. ASSUME NEW q \in Participants, HandlePrepareAgain(q) PROVE Part(p)'
  BY <1>1, <1>4 DEF HandlePrepareAgain, disk, journals, memory
<1>5. ASSUME NEW q \in Participants, PrepareDiskFault(q) \/ AbortDiskFault(q) PROVE Part(p)'
  BY <1>a, <1>5 DEF PrepareDiskFault, AbortDiskFault
<1>6. ASSUME NEW q \in Participants, RecordCommitDecision(q) \/ RecordCommitted(q)
      PROVE  Part(p)'
  <2>1. UNCHANGED <<up, ledger>>
    BY <1>6 DEF RecordCommitDecision, RecordCommitted, memory
  <2>2. \/ pj'[p] = pj[p]
        \/ pj[p] \in {"Prepared"} \cup CommitSide /\ pj'[p] \in CommitSide
    BY <1>a, <1>6 DEF RecordCommitDecision, RecordCommitted, CommitSide
  <2> QED BY <1>b, <2>1, <2>2 DEF CommitSide
<1>7. ASSUME NEW q \in Participants, ApplyParticipant(q) PROVE Part(p)'
  <2>1. CASE q = p
    <3>1. pj' = pj /\ pj[p] = "CommitDecided" /\ ledger'[p] = Apply(ledger[p])
      BY <1>a, <1>7, <2>1 DEF ApplyParticipant, disk, journals
    <3> QED BY <1>a, <3>1, LedgerOperations DEF CanApply
  <2>2. CASE q # p
    BY <1>a, <1>1, <1>7, <2>2 DEF ApplyParticipant, disk, journals
  <2> QED BY <2>1, <2>2
<1>8. ASSUME NEW q \in Participants, HandleAbort(q) PROVE Part(p)'
  <2>1. CASE q = p
    <3>1. /\ up' = up /\ pj[p] \notin CommitSide /\ pj'[p] = "Aborted"
          /\ ledger'[p] = IF pj[p] = "Aborted" THEN ledger[p] ELSE Release(ledger[p])
      BY <1>a, <1>8, <2>1 DEF HandleAbort
    <3>2. ~Release(ledger[p]).held
      BY <1>a, <1>c, <3>1, LedgerOperations
    <3> QED BY <1>b, <3>1, <3>2 DEF CommitSide
  <2>2. CASE q # p
    BY <1>a, <1>1, <1>8, <2>2 DEF HandleAbort
  <2> QED BY <2>1, <2>2
<1>9. ASSUME NEW q \in Participants, Crash(q) PROVE Part(p)'
  <2>1. pj' = pj /\ (~up'[p] \/ (up'[p] = up[p] /\ ledger'[p] = ledger[p]))
    BY <1>a, <1>9 DEF Crash, disk, journals, Hubs
  <2> QED BY <1>1, <2>1
<1>10. ASSUME NEW q \in Participants, Restart(q) PROVE Part(p)'
  <2>1. CASE q = p
    <3>1. pj' = pj /\ ledger'[p] = RecoveredLedger(pj[p], snap[p])
      BY <1>a, <1>10, <2>1 DEF Restart, disk, journals
    <3>2. CASE pj[p] = "Prepared"
      <4>1. ledger'[p] = Reserve(snap[p])
        BY <3>1, <3>2 DEF RecoveredLedger, CommitSide
      <4> QED BY <1>a, <3>1, <3>2, <4>1, LedgerOperations
    <3>3. CASE pj[p] \in CommitSide
      <4>1. ledger'[p] = Apply(Reserve(snap[p]))
        BY <3>1, <3>3 DEF RecoveredLedger, CommitSide
      <4>2. ledger'[p].applied
        BY <1>a, <4>1, LedgerTypes, LedgerOperations
      <4> QED BY <3>1, <3>3, <4>2 DEF CanApply, CommitSide
    <3>4. CASE pj[p] = "Aborted"
      <4>1. ledger'[p] = Release(snap[p])
        BY <3>1, <3>4 DEF RecoveredLedger, CommitSide
      <4>2. ~ledger'[p].held
        BY <1>a, <1>c, <3>4, <4>1, LedgerOperations DEF CommitSide
      <4> QED BY <3>1, <3>4, <4>2 DEF CommitSide
    <3>5. CASE pj[p] \notin {"Prepared", "Aborted"} \cup CommitSide
      BY <3>1, <3>5
    <3> QED BY <3>2, <3>3, <3>4, <3>5
  <2>2. CASE q # p
    <3>1. pj' = pj /\ up'[p] = up[p] /\ ledger'[p] = ledger[p]
      BY <1>a, <1>10, <2>2 DEF Restart, disk, journals, Hubs
    <3> QED BY <1>1, <3>1
  <2> QED BY <2>1, <2>2
<1> HIDE DEF Part
<1> QED
  BY <1>2, <1>3, <1>4, <1>5, <1>6, <1>7, <1>8, <1>9, <1>10 DEF Next, ParticipantStep, Hubs

LEMMA HoldInit == Init => MovedInv /\ OriginHolds /\ ParticipantsHold
<1> SUFFICES ASSUME Init PROVE MovedInv /\ OriginHolds /\ ParticipantsHold
  OBVIOUS
<1>1. cj.state = "none" /\ op.kind = "idle" /\ \A p \in Participants : pj[p] = "none"
  BY OpTypes DEF Init, NoRecord
<1>2. ledger[Coordinator].held /\ pay.status = "collecting" /\ paySnap.status = "none"
  BY DEF Init, Hubs, FreshLedger, NewPayment, NoPayment
<1> QED
  BY <1>1, <1>2 DEF MovedInv, OriginHolds, ParticipantsHold, CanApply, CommitSide

LEMMA Moved == Spec => [](InductiveInv /\ MovedInv /\ OriginHolds)
BY InvInit, HoldInit, InvStep, MovedStep, OriginStep, PTL DEF Spec

(***************************************************************************)
(* "settled means every participant acknowledged commit": a payment that   *)
(* is shown or saved as settled is journaled as committed by every hub of  *)
(* its route, and each that is serving has moved its balances, whatever    *)
(* was lost and whoever crashed.                                           *)
(***************************************************************************)
THEOREM SettledMeansMoved == Spec => []SettledEverywhere
<1>1. InductiveInv /\ MovedInv => SettledEverywhere
  <2> SUFFICES ASSUME InductiveInv, MovedInv, pay.status = "settled" \/ paySnap.status = "settled"
               PROVE  /\ \A p \in Participants : pj[p] = "Committed"
                      /\ \A h \in Hubs : up[h] => ledger[h].applied
    BY DEF SettledEverywhere
  <2>1. cj.state = "Committed"
    BY DEF InductiveInv, ImageInv
  <2>2. \A p \in Participants : pj[p] = "Committed"
    BY <2>1 DEF InductiveInv, VoteInv
  <2> QED BY <2>1, <2>2 DEF MovedInv, Hubs
<1> QED BY Moved, <1>1, PTL

(***************************************************************************)
(* Where no journal errs after it has written, a decided commit never      *)
(* finds its hub without the liquidity: not after an expiry, a cancel, an  *)
(* eviction, a failed handler or a restart.                                *)
(***************************************************************************)
THEOREM DecidedCommitsApply ==
  ASSUME MaxDiskFaults = 0
  PROVE  Spec => []CommitApplicable
<1>1. InductiveInv /\ OriginHolds /\ ParticipantsHold => CommitApplicable
  <2> SUFFICES ASSUME InductiveInv, OriginHolds, ParticipantsHold, cj.state \in CommitSide,
                      NEW h \in Hubs, up[h]
               PROVE  CanApply(ledger[h])
    BY DEF CommitApplicable
  <2>1. \A p \in Participants : pj[p] \in CommitSide \cup {"Prepared"}
    BY DEF InductiveInv, TypeOK, ParticipantStates, VoteInv, CommitSide, AbortSide
  <2> QED BY <2>1 DEF OriginHolds, ParticipantsHold, Hubs
<1>2. Spec => []ParticipantsHold
  BY Invariance, HoldInit, ParticipantsStep, PTL DEF Spec
<1> QED BY Moved, <1>1, <1>2, PTL

(***************************************************************************)
(* Where no journal errs after it has written, a finished abort leaves no  *)
(* participant that serves with liquidity locked.                          *)
(***************************************************************************)
THEOREM AbortsRelease ==
  ASSUME MaxDiskFaults = 0
  PROVE  Spec => []AbortReleases
<1>1. InductiveInv /\ ParticipantsHold => AbortReleases
  BY DEF InductiveInv, VoteInv, ParticipantsHold, AbortReleases
<1>2. Spec => []ParticipantsHold
  BY Invariance, HoldInit, ParticipantsStep, PTL DEF Spec
<1> QED BY Invariance, <1>1, <1>2, PTL
=============================================================================
