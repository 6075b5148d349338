----------------------------- MODULE MicroStreams -----------------------------
(***************************************************************************)
(* One micro stream of an agent: pushes reserve a sequence and a part of   *)
(* the stream's cap under the lock of HubState, let the lock go to verify  *)
(* the payer's signature and to create a payment under an idempotency key, *)
(* and take it again to record an entry, or to take the reservation back.  *)
(*                                                                         *)
(* One currency: HAC and satoshi are counted alike.  Creating a payment is *)
(* the subject of AgentPay; here a key gives one payment of one amount, or *)
(* an error.  A client whose signature is for another sequence than the    *)
(* one reserved is one whose signature does not verify.                    *)
(***************************************************************************)
EXTENDS FiniteSets, FiniteSetsExt, Integers, Sequences

CONSTANTS
  Requests,      \* bodies of push requests, each may be sent again
  AmountOf,      \* the amount of a request, not zero
  KeyOf,         \* the idempotency key a request brings, or NoKeyGiven
  Pushers,       \* push requests that may be in progress at once
  Cap,           \* max_hac_zhu, max_satoshi
  KeptEntries,   \* entries a stream keeps, 100 in the code
  MaxPushes,     \* bound: reservations
  MaxRestarts,   \* bound
  NoKeyGiven

ASSUME RequestsAssumption ==
  /\ AmountOf \in [Requests -> Nat \ {0}] /\ IsFiniteSet(Pushers)
  /\ Cap \in Nat /\ KeptEntries \in Nat \ {0} /\ MaxPushes \in Nat /\ MaxRestarts \in Nat

VARIABLES
  stream,     \* the stream in HubState
  payments,   \* payments created for it, with the key each is bound to
  pushes,     \* push requests in progress
  saved,      \* the snapshot: stream and payments
  recorded,   \* history: sum of the amounts of all entries
  overtaken,  \* history: a roll-back found a later reservation
  reserved,   \* history: number of reservations
  restarts

streamVars == <<stream, payments, pushes, saved, recorded, overtaken, reserved, restarts>>

-----------------------------------------------------------------------------
UserKeys == {[request |-> KeyOf[r], sequence |-> 0] : r \in {q \in Requests : KeyOf[q] # NoKeyGiven}}
          \cup [request : {NoKeyGiven}, sequence : 1 .. MaxPushes]
Entries == [sequence : 1 .. MaxPushes, amount : {AmountOf[r] : r \in Requests},
            key : UserKeys \cup {NoKeyGiven}]
NoPush == [at |-> "idle", request |-> NoKeyGiven, sequence |-> 0]

StreamsOK(s) ==
  /\ DOMAIN s = {"open", "pays", "spent", "sequence", "entries"}
  /\ s.open \in BOOLEAN /\ s.pays \in BOOLEAN
  /\ s.spent \in 0 .. Cap /\ s.sequence \in 0 .. MaxPushes
  /\ Len(s.entries) <= KeptEntries
  /\ \A i \in 1 .. Len(s.entries) : s.entries[i] \in Entries

StreamTypeOK ==
  /\ StreamsOK(stream) /\ StreamsOK(saved.stream)
  /\ payments \subseteq [key : UserKeys, amount : Nat]
  /\ saved.payments \subseteq [key : UserKeys, amount : Nat]
  /\ pushes \in [Pushers -> [at : {"idle", "verify", "pay", "record", "undo"},
                             request : Requests \cup {NoKeyGiven}, sequence : 0 .. MaxPushes]]
  /\ recorded \in Nat /\ overtaken \in BOOLEAN
  /\ reserved \in 0 .. MaxPushes /\ restarts \in 0 .. MaxRestarts

(* open_micro_stream: a cap, no spending; create_payments as asked. *)
StreamInit ==
  /\ \E pays \in BOOLEAN :
       stream = [open |-> TRUE, pays |-> pays, spent |-> 0, sequence |-> 0, entries |-> << >>]
  /\ payments = {}
  /\ pushes = [c \in Pushers |-> NoPush]
  /\ saved = [stream |-> stream, payments |-> {}, recorded |-> 0]
  /\ recorded = 0 /\ overtaken = FALSE /\ reserved = 0 /\ restarts = 0

PushTo(c, place) == pushes' = [pushes EXCEPT ![c].at = place]
EndPush(c) == pushes' = [pushes EXCEPT ![c] = NoPush]
-----------------------------------------------------------------------------
\* Mutant of ReservePush: the cap is compared with what was spent before.
ReserveOverCap(c, r) ==
  /\ pushes[c].at = "idle" /\ stream.open
  /\ stream.spent <= Cap /\ reserved < MaxPushes
  /\ stream' = [stream EXCEPT !.sequence = @ + 1, !.spent = @ + AmountOf[r]]
  /\ pushes' = [pushes EXCEPT ![c] = [at |-> "verify", request |-> r,
                                      sequence |-> stream.sequence + 1]]
  /\ reserved' = reserved + 1
  /\ UNCHANGED <<payments, saved, recorded, overtaken, restarts>>

(***************************************************************************)
(* push_micro takes the next sequence and the amount, under one lock.      *)
(***************************************************************************)
ReservePush(c, r) ==
  /\ pushes[c].at = "idle" /\ stream.open
  /\ stream.spent + AmountOf[r] <= Cap /\ reserved < MaxPushes
  /\ stream' = [stream EXCEPT !.sequence = @ + 1, !.spent = @ + AmountOf[r]]
  /\ pushes' = [pushes EXCEPT ![c] = [at |-> "verify", request |-> r,
                                      sequence |-> stream.sequence + 1]]
  /\ reserved' = reserved + 1
  /\ UNCHANGED <<payments, saved, recorded, overtaken, restarts>>

(* The signature verifies over the commit message of the sequence, or not. *)
VerifyPush(c) ==
  /\ pushes[c].at = "verify"
  /\ \/ PushTo(c, "undo")
     \/ PushTo(c, IF stream.pays THEN "pay" ELSE "record")
  /\ UNCHANGED <<stream, payments, saved, recorded, overtaken, reserved, restarts>>

(* The key of a push: its own, or one made of the stream and the sequence. *)
PushKey(push) ==
  IF KeyOf[push.request] # NoKeyGiven THEN [request |-> KeyOf[push.request], sequence |-> 0]
  ELSE [request |-> NoKeyGiven, sequence |-> push.sequence]

\* Mutant of PayPush: the key of the payment is not looked up.
PayPushAgain(c) ==
  /\ pushes[c].at = "pay"
  /\ payments' = {p \in payments : p.key # PushKey(pushes[c])}
                   \cup {[key |-> PushKey(pushes[c]), amount |-> AmountOf[pushes[c].request] + 1]}
  /\ PushTo(c, "record")
  /\ UNCHANGED <<stream, saved, recorded, overtaken, reserved, restarts>>

(***************************************************************************)
(* agent_create_payment_ex: the payment of the key if it has the same      *)
(* amount, a new one, or an error.                                         *)
(***************************************************************************)
PayPush(c) ==
  LET payment == [key |-> PushKey(pushes[c]), amount |-> AmountOf[pushes[c].request]]
      bound == {p \in payments : p.key = payment.key}
  IN /\ pushes[c].at = "pay"
     /\ \/ /\ bound \subseteq {payment}
           /\ payments' = payments \cup {payment}
           /\ PushTo(c, "record")
        \/ PushTo(c, "undo") /\ UNCHANGED payments
     /\ UNCHANGED <<stream, saved, recorded, overtaken, reserved, restarts>>

\* Mutant of UndoPush: the reservation is taken back whatever came after it.
UndoPushAlways(c) ==
  /\ pushes[c].at = "undo"
  /\ stream' = [stream EXCEPT !.sequence = pushes[c].sequence - 1,
                              !.spent = @ - AmountOf[pushes[c].request]]
  /\ EndPush(c)
  /\ UNCHANGED <<payments, saved, recorded, overtaken, reserved, restarts>>

\* Mutant of UndoPush: the amount stays spent.
UndoSequenceOnly(c) ==
  /\ pushes[c].at = "undo" /\ stream.sequence = pushes[c].sequence
  /\ stream' = [stream EXCEPT !.sequence = @ - 1]
  /\ EndPush(c)
  /\ UNCHANGED <<payments, saved, recorded, overtaken, reserved, restarts>>

(***************************************************************************)
(* A push that failed takes its reservation back, unless a later one has   *)
(* been made; then sequence and amount stay taken.                         *)
(***************************************************************************)
UndoPush(c) ==
  LET latest == stream.sequence = pushes[c].sequence
  IN /\ pushes[c].at = "undo"
     /\ stream' = IF latest
                  THEN [stream EXCEPT !.sequence = @ - 1,
                                      !.spent = @ - AmountOf[pushes[c].request]]
                  ELSE stream
     /\ overtaken' = (overtaken \/ ~ latest)
     /\ EndPush(c)
     /\ UNCHANGED <<payments, saved, recorded, reserved, restarts>>

LastEntries(entries) ==
  SubSeq(entries, IF Len(entries) > KeptEntries THEN Len(entries) - KeptEntries + 1 ELSE 1,
         Len(entries))

(* The entry is recorded, whether or not the stream was closed meanwhile. *)
RecordPush(c) ==
  LET push == pushes[c]
      entry == [sequence |-> push.sequence, amount |-> AmountOf[push.request],
                key |-> IF stream.pays THEN PushKey(push) ELSE NoKeyGiven]
  IN /\ push.at = "record"
     /\ stream' = [stream EXCEPT !.entries = LastEntries(Append(@, entry))]
     /\ recorded' = recorded + entry.amount
     /\ EndPush(c)
     /\ UNCHANGED <<payments, saved, overtaken, reserved, restarts>>

CloseStream ==
  /\ stream.open /\ stream' = [stream EXCEPT !.open = FALSE]
  /\ UNCHANGED <<payments, pushes, saved, recorded, overtaken, reserved, restarts>>

(* export_persist_bundle: stream and payments under one read lock. *)
SaveStream ==
  /\ saved' = [stream |-> stream, payments |-> payments, recorded |-> recorded]
  /\ saved' # saved
  /\ UNCHANGED <<stream, payments, pushes, recorded, overtaken, reserved, restarts>>

(* A restart: requests in progress are gone, their reservations may stay. *)
RestartStream ==
  /\ restarts < MaxRestarts /\ restarts' = restarts + 1
  /\ stream' = saved.stream /\ payments' = saved.payments /\ recorded' = saved.recorded
  /\ pushes' = [c \in Pushers |-> NoPush]
  /\ UNCHANGED <<saved, overtaken, reserved>>

StreamStep ==
  \/ \E c \in Pushers : \/ \E r \in Requests : ReservePush(c, r)
                        \/ VerifyPush(c) \/ PayPush(c) \/ UndoPush(c) \/ RecordPush(c)
  \/ CloseStream \/ SaveStream \/ RestartStream

StreamSpec == StreamInit /\ [][StreamStep]_streamVars
-----------------------------------------------------------------------------
(* Properties.                                                             *)

Active == {c \in Pushers : pushes[c].at # "idle"}

(* No two pushes of a stream ever hold the same sequence, and none holds   *)
(* the sequence of an entry: a roll-back frees only the last one.          *)
SequencesUnique ==
  /\ \A c \in Active : pushes[c].sequence \in 1 .. stream.sequence
  /\ \A c, d \in Active : c # d => pushes[c].sequence # pushes[d].sequence
  /\ \A i \in DOMAIN stream.entries :
       /\ stream.entries[i].sequence <= stream.sequence
       /\ \A c \in Active : pushes[c].sequence # stream.entries[i].sequence
       /\ \A j \in DOMAIN stream.entries :
            i # j => stream.entries[i].sequence # stream.entries[j].sequence

SumOf(weight, S) == MapThenSumSet(LAMBDA x : weight[x], S)

Taken(push) == IF push.at = "idle" THEN 0 ELSE AmountOf[push.request]
InProgress == SumOf([c \in Pushers |-> Taken(pushes[c])], Pushers)

Paid(bills) == SumOf([b \in bills |-> b.amount], bills)

(* What is spent covers every entry and every push in progress and stays   *)
(* within the cap; it is more only after a restart or after a roll-back    *)
(* that came too late.                                                     *)
SpentCovers ==
  /\ recorded + InProgress <= stream.spent /\ stream.spent <= Cap
  /\ restarts = 0 /\ ~ overtaken => recorded + InProgress = stream.spent

(* The payments of a stream, which the payer owes, are within its cap; an  *)
(* entry's payment exists and is of the entry's amount.                    *)
PaymentsWithinCap ==
  /\ Paid(payments) <= stream.spent
  /\ \A i \in DOMAIN stream.entries :
       LET entry == stream.entries[i]
       IN entry.key # NoKeyGiven => [key |-> entry.key, amount |-> entry.amount] \in payments

(* A stream accounts for its pushes: each has a sequence of its own, and all *)
(* are covered by what is spent, which the cap bounds.                     *)
StreamCovered == StreamTypeOK /\ SequencesUnique /\ SpentCovers /\ PaymentsWithinCap
=============================================================================
