------------------------------- MODULE AgentPay -------------------------------
(***************************************************************************)
(* Payments that agents create under an idempotency key, and the invoices  *)
(* they pay.                                                               *)
(*                                                                         *)
(* A create request takes the hub's lock several times: to look at the     *)
(* invoice, to look up the key and the budget, to store a session, to      *)
(* bind the key to it, and, for the checkpoint that precedes the answer,   *)
(* to write a snapshot.  Other requests come in between.                   *)
(*                                                                         *)
(* Only payments whose channels are all on this hub; the rest is the       *)
(* subject of CrossHubPayment.  A key is the scoped one, so it has one     *)
(* principal.  A content is what the fingerprint of a request covers, its  *)
(* amounts already forced to the invoice's.  "failed" stands for Failed    *)
(* and TimedOut, which nothing here tells apart.                           *)
(***************************************************************************)
EXTENDS FiniteSets, Integers

CONSTANTS
  Payments,      \* payment ids; each is used once
  Keys,          \* scoped idempotency keys
  Principals,    \* policy principals
  PrincipalOf,   \* the principal of a key
  Contents,      \* bodies of requests
  Invoices,
  InvoiceOf,     \* the invoice of a content, or None
  Calls,         \* create requests that may be in progress at once
  MaxSessions,   \* limits.max_payment_sessions
  EvictBatch,    \* finished sessions dropped at that limit, 64 in the code
  MaxOpen,       \* policy.max_open_payments
  MaxRecords,    \* cap of the idempotency map, 50 000 in the code
  KeptRecords,   \* records kept when the cap is reached, nine tenths of it
  KeptSettled,   \* settled sessions a snapshot keeps, 500 in the code
  MaxCrashes,    \* bound
  None           \* no content, no payment, no principal

ASSUME KeysAssumption == PrincipalOf \in [Keys -> Principals]
ASSUME ContentsAssumption ==
  /\ InvoiceOf \in [Contents -> Invoices \cup {None}]
  /\ None \notin Contents \cup Payments \cup Principals \cup Invoices
ASSUME LimitsAssumption ==
  /\ MaxSessions \in Nat \ {0} /\ EvictBatch \in Nat \ {0}
  /\ MaxOpen \in Nat /\ KeptSettled \in Nat /\ MaxCrashes \in Nat
  /\ KeptRecords \in Nat /\ MaxRecords \in Nat /\ KeptRecords < MaxRecords
ASSUME FiniteAssumption == IsFiniteSet(Payments) /\ IsFiniteSet(Calls)

VARIABLES
  hub,         \* the memory of the hub
  disk,        \* the snapshot a restart reads
  calls,       \* create requests in progress
  settling,    \* payments settled and not yet reported to an invoice
  asked,       \* history: the content each payment id was created for
  answers,     \* history: the payment each answered request named
  forgotten,   \* history: keys whose record was pruned
  crashes

history == <<asked, answers, forgotten>>
vars == <<hub, disk, calls, settling, history, crashes>>

-----------------------------------------------------------------------------
Statuses == {"none", "collecting", "settled", "failed"}
InvoiceStatuses == {"none", "open", "paying", "paid", "cancelled"}
Records == [payment : Payments, content : Contents]
NoRecord == [payment |-> None, content |-> None]
Idle == [at |-> "idle", key |-> None, content |-> None, payment |-> None]

(* The part of HubState that a snapshot keeps. *)
Hubs ==
  [status : [Payments -> Statuses],
   owner : [Payments -> Principals \cup {None}],   \* payment_meta
   reserved : SUBSET Payments,
   applied : SUBSET Payments,
   records : [Keys -> Records \cup {NoRecord}],
   invoices : [Invoices -> [status : InvoiceStatuses,
                            payment : Payments \cup {None}]]]

TypeOK ==
  /\ hub \in Hubs /\ disk \in Hubs
  /\ calls \in [Calls -> [at : {"idle", "lookup", "create", "record", "answer"},
                          key : Keys \cup {None},
                          content : Contents \cup {None},
                          payment : Payments \cup {None}]]
  /\ \A c \in Calls : calls[c].payment # None <=> calls[c].at \in {"record", "answer"}
  /\ settling \subseteq Payments
  /\ asked \in [Payments -> Contents \cup {None}]
  /\ answers \subseteq [key : Keys, payment : Payments]
  /\ forgotten \subseteq Keys
  /\ crashes \in 0 .. MaxCrashes

Init ==
  /\ hub = [status |-> [p \in Payments |-> "none"],
            owner |-> [p \in Payments |-> None],
            reserved |-> {}, applied |-> {},
            records |-> [k \in Keys |-> NoRecord],
            invoices |-> [i \in Invoices |-> [status |-> "none", payment |-> None]]]
  /\ disk = hub
  /\ calls = [c \in Calls |-> Idle]
  /\ settling = {}
  /\ asked = [p \in Payments |-> None] /\ answers = {} /\ forgotten = {}
  /\ crashes = 0

Having(h, status) == {p \in Payments : h.status[p] = status}
Live(h) == Payments \ Having(h, "none")
Finished(h) == Having(h, "settled") \cup Having(h, "failed")

(* Collecting sessions that count against the budget of a principal. *)
OpenOf(h, principal) == {p \in Having(h, "collecting") : h.owner[p] = principal}

AtMost(n, S) == {T \in SUBSET S : Cardinality(T) = IF Cardinality(S) < n THEN Cardinality(S)
                                                   ELSE n}
-----------------------------------------------------------------------------
(* Create requests.                                                        *)

Goto(c, place) == calls' = [calls EXCEPT ![c].at = place]

\* Mutant of End: the payment of the request stays behind.
EndKeeping(c) == calls' = [calls EXCEPT ![c] = [Idle EXCEPT !.payment = calls[c].payment]]

End(c) == calls' = [calls EXCEPT ![c] = Idle]
AnswerWith(c, p) ==
  calls' = [calls EXCEPT ![c] = [@ EXCEPT !.at = "answer", !.payment = p, !.content = None]]

(***************************************************************************)
(* A request arrives; the invoice it names must be Open.                   *)
(***************************************************************************)
Accept(c, k, x) ==
  /\ calls[c].at = "idle"
  /\ InvoiceOf[x] # None => hub.invoices[InvoiceOf[x]].status = "open"
  /\ calls' = [calls EXCEPT
       ![c] = [at |-> "lookup", key |-> k, content |-> x, payment |-> None]]
  /\ UNCHANGED <<hub, disk, settling, history, crashes>>

(* The invoice is being paid by this very key: its payment is the answer,  *)
(* whatever else the request says.                                         *)
ReplayInvoice(c, k, x) ==
  /\ calls[c].at = "idle" /\ InvoiceOf[x] # None
  /\ LET linked == hub.invoices[InvoiceOf[x]]
     IN /\ linked.status = "paying"
        /\ hub.records[k].payment = linked.payment
        /\ hub.status[linked.payment] # "none"
        /\ calls' = [calls EXCEPT ![c] = [at |-> "answer", key |-> k, content |-> None,
                                          payment |-> linked.payment]]
  /\ UNCHANGED <<hub, disk, settling, history, crashes>>

(* The key is bound to a payment of the same content that still exists. *)
Replays(k, x) ==
  /\ hub.records[k] # NoRecord /\ hub.records[k].content = x
  /\ hub.status[hub.records[k].payment] # "none"

\* Mutant of Conflicts: the fingerprints are not compared.
ConflictsNever(k, x) == FALSE /\ x = k

Conflicts(k, x) == hub.records[k] # NoRecord /\ hub.records[k].content # x

Lookup(c) ==
  LET k == calls[c].key x == calls[c].content
  IN /\ calls[c].at = "lookup" /\ Replays(k, x)
     /\ AnswerWith(c, hub.records[k].payment)
     /\ UNCHANGED <<hub, disk, settling, history, crashes>>

(* check_pay_policy, its count of open sessions. *)
WithinBudget(k) == Cardinality(OpenOf(hub, PrincipalOf[k])) < MaxOpen

Admit(c) ==
  LET k == calls[c].key x == calls[c].content
  IN /\ calls[c].at = "lookup"
     /\ ~Conflicts(k, x) /\ ~Replays(k, x) /\ WithinBudget(k)
     /\ Goto(c, "create")
     /\ UNCHANGED <<hub, disk, settling, history, crashes>>

(* Any error before a session exists: key conflict, budget, identity,      *)
(* route, liquidity.                                                       *)
Refuse(c) ==
  /\ calls[c].at \in {"lookup", "create"}
  /\ End(c)
  /\ UNCHANGED <<hub, disk, settling, history, crashes>>

(* What create_payment drops to make room. *)
Evictions ==
  IF Cardinality(Live(hub)) < MaxSessions THEN {{}} ELSE AtMost(EvictBatch, Finished(hub))

Evicted(gone) == [p \in Payments |-> IF p \in gone THEN "none" ELSE hub.status[p]]

(***************************************************************************)
(* create_payment, under one write lock.                                   *)
(***************************************************************************)
Create(c, p, gone) ==
  /\ calls[c].at = "create" /\ asked[p] = None
  /\ gone \in Evictions /\ Cardinality(Live(hub) \ gone) < MaxSessions
  /\ hub' = [hub EXCEPT !.status = [Evicted(gone) EXCEPT ![p] = "collecting"],
                        !.reserved = @ \cup {p}]
  /\ asked' = [asked EXCEPT ![p] = calls[c].content]
  /\ calls' = [calls EXCEPT ![c] = [@ EXCEPT !.at = "record", !.payment = p]]
  /\ UNCHANGED <<disk, settling, answers, forgotten, crashes>>

(* The liquidity cannot be reserved; what was evicted stays evicted. *)
CreateFails(c, gone) ==
  /\ calls[c].at = "create" /\ gone \in Evictions
  /\ hub' = [hub EXCEPT !.status = Evicted(gone)]
  /\ End(c)
  /\ UNCHANGED <<disk, settling, history, crashes>>

-----------------------------------------------------------------------------
(* The key is looked up again when the session exists.                     *)

\* Mutant of Dropped: the liquidity of the session stays reserved.
DroppedSession(p) == [hub EXCEPT !.status[p] = "none"]

Dropped(p) == [hub EXCEPT !.status[p] = "none", !.reserved = @ \ {p}]

RecordConflicts(c) ==
  /\ calls[c].at = "record" /\ Conflicts(calls[c].key, calls[c].content)
  /\ hub' = Dropped(calls[c].payment)
  /\ End(c)
  /\ UNCHANGED <<disk, settling, history, crashes>>

\* Mutant of Overtaken: the second lookup is missing.
OvertakenNever(c) == calls[c] = Idle

(* Another request has bound the key since the first lookup. *)
Overtaken(c) == Replays(calls[c].key, calls[c].content)

RecordReplays(c) ==
  /\ calls[c].at = "record" /\ Overtaken(c)
  /\ hub' = Dropped(calls[c].payment)
  /\ AnswerWith(c, hub.records[calls[c].key].payment)
  /\ UNCHANGED <<disk, settling, history, crashes>>

(***************************************************************************)
(* prune_idempotency_lru drops the records with the oldest time stamp in   *)
(* seconds, in any order among equals; here any records.                   *)
(***************************************************************************)
Prunings ==
  LET bound == {k \in Keys : hub.records[k] # NoRecord}
  IN IF Cardinality(bound) < MaxRecords THEN {{}}
     ELSE AtMost(Cardinality(bound) - KeptRecords, bound)

(* The session is bound to its key, its principal and its invoice, whose   *)
(* status is not looked at again.                                          *)
Bound(k, x, p, gone) ==
  [hub EXCEPT
    !.records = [j \in Keys |-> IF j = k THEN [payment |-> p, content |-> x]
                                ELSE IF j \in gone THEN NoRecord ELSE @[j]],
    !.owner[p] = PrincipalOf[k],
    !.invoices = [i \in Invoices |-> IF i = InvoiceOf[x]
                                     THEN [status |-> "paying", payment |-> p] ELSE @[i]]]

Record(c, gone) ==
  LET k == calls[c].key x == calls[c].content
  IN /\ calls[c].at = "record"
     /\ ~Conflicts(k, x) /\ ~Overtaken(c) /\ gone \in Prunings
     /\ hub' = Bound(k, x, calls[c].payment, gone)
     /\ forgotten' = forgotten \cup gone
     /\ AnswerWith(c, calls[c].payment)
     /\ UNCHANGED <<disk, settling, asked, answers, crashes>>

-----------------------------------------------------------------------------
(* Snapshots.                                                              *)

\* Mutant of Exported: a snapshot holds finished business only.
ExportedSettled(kept) ==
  [hub EXCEPT
    !.status = [p \in Payments |-> IF p \in kept THEN @[p] ELSE "none"],
    !.owner = [p \in Payments |-> IF p \in kept THEN @[p] ELSE None],
    !.reserved = @ \cap kept]

(* export_agent_persist: open sessions and the latest settled ones. *)
Exported(kept) ==
  LET held == Having(hub, "collecting") \cup kept
  IN [hub EXCEPT
       !.status = [p \in Payments |-> IF p \in held THEN @[p] ELSE "none"],
       !.owner = [p \in Payments |-> IF p \in held THEN @[p] ELSE None],
       !.reserved = @ \cap held]

(* durable_checkpoint writes a snapshot, then the answer goes out. *)
Answer(c, kept) ==
  /\ calls[c].at = "answer"
  /\ kept \in AtMost(KeptSettled, Having(hub, "settled"))
  /\ disk' = Exported(kept)
  /\ answers' = answers \cup {[key |-> calls[c].key, payment |-> calls[c].payment]}
  /\ End(c)
  /\ UNCHANGED <<hub, settling, asked, forgotten, crashes>>

(* The checkpoint fails, or the client has gone. *)
AnswerLost(c) ==
  /\ calls[c].at = "answer"
  /\ End(c)
  /\ UNCHANGED <<hub, disk, settling, history, crashes>>

(* A checkpoint of another request, or the periodic save. *)
Save(kept) ==
  /\ kept \in AtMost(KeptSettled, Having(hub, "settled"))
  /\ disk' = Exported(kept)
  /\ UNCHANGED <<hub, calls, settling, history, crashes>>

(* The hub stops and starts again from its snapshot. *)
Restart ==
  /\ crashes < MaxCrashes /\ crashes' = crashes + 1
  /\ hub' = disk
  /\ calls' = [c \in Calls |-> Idle]
  /\ settling' = {}
  /\ UNCHANGED <<disk, history>>

-----------------------------------------------------------------------------
(* Sessions: any session that collects signatures is offered in the inbox  *)
(* of its signers, also one whose request is not answered yet.             *)

(* add_signature with the last signature; only the payment of an invoice   *)
(* has anything left to report.                                            *)
Settle(p) ==
  /\ hub.status[p] = "collecting" /\ p \in hub.reserved
  /\ hub' = [hub EXCEPT !.status[p] = "settled", !.reserved = @ \ {p},
                        !.applied = @ \cup {p}]
  /\ settling' = IF InvoiceOf[asked[p]] = None THEN settling ELSE settling \cup {p}
  /\ UNCHANGED <<disk, calls, history, crashes>>

\* Mutant of PaidBy: the invoice is found by the content of the payment.
PaidByContent(p) ==
  [i \in Invoices |-> IF InvoiceOf[asked[p]] = i THEN [hub.invoices[i] EXCEPT !.status = "paid"]
                      ELSE hub.invoices[i]]

(* mark_invoice_paid_for_payment: only the invoice linked to the payment.  *)
PaidBy(p) ==
  [i \in Invoices |-> IF hub.invoices[i].payment = p
                      THEN [hub.invoices[i] EXCEPT !.status = "paid"] ELSE hub.invoices[i]]

MarkPaid(p) ==
  /\ p \in settling /\ settling' = settling \ {p}
  /\ hub' = [hub EXCEPT !.invoices = PaidBy(p)]
  /\ UNCHANGED <<disk, calls, history, crashes>>

\* Mutant of Fail: the reservation is kept.
FailHolding(p) ==
  /\ hub.status[p] \in {"collecting", "failed"}
  /\ hub' = [hub EXCEPT !.status[p] = "failed"]
  /\ UNCHANGED <<disk, calls, settling, history, crashes>>

(* fail_payment, and the expiry of a session. *)
Fail(p) ==
  /\ hub.status[p] = "collecting"
  /\ hub' = [hub EXCEPT !.status[p] = "failed", !.reserved = @ \ {p}]
  /\ UNCHANGED <<disk, calls, settling, history, crashes>>

CreateInvoice(i) ==
  /\ hub.invoices[i].status = "none"
  /\ hub' = [hub EXCEPT !.invoices[i].status = "open"]
  /\ UNCHANGED <<disk, calls, settling, history, crashes>>

CancelInvoice(i) ==
  /\ hub.invoices[i].status \in {"open", "paying"}
  /\ hub' = [hub EXCEPT !.invoices[i].status = "cancelled"]
  /\ UNCHANGED <<disk, calls, settling, history, crashes>>

-----------------------------------------------------------------------------
CallStep(c) ==
  \/ \E k \in Keys, x \in Contents : Accept(c, k, x) \/ ReplayInvoice(c, k, x)
  \/ Lookup(c) \/ Admit(c) \/ Refuse(c)
  \/ \E gone \in SUBSET Payments : (\E p \in Payments : Create(c, p, gone)) \/ CreateFails(c, gone)
  \/ RecordConflicts(c) \/ RecordReplays(c) \/ \E gone \in SUBSET Keys : Record(c, gone)
  \/ (\E kept \in SUBSET Payments : Answer(c, kept)) \/ AnswerLost(c)

Next ==
  \/ \E c \in Calls : CallStep(c)
  \/ \E p \in Payments : Settle(p) \/ MarkPaid(p) \/ Fail(p)
  \/ \E i \in Invoices : CreateInvoice(i) \/ CancelInvoice(i)
  \/ \E kept \in SUBSET Payments : Save(kept)
  \/ Restart

Spec == Init /\ [][Next]_vars

-----------------------------------------------------------------------------
(* Properties.                                                             *)

(***************************************************************************)
(* A key stands for one request: however often it is retried, at once or   *)
(* later, before or after a crash, the payments it was answered with all   *)
(* have the same content, as long as its record was not pruned.            *)
(***************************************************************************)
KeyBound ==
  \A a, b \in answers :
    a.key = b.key /\ a.key \notin forgotten => asked[a.payment] = asked[b.payment]

(***************************************************************************)
(* A payment that was answered for a key, and that the hub still knows, is *)
(* the payment of that key: the next retry is answered with it, also after *)
(* a crash.  So of two payments answered for one key the hub never has     *)
(* both.                                                                   *)
(***************************************************************************)
AnswersStand ==
  \A a \in answers :
    a.key \notin forgotten /\ hub.status[a.payment] # "none" =>
      hub.records[a.key].payment = a.payment

(***************************************************************************)
(* Liquidity is reserved exactly for the sessions that collect signatures, *)
(* also for those of requests that lost a race, in memory and in the       *)
(* snapshot.                                                               *)
(***************************************************************************)
ReservedOpen ==
  \A h \in {hub, disk} : h.reserved = Having(h, "collecting")

(***************************************************************************)
(* An answered payment that still collects signatures would still do so    *)
(* after a crash.                                                          *)
(***************************************************************************)
AnsweredSurvives ==
  \A a \in answers :
    hub.status[a.payment] = "collecting" => disk.status[a.payment] = "collecting"

(***************************************************************************)
(* An invoice is linked to a payment created for it, and counts as paid    *)
(* only when the payment it is linked to has settled.                      *)
(***************************************************************************)
InvoiceExplained ==
  \A i \in Invoices :
    LET linked == hub.invoices[i]
    IN /\ linked.payment # None => InvoiceOf[asked[linked.payment]] = i
       /\ linked.status = "paid" => linked.payment \in hub.applied

(* What an agent is answered for a key is kept: one request per key, one   *)
(* payment per key, and that payment open after a crash if it was open.    *)
AnswersKept == KeyBound /\ AnswersStand /\ AnsweredSurvives

(* Sessions are well-formed and exactly the collecting ones hold liquidity. *)
SessionsReserve == TypeOK /\ ReservedOpen
=============================================================================
