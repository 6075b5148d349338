---------------------------- MODULE AgentPayProofs ----------------------------
(***************************************************************************)
(* What an agent is told about its key, for any number of keys, payments,  *)
(* invoices, requests at once, evictions, prunings and crashes.            *)
(* AgentPayInv is the inductive invariant.  The snapshot satisfies what    *)
(* the memory does (HubInv), so that a restart may take its place, and a   *)
(* request about to be answered knows what the answered ones know.         *)
(***************************************************************************)
EXTENDS AgentPay, TLAPS

CallRecords == [at : {"idle", "lookup", "create", "record", "answer"},
                key : Keys \cup {None}, content : Contents \cup {None},
                payment : Payments \cup {None}]
InvoiceRecords == [status : InvoiceStatuses, payment : Payments \cup {None}]

(* What the records say of a key that is answered with a payment. *)
Answerable(h, k, p) ==
  k \notin forgotten =>
    /\ h.records[k] # NoRecord /\ h.records[k].content = asked[p]
    /\ h.status[p] # "none" => h.records[k].payment = p

SessionsInv(h) ==
  /\ h.reserved = Having(h, "collecting")
  /\ \A p \in Payments : h.status[p] # "none" => asked[p] # None

RecordsInv(h) ==
  \A k \in Keys : h.records[k] # NoRecord =>
    /\ asked[h.records[k].payment] = h.records[k].content

InvoicesInv(h) ==
  \A i \in Invoices :
    LET linked == h.invoices[i]
    IN /\ linked.payment # None =>
            asked[linked.payment] # None /\ InvoiceOf[asked[linked.payment]] = i
       /\ linked.status = "paying" => linked.payment # None
       /\ linked.status = "paid" => linked.payment \in h.applied

AnswersInv(h) == \A a \in answers : asked[a.payment] # None /\ Answerable(h, a.key, a.payment)

HubInv(h) == SessionsInv(h) /\ RecordsInv(h) /\ InvoicesInv(h) /\ AnswersInv(h)

(* What a request in progress knows. *)
CallInv(h, call) ==
  /\ call.at # "idle" => call.key \in Keys
  /\ call.at \in {"lookup", "create", "record"} => call.content \in Contents
  /\ call.at \in {"record", "answer"} => call.payment \in Payments /\ asked[call.payment] # None
  /\ call.at = "record" => asked[call.payment] = call.content
  /\ call.at = "answer" => Answerable(h, call.key, call.payment)

AgentPayInv ==
  /\ TypeOK /\ HubInv(hub) /\ HubInv(disk)
  /\ \A c \in Calls : CallInv(hub, calls[c])
  /\ settling \subseteq hub.applied
  /\ AnsweredSurvives

-----------------------------------------------------------------------------
(* Types.                                                                  *)
LEMMA HubFields ==
  ASSUME NEW h
  PROVE  h \in Hubs =>
           /\ h.status \in [Payments -> Statuses] /\ h.owner \in [Payments -> Principals \cup {None}]
           /\ h.reserved \subseteq Payments /\ h.applied \subseteq Payments
           /\ h.records \in [Keys -> Records \cup {NoRecord}]
           /\ h.invoices \in [Invoices -> InvoiceRecords]
BY DEF Hubs, InvoiceRecords

(* A hub with other values of fields, as the actions write it. *)
LEMMA NewHub ==
  ASSUME NEW h \in Hubs,
         NEW s \in [Payments -> Statuses], NEW o \in [Payments -> Principals \cup {None}],
         NEW r \in SUBSET Payments, NEW a \in SUBSET Payments,
         NEW k \in [Keys -> Records \cup {NoRecord}], NEW i \in [Invoices -> InvoiceRecords]
  PROVE  [h EXCEPT !.status = s, !.owner = o, !.reserved = r, !.applied = a,
                   !.records = k, !.invoices = i] \in Hubs
BY DEF Hubs, InvoiceRecords

LEMMA CallFields ==
  ASSUME TypeOK
  PROVE  /\ calls \in [Calls -> CallRecords]
         /\ Idle \in CallRecords /\ Idle.at = "idle" /\ Idle.payment = None
BY DEF TypeOK, CallRecords, Idle

LEMMA RecordFields ==
  /\ NoRecord.payment = None /\ NoRecord.content = None
  /\ \A r \in Records \cup {NoRecord} :
       r # NoRecord => r \in Records /\ r.payment \in Payments /\ r.content \in Contents
  /\ \A r \in Records : r # NoRecord
BY ContentsAssumption DEF Records, NoRecord

LEMMA InitAgentPay == Init => AgentPayInv
<1> SUFFICES ASSUME Init PROVE AgentPayInv
  OBVIOUS
<1>1. hub \in Hubs /\ disk = hub
  BY DEF Init, Hubs, Statuses, InvoiceStatuses, InvoiceRecords
<1>2. calls \in [Calls -> CallRecords] /\ \A c \in Calls : calls[c].at = "idle" /\ calls[c].payment = None
  BY DEF Init, Idle, CallRecords
<1>3. TypeOK
  BY <1>1, <1>2, LimitsAssumption DEF Init, TypeOK, CallRecords
<1>4. /\ \A p \in Payments : hub.status[p] = "none"
      /\ \A k \in Keys : hub.records[k] = NoRecord
      /\ \A i \in Invoices : hub.invoices[i].payment = None /\ hub.invoices[i].status = "none"
      /\ hub.reserved = {} /\ answers = {} /\ settling = {}
  BY DEF Init
<1>5. HubInv(hub)
  BY <1>4 DEF HubInv, SessionsInv, RecordsInv, InvoicesInv, AnswersInv, Having
<1>6. HubInv(disk)
  BY <1>1, <1>5
<1>7. \A c \in Calls : CallInv(hub, calls[c])
  BY <1>2 DEF CallInv
<1> QED BY <1>3, <1>4, <1>5, <1>6, <1>7 DEF AgentPayInv, AnsweredSurvives

-----------------------------------------------------------------------------
(* The parts of a step.                                                    *)

(* The requests after a step of one of them. *)
LEMMA OneCall ==
  ASSUME AgentPayInv, NEW c \in Calls, NEW r \in CallRecords,
         calls' = [calls EXCEPT ![c] = r],
         r.payment # None <=> r.at \in {"record", "answer"}
  PROVE  /\ calls' \in [Calls -> CallRecords]
         /\ \A d \in Calls : calls'[d].payment # None <=> calls'[d].at \in {"record", "answer"}
         /\ \A d \in Calls : calls'[d] = r \/ calls'[d] = calls[d]
<1>1. calls \in [Calls -> CallRecords]
  BY CallFields DEF AgentPayInv
<1>2. \A d \in Calls : calls'[d] = IF d = c THEN r ELSE calls[d]
  BY <1>1
<1>3. \A d \in Calls : calls[d].payment # None <=> calls[d].at \in {"record", "answer"}
  BY DEF AgentPayInv, TypeOK
<1> QED BY <1>1, <1>2, <1>3

(* A step that opens no session, binds no key and touches no invoice. *)
Narrowed ==
  /\ hub' \in Hubs /\ hub'.records = hub.records /\ hub'.invoices = hub.invoices
  /\ hub.applied \subseteq hub'.applied
  /\ hub'.reserved = {p \in Payments : hub'.status[p] = "collecting"}
  /\ \A p \in Payments : /\ hub'.status[p] # "none" => hub.status[p] # "none"
                         /\ hub'.status[p] = "collecting" => hub.status[p] = "collecting"
  /\ UNCHANGED <<disk, history>>

LEMMA NarrowedKeeps ==
  ASSUME AgentPayInv, Narrowed
  PROVE  /\ HubInv(hub)' /\ HubInv(disk)' /\ AnsweredSurvives'
         /\ \A call \in CallRecords : CallInv(hub, call) => CallInv(hub, call)'
<1> USE DEF history
<1>0. /\ hub.records \in [Keys -> Records \cup {NoRecord}]
      /\ answers \subseteq [key : Keys, payment : Payments]
  BY HubFields DEF AgentPayInv, TypeOK
<1>1. \A k \in Keys, p \in Payments : Answerable(hub, k, p) => Answerable(hub, k, p)'
  BY DEF Answerable, Narrowed
<1>2. AnswersInv(hub)'
  BY <1>0, <1>1 DEF AnswersInv, AgentPayInv, HubInv, Narrowed
<1>3. SessionsInv(hub)'
  BY DEF SessionsInv, AgentPayInv, HubInv, Narrowed, Having
<1>4. RecordsInv(hub)'
  BY DEF RecordsInv, AgentPayInv, HubInv, Narrowed
<1>5. InvoicesInv(hub)'
  BY DEF InvoicesInv, AgentPayInv, HubInv, Narrowed
<1>6. HubInv(disk)'
  BY DEF HubInv, AgentPayInv, Narrowed, SessionsInv, RecordsInv, InvoicesInv, AnswersInv,
         Answerable, Having
<1>7. AnsweredSurvives'
  BY <1>0 DEF AnsweredSurvives, AgentPayInv, Narrowed
<1>8. ASSUME NEW call \in CallRecords, CallInv(hub, call) PROVE CallInv(hub, call)'
  BY <1>1, <1>8 DEF CallInv, Narrowed
<1> QED BY <1>2, <1>3, <1>4, <1>5, <1>6, <1>7, <1>8 DEF HubInv

(* Such a step of one request. *)
LEMMA NarrowedCall ==
  ASSUME AgentPayInv, Narrowed, NEW c \in Calls, NEW r \in CallRecords,
         calls' = [calls EXCEPT ![c] = r],
         r.payment # None <=> r.at \in {"record", "answer"},
         CallInv(hub, r), UNCHANGED <<settling, crashes>>
  PROVE  AgentPayInv'
<1>1. HubInv(hub)' /\ HubInv(disk)' /\ AnsweredSurvives'
  BY NarrowedKeeps
<1>2. /\ calls' \in [Calls -> CallRecords]
      /\ \A d \in Calls : calls'[d].payment # None <=> calls'[d].at \in {"record", "answer"}
      /\ \A d \in Calls : calls'[d] = r \/ calls'[d] = calls[d]
  BY OneCall
<1>3. TypeOK'
  BY <1>2 DEF TypeOK, AgentPayInv, Narrowed, history, CallRecords
<1>4. calls \in [Calls -> CallRecords]
  BY CallFields DEF AgentPayInv
<1>5. ASSUME NEW d \in Calls PROVE CallInv(hub, calls[d])'
  <2>1. CallInv(hub, calls[d]) /\ CallInv(hub, r)
    BY DEF AgentPayInv
  <2>2. PICK s \in CallRecords : s = calls'[d]
    BY <1>2
  <2>3. CallInv(hub, s)
    BY <1>2, <2>1, <2>2
  <2>4. CallInv(hub, s)'
    BY <2>3, NarrowedKeeps
  <2> QED BY <2>2, <2>4 DEF CallInv, Answerable
<1>6. settling' \subseteq hub'.applied
  BY DEF AgentPayInv, Narrowed
<1> QED BY <1>1, <1>3, <1>5, <1>6 DEF AgentPayInv

-----------------------------------------------------------------------------
(* The steps of a request that leave the hub as it is.                     *)
LEMMA HubStays ==
  ASSUME AgentPayInv, UNCHANGED <<hub, disk, history>>
  PROVE  Narrowed
BY DEF AgentPayInv, TypeOK, HubInv, SessionsInv, Having, Narrowed

LEMMA AcceptKeeps ==
  ASSUME AgentPayInv, NEW c \in Calls, NEW k \in Keys, NEW x \in Contents, Accept(c, k, x)
  PROVE  AgentPayInv'
<1> DEFINE r == [at |-> "lookup", key |-> k, content |-> x, payment |-> None]
<1>1. Narrowed
  BY HubStays DEF Accept
<1>2. r \in CallRecords /\ (r.payment # None <=> r.at \in {"record", "answer"}) /\ CallInv(hub, r)
  BY DEF CallRecords, CallInv
<1>3. calls' = [calls EXCEPT ![c] = r] /\ UNCHANGED <<settling, crashes>>
  BY DEF Accept
<1> QED BY <1>1, <1>2, <1>3, NarrowedCall

LEMMA IdleCall == CallInv(hub, Idle) /\ (Idle.payment # None <=> Idle.at \in {"record", "answer"})
BY DEF CallInv, Idle

(* A record of the key, and its payment, is an answer. *)
LEMMA RecordAnswers ==
  ASSUME AgentPayInv, NEW k \in Keys, hub.records[k] # NoRecord
  PROVE  /\ hub.records[k].payment \in Payments /\ asked[hub.records[k].payment] # None
         /\ Answerable(hub, k, hub.records[k].payment)
<1>1. hub.records[k] \in Records
  BY HubFields DEF AgentPayInv, TypeOK
<1>2. asked[hub.records[k].payment] = hub.records[k].content
  BY DEF AgentPayInv, HubInv, RecordsInv
<1>3. hub.records[k].payment \in Payments /\ hub.records[k].content # None
  BY <1>1, ContentsAssumption DEF Records
<1> QED BY <1>2, <1>3 DEF Answerable

LEMMA ReplayInvoiceKeeps ==
  ASSUME AgentPayInv, NEW c \in Calls, NEW k \in Keys, NEW x \in Contents, ReplayInvoice(c, k, x)
  PROVE  AgentPayInv'
<1>1. Narrowed
  BY HubStays DEF ReplayInvoice
<1>2. PICK p : p = hub.records[k].payment
  OBVIOUS
<1>3. /\ InvoiceOf[x] \in Invoices /\ p = hub.invoices[InvoiceOf[x]].payment
      /\ hub.invoices[InvoiceOf[x]].status = "paying"
  BY <1>2, ContentsAssumption DEF ReplayInvoice
<1>4. p # None
  BY <1>3 DEF AgentPayInv, HubInv, InvoicesInv
<1>5. hub.records[k] # NoRecord
  BY <1>2, <1>4, RecordFields
<1>6. p \in Payments /\ asked[p] # None /\ Answerable(hub, k, p)
  BY <1>2, <1>5, RecordAnswers
<1> DEFINE r == [at |-> "answer", key |-> k, content |-> None, payment |-> p]
<1>7. r \in CallRecords /\ (r.payment # None <=> r.at \in {"record", "answer"}) /\ CallInv(hub, r)
  BY <1>4, <1>6 DEF CallRecords, CallInv
<1>8. calls' = [calls EXCEPT ![c] = r] /\ UNCHANGED <<settling, crashes>>
  BY <1>3 DEF ReplayInvoice
<1> QED BY <1>1, <1>7, <1>8, NarrowedCall

(* A request is answered with the payment of its key's record. *)
LEMMA AnswersRecord ==
  ASSUME AgentPayInv, Narrowed, NEW c \in Calls, calls[c].at \in {"lookup", "record"},
         hub.records[calls[c].key] # NoRecord,
         AnswerWith(c, hub.records[calls[c].key].payment), UNCHANGED <<settling, crashes>>
  PROVE  AgentPayInv'
<1>1. calls[c] \in CallRecords /\ CallInv(hub, calls[c])
  BY CallFields DEF AgentPayInv
<1>2. PICK k \in Keys : k = calls[c].key
  BY <1>1 DEF CallInv
<1>3. PICK p \in Payments : p = hub.records[k].payment
  BY <1>2, RecordAnswers
<1>4. p # None /\ asked[p] # None /\ Answerable(hub, k, p)
  BY <1>2, <1>3, RecordAnswers, ContentsAssumption
<1>5. PICK r : r = [calls[c] EXCEPT !.at = "answer", !.payment = p, !.content = None]
  OBVIOUS
<1>6. r \in CallRecords /\ r.at = "answer" /\ r.key = k /\ r.payment = p
  BY <1>1, <1>2, <1>5 DEF CallRecords
<1>7. (r.payment # None <=> r.at \in {"record", "answer"}) /\ CallInv(hub, r)
  BY <1>4, <1>6 DEF CallInv
<1>8. calls' = [calls EXCEPT ![c] = r]
  BY <1>2, <1>3, <1>5 DEF AnswerWith
<1> QED BY <1>6, <1>7, <1>8, NarrowedCall

LEMMA LookupKeeps ==
  ASSUME AgentPayInv, NEW c \in Calls, Lookup(c)
  PROVE  AgentPayInv'
<1>1. Narrowed
  BY HubStays DEF Lookup
<1> QED BY <1>1, AnswersRecord DEF Lookup, Replays

LEMMA AdmitKeeps ==
  ASSUME AgentPayInv, NEW c \in Calls, Admit(c)
  PROVE  AgentPayInv'
<1>1. Narrowed
  BY HubStays DEF Admit
<1>2. calls[c] \in CallRecords /\ CallInv(hub, calls[c])
  BY CallFields DEF AgentPayInv
<1>3. PICK r : r = [calls[c] EXCEPT !.at = "create"]
  OBVIOUS
<1>4. /\ r \in CallRecords /\ r.at = "create" /\ r.key = calls[c].key
      /\ r.content = calls[c].content /\ r.payment = calls[c].payment
  BY <1>2, <1>3 DEF CallRecords
<1>5. calls[c].payment = None
  BY DEF AgentPayInv, TypeOK, Admit
<1>6. (r.payment # None <=> r.at \in {"record", "answer"}) /\ CallInv(hub, r)
  BY <1>2, <1>4, <1>5 DEF CallInv, Admit
<1>7. calls' = [calls EXCEPT ![c] = r] /\ UNCHANGED <<settling, crashes>>
  BY <1>3 DEF Admit, Goto
<1> QED BY <1>1, <1>4, <1>6, <1>7, NarrowedCall

(* A request ends. *)
LEMMA EndKeeps ==
  ASSUME AgentPayInv, Narrowed, NEW c \in Calls, End(c), UNCHANGED <<settling, crashes>>
  PROVE  AgentPayInv'
BY NarrowedCall, IdleCall, CallFields DEF End, AgentPayInv

LEMMA RefuseKeeps ==
  ASSUME AgentPayInv, NEW c \in Calls, Refuse(c) \/ AnswerLost(c)
  PROVE  AgentPayInv'
<1>1. Narrowed
  BY HubStays DEF Refuse, AnswerLost
<1> QED BY <1>1, EndKeeps DEF Refuse, AnswerLost

-----------------------------------------------------------------------------
(* The steps that end sessions.                                            *)
LEMMA Evicting ==
  ASSUME AgentPayInv, NEW gone \in Evictions
  PROVE  /\ gone \subseteq Payments /\ Evicted(gone) \in [Payments -> Statuses]
         /\ \A p \in Payments : hub.status[p] = "collecting" => p \notin gone
<1>1. hub.status \in [Payments -> Statuses]
  BY HubFields DEF AgentPayInv, TypeOK
<1>2. \A p \in gone : p \in Payments /\ hub.status[p] # "collecting"
  BY DEF Evictions, AtMost, Finished, Having
<1> QED BY <1>1, <1>2 DEF Evicted, Statuses

LEMMA DroppedNarrows ==
  ASSUME AgentPayInv, NEW p \in Payments, hub' = Dropped(p), UNCHANGED <<disk, history>>
  PROVE  Narrowed
<1>1. hub \in Hubs /\ hub.reserved = {q \in Payments : hub.status[q] = "collecting"}
  BY DEF AgentPayInv, TypeOK, HubInv, SessionsInv, Having
<1>2. hub.status \in [Payments -> Statuses] /\ hub.reserved \subseteq Payments
  BY <1>1, HubFields
<1>3. hub' \in Hubs
  BY <1>1 DEF Dropped, Hubs, Statuses
<1>4. /\ hub'.records = hub.records /\ hub'.invoices = hub.invoices
      /\ hub'.applied = hub.applied /\ hub'.reserved = hub.reserved \ {p}
      /\ hub'.status = [hub.status EXCEPT ![p] = "none"]
  BY <1>1 DEF Dropped, Hubs
<1> QED BY <1>1, <1>2, <1>3, <1>4 DEF Narrowed

LEMMA CreateFailsKeeps ==
  ASSUME AgentPayInv, NEW c \in Calls, NEW gone, CreateFails(c, gone)
  PROVE  AgentPayInv'
<1>1. hub \in Hubs /\ hub.reserved = {q \in Payments : hub.status[q] = "collecting"}
  BY DEF AgentPayInv, TypeOK, HubInv, SessionsInv, Having
<1>2. PICK s \in [Payments -> Statuses] : s = Evicted(gone)
  BY Evicting DEF CreateFails
<1>3. \A p \in Payments : /\ s[p] # "none" => hub.status[p] # "none"
                          /\ s[p] = "collecting" <=> hub.status[p] = "collecting"
  BY <1>2, Evicting DEF Evicted, CreateFails
<1>4. hub' = [hub EXCEPT !.status = s]
  BY <1>2 DEF CreateFails
<1>5. hub' \in Hubs
  BY <1>1, <1>4 DEF Hubs
<1>6. /\ hub'.records = hub.records /\ hub'.invoices = hub.invoices
      /\ hub'.applied = hub.applied /\ hub'.reserved = hub.reserved /\ hub'.status = s
  BY <1>1, <1>4 DEF Hubs
<1>7. Narrowed
  BY <1>1, <1>3, <1>5, <1>6 DEF Narrowed, CreateFails
<1> QED BY <1>7, EndKeeps DEF CreateFails

LEMMA RecordConflictsKeeps ==
  ASSUME AgentPayInv, NEW c \in Calls, RecordConflicts(c)
  PROVE  AgentPayInv'
<1>1. calls[c].payment \in Payments
  BY DEF AgentPayInv, CallInv, RecordConflicts
<1>2. Narrowed
  BY <1>1, DroppedNarrows DEF RecordConflicts
<1> QED BY <1>2, EndKeeps DEF RecordConflicts

LEMMA RecordReplaysKeeps ==
  ASSUME AgentPayInv, NEW c \in Calls, RecordReplays(c)
  PROVE  AgentPayInv'
<1>1. calls[c].payment \in Payments
  BY DEF AgentPayInv, CallInv, RecordReplays
<1>2. Narrowed
  BY <1>1, DroppedNarrows DEF RecordReplays
<1> QED BY <1>2, AnswersRecord DEF RecordReplays, Overtaken, Replays

(* A step of a session, outside any request. *)
LEMMA NarrowedSession ==
  ASSUME AgentPayInv, Narrowed, UNCHANGED <<calls, crashes>>, settling' \subseteq hub'.applied
  PROVE  AgentPayInv'
<1>1. HubInv(hub)' /\ HubInv(disk)' /\ AnsweredSurvives'
  BY NarrowedKeeps
<1>2. hub'.applied \subseteq Payments
  BY HubFields DEF Narrowed
<1>3. TypeOK'
  BY <1>2 DEF TypeOK, AgentPayInv, Narrowed, history
<1>4. ASSUME NEW d \in Calls PROVE CallInv(hub, calls[d])'
  <2>1. PICK s \in CallRecords : s = calls[d] /\ s = calls'[d]
    BY CallFields DEF AgentPayInv
  <2>2. CallInv(hub, s)
    BY <2>1 DEF AgentPayInv
  <2>3. CallInv(hub, s)'
    BY <2>2, NarrowedKeeps
  <2> QED BY <2>1, <2>3 DEF CallInv, Answerable
<1> QED BY <1>1, <1>3, <1>4 DEF AgentPayInv

LEMMA SettleKeeps ==
  ASSUME AgentPayInv, NEW p \in Payments, Settle(p)
  PROVE  AgentPayInv'
<1>1. hub \in Hubs /\ hub.reserved = {q \in Payments : hub.status[q] = "collecting"}
  BY DEF AgentPayInv, TypeOK, HubInv, SessionsInv, Having
<1>2. hub.status \in [Payments -> Statuses] /\ hub.reserved \subseteq Payments
  BY <1>1, HubFields
<1>3. hub' \in Hubs
  BY <1>1 DEF Settle, Hubs, Statuses
<1>4. /\ hub'.records = hub.records /\ hub'.invoices = hub.invoices
      /\ hub'.applied = hub.applied \cup {p} /\ hub'.reserved = hub.reserved \ {p}
      /\ hub'.status = [hub.status EXCEPT ![p] = "settled"]
  BY <1>1 DEF Settle, Hubs
<1>5. Narrowed
  BY <1>1, <1>2, <1>3, <1>4 DEF Narrowed, Settle
<1>6. settling' \subseteq hub'.applied
  BY <1>4 DEF Settle, AgentPayInv
<1> QED BY <1>5, <1>6, NarrowedSession DEF Settle

LEMMA FailKeeps ==
  ASSUME AgentPayInv, NEW p \in Payments, Fail(p)
  PROVE  AgentPayInv'
<1>1. hub \in Hubs /\ hub.reserved = {q \in Payments : hub.status[q] = "collecting"}
  BY DEF AgentPayInv, TypeOK, HubInv, SessionsInv, Having
<1>2. hub.status \in [Payments -> Statuses] /\ hub.reserved \subseteq Payments
  BY <1>1, HubFields
<1>3. hub' \in Hubs
  BY <1>1 DEF Fail, Hubs, Statuses
<1>4. /\ hub'.records = hub.records /\ hub'.invoices = hub.invoices
      /\ hub'.applied = hub.applied /\ hub'.reserved = hub.reserved \ {p}
      /\ hub'.status = [hub.status EXCEPT ![p] = "failed"]
  BY <1>1 DEF Fail, Hubs
<1>5. Narrowed
  BY <1>1, <1>2, <1>3, <1>4 DEF Narrowed, Fail
<1>6. settling' \subseteq hub'.applied
  BY <1>4 DEF Fail, AgentPayInv
<1> QED BY <1>5, <1>6, NarrowedSession DEF Fail

-----------------------------------------------------------------------------
(* The steps of an invoice.                                                *)
LEMMA InvoiceStep ==
  ASSUME AgentPayInv, NEW n \in [Invoices -> InvoiceRecords],
         hub' = [hub EXCEPT !.invoices = n],
         \A i \in Invoices :
           /\ n[i].payment = hub.invoices[i].payment
           /\ n[i].status = "paying" => hub.invoices[i].status = "paying"
           /\ n[i].status = "paid" => n[i].payment \in hub.applied,
         UNCHANGED <<disk, calls, history, crashes>>, settling' \subseteq settling
  PROVE  AgentPayInv'
<1> USE DEF history
<1>1. hub \in Hubs
  BY DEF AgentPayInv, TypeOK
<1>2. hub' \in Hubs
  BY <1>1 DEF Hubs, InvoiceRecords
<1>3. /\ hub'.status = hub.status /\ hub'.reserved = hub.reserved /\ hub'.applied = hub.applied
      /\ hub'.records = hub.records /\ hub'.invoices = n
  BY <1>1 DEF Hubs
<1>4. TypeOK'
  BY <1>2 DEF TypeOK, AgentPayInv
<1>5. SessionsInv(hub)' /\ RecordsInv(hub)'
  BY <1>3 DEF SessionsInv, RecordsInv, Having, AgentPayInv, HubInv
<1>6. AnswersInv(hub)'
  BY <1>3 DEF AnswersInv, Answerable, AgentPayInv, HubInv
<1>7. InvoicesInv(hub)'
  BY <1>3 DEF InvoicesInv, AgentPayInv, HubInv
<1>8. HubInv(disk)'
  BY DEF HubInv, AgentPayInv, SessionsInv, RecordsInv, InvoicesInv, AnswersInv, Answerable, Having
<1>9. AnsweredSurvives' /\ settling' \subseteq hub'.applied
  BY <1>3 DEF AnsweredSurvives, AgentPayInv
<1>10. \A d \in Calls : CallInv(hub, calls[d])'
  BY <1>3 DEF CallInv, Answerable, AgentPayInv
<1> QED BY <1>4, <1>5, <1>6, <1>7, <1>8, <1>9, <1>10 DEF AgentPayInv, HubInv

LEMMA InvoiceFields ==
  ASSUME AgentPayInv
  PROVE  /\ hub \in Hubs /\ hub.invoices \in [Invoices -> InvoiceRecords]
         /\ \A i \in Invoices : hub.invoices[i].status = "paid" =>
              hub.invoices[i].payment \in hub.applied
  BY HubFields DEF AgentPayInv, TypeOK, HubInv, InvoicesInv

LEMMA MarkPaidKeeps ==
  ASSUME AgentPayInv, NEW p \in Payments, MarkPaid(p)
  PROVE  AgentPayInv'
<1>1. p \in hub.applied
  BY DEF MarkPaid, AgentPayInv
<1>2. PICK n : n = PaidBy(p)
  OBVIOUS
<1>3. n \in [Invoices -> InvoiceRecords]
  BY <1>2, InvoiceFields DEF PaidBy, InvoiceRecords, InvoiceStatuses
<1>4. \A i \in Invoices :
        /\ n[i].payment = hub.invoices[i].payment
        /\ n[i].status = "paying" => hub.invoices[i].status = "paying"
        /\ n[i].status = "paid" => n[i].payment \in hub.applied
  BY <1>1, <1>2, InvoiceFields DEF PaidBy, InvoiceRecords
<1> QED BY <1>2, <1>3, <1>4, InvoiceStep DEF MarkPaid

LEMMA OwnInvoiceKeeps ==
  ASSUME AgentPayInv, NEW j \in Invoices, CreateInvoice(j) \/ CancelInvoice(j)
  PROVE  AgentPayInv'
<1>1. PICK s \in {"open", "cancelled"} : hub' = [hub EXCEPT !.invoices[j].status = s]
  BY DEF CreateInvoice, CancelInvoice
<1>2. PICK n : n = [hub.invoices EXCEPT ![j].status = s]
  OBVIOUS
<1>3. n \in [Invoices -> InvoiceRecords]
  BY <1>2, InvoiceFields DEF InvoiceRecords, InvoiceStatuses
<1>4. \A i \in Invoices :
        /\ n[i].payment = hub.invoices[i].payment
        /\ n[i].status = "paying" => hub.invoices[i].status = "paying"
        /\ n[i].status = "paid" => n[i].payment \in hub.applied
  BY <1>2, InvoiceFields DEF InvoiceRecords
<1>5. hub' = [hub EXCEPT !.invoices = n]
  BY <1>1, <1>2
<1> QED BY <1>3, <1>4, <1>5, InvoiceStep DEF CreateInvoice, CancelInvoice

-----------------------------------------------------------------------------
(* A snapshot knows what the memory knows.                                 *)
LEMMA ExportedInv ==
  ASSUME AgentPayInv, NEW kept, kept \in AtMost(KeptSettled, Having(hub, "settled"))
  PROVE  /\ Exported(kept) \in Hubs /\ HubInv(Exported(kept))
         /\ \A p \in Payments : hub.status[p] = "collecting" =>
              Exported(kept).status[p] = "collecting"
         /\ Exported(kept).records = hub.records
         /\ \A p \in Payments : Exported(kept).status[p] # "none" => hub.status[p] # "none"
<1>1. PICK e : e = Exported(kept)
  OBVIOUS
<1>2. hub \in Hubs /\ hub.status \in [Payments -> Statuses] /\ hub.reserved = Having(hub, "collecting")
  BY HubFields DEF AgentPayInv, TypeOK, HubInv, SessionsInv
<1>3. kept \subseteq Having(hub, "settled")
  BY DEF AtMost
<1>4. /\ e.records = hub.records /\ e.invoices = hub.invoices /\ e.applied = hub.applied
      /\ e.reserved = hub.reserved \cap (Having(hub, "collecting") \cup kept)
      /\ e.status = [p \in Payments |-> IF p \in Having(hub, "collecting") \cup kept
                                        THEN hub.status[p] ELSE "none"]
  BY <1>1, <1>2 DEF Exported, Hubs
<1>5. e \in Hubs
  BY <1>1, <1>2 DEF Exported, Hubs, Statuses
<1>6. \A p \in Payments : /\ e.status[p] = "collecting" <=> hub.status[p] = "collecting"
                          /\ e.status[p] # "none" => hub.status[p] # "none"
  BY <1>2, <1>3, <1>4 DEF Having
<1>7. SessionsInv(e)
  BY <1>2, <1>4, <1>6 DEF SessionsInv, Having, AgentPayInv, HubInv
<1>8. RecordsInv(e) /\ InvoicesInv(e)
  BY <1>4 DEF RecordsInv, InvoicesInv, AgentPayInv, HubInv
<1>9. AnswersInv(e)
  BY <1>4, <1>6 DEF AnswersInv, Answerable, AgentPayInv, HubInv, TypeOK
<1> QED BY <1>1, <1>4, <1>5, <1>6, <1>7, <1>8, <1>9 DEF HubInv

LEMMA SaveKeeps ==
  ASSUME AgentPayInv, NEW kept, Save(kept)
  PROVE  AgentPayInv'
<1> USE DEF history
<1>1. /\ disk' \in Hubs /\ HubInv(disk')
      /\ \A p \in Payments : hub.status[p] = "collecting" => disk'.status[p] = "collecting"
  BY ExportedInv DEF Save
<1>2. HubInv(disk)' /\ HubInv(hub)'
  BY <1>1 DEF Save, HubInv, AgentPayInv, SessionsInv, RecordsInv, InvoicesInv, AnswersInv,
              Answerable, Having
<1>3. TypeOK'
  BY <1>1 DEF TypeOK, AgentPayInv, Save
<1>4. AnsweredSurvives' /\ settling' \subseteq hub'.applied
  BY <1>1 DEF AnsweredSurvives, AgentPayInv, TypeOK, Save
<1>5. \A d \in Calls : CallInv(hub, calls[d])'
  BY DEF CallInv, Answerable, AgentPayInv, Save
<1> QED BY <1>2, <1>3, <1>4, <1>5 DEF AgentPayInv

LEMMA RestartKeeps ==
  ASSUME AgentPayInv, Restart
  PROVE  AgentPayInv'
<1> USE DEF history
<1>1. HubInv(disk)' /\ HubInv(hub)'
  BY DEF Restart, HubInv, AgentPayInv, SessionsInv, RecordsInv, InvoicesInv, AnswersInv,
         Answerable, Having
<1>2. /\ calls' \in [Calls -> CallRecords]
      /\ \A c \in Calls : calls'[c].at = "idle" /\ calls'[c].payment = None
  BY CallFields DEF Restart, AgentPayInv
<1>3. crashes' \in 0 .. MaxCrashes
  BY LimitsAssumption DEF Restart, AgentPayInv, TypeOK
<1>4. TypeOK'
  BY <1>2, <1>3 DEF TypeOK, AgentPayInv, Restart, CallRecords
<1>5. AnsweredSurvives' /\ settling' \subseteq hub'.applied
  BY DEF AnsweredSurvives, Restart
<1>6. \A d \in Calls : CallInv(hub, calls[d])'
  BY <1>2 DEF CallInv
<1> QED BY <1>1, <1>4, <1>5, <1>6 DEF AgentPayInv

-----------------------------------------------------------------------------
(* The steps that open a session, bind a key and give an answer.           *)
LEMMA AnswerKeeps ==
  ASSUME AgentPayInv, NEW c \in Calls, NEW kept, Answer(c, kept)
  PROVE  AgentPayInv'
<1> USE DEF history
<1>0. calls[c] \in CallRecords /\ CallInv(hub, calls[c])
  BY CallFields DEF AgentPayInv
<1>1. PICK k \in Keys, p \in Payments : k = calls[c].key /\ p = calls[c].payment
  BY <1>0 DEF CallInv, Answer
<1>2. asked[p] # None /\ Answerable(hub, k, p)
  BY <1>0, <1>1 DEF CallInv, Answer
<1>3. answers' = answers \cup {[key |-> k, payment |-> p]}
  BY <1>1 DEF Answer
<1>4. /\ disk' \in Hubs /\ HubInv(disk')
      /\ disk'.records = hub.records
      /\ \A q \in Payments : /\ hub.status[q] = "collecting" => disk'.status[q] = "collecting"
                             /\ disk'.status[q] # "none" => hub.status[q] # "none"
  BY ExportedInv DEF Answer
<1>5. AnswersInv(hub)'
  BY <1>2, <1>3 DEF AnswersInv, Answerable, AgentPayInv, HubInv, Answer
<1>6. HubInv(hub)'
  BY <1>5 DEF HubInv, AgentPayInv, SessionsInv, RecordsInv, InvoicesInv, Having, Answer
<1>7. Answerable(disk', k, p)
  BY <1>2, <1>4 DEF Answerable
<1>8. AnswersInv(disk)'
  BY <1>2, <1>3, <1>4, <1>7 DEF AnswersInv, Answerable, HubInv, Answer
<1>9. HubInv(disk)'
  BY <1>4, <1>8 DEF HubInv, SessionsInv, RecordsInv, InvoicesInv, Having, Answer
<1>10. /\ calls' \in [Calls -> CallRecords]
       /\ \A d \in Calls : calls'[d].payment # None <=> calls'[d].at \in {"record", "answer"}
       /\ \A d \in Calls : calls'[d] = Idle \/ calls'[d] = calls[d]
  BY OneCall, IdleCall, CallFields DEF Answer, End, AgentPayInv
<1>11. TypeOK'
  BY <1>1, <1>3, <1>4, <1>10 DEF TypeOK, AgentPayInv, Answer, CallRecords
<1>12. AnsweredSurvives' /\ settling' \subseteq hub'.applied
  BY <1>1, <1>3, <1>4 DEF AnsweredSurvives, AgentPayInv, TypeOK, Answer
<1>13. ASSUME NEW d \in Calls PROVE CallInv(hub, calls[d])'
  BY <1>10, CallFields DEF CallInv, Answerable, AgentPayInv, Answer
<1> QED BY <1>6, <1>9, <1>11, <1>12, <1>13 DEF AgentPayInv

LEMMA CreateKeeps ==
  ASSUME AgentPayInv, NEW c \in Calls, NEW p \in Payments, NEW gone, Create(c, p, gone)
  PROVE  AgentPayInv'
<1>0. calls[c] \in CallRecords /\ CallInv(hub, calls[c]) /\ calls[c].at = "create"
  BY CallFields DEF AgentPayInv, Create
<1>1. PICK x \in Contents : x = calls[c].content
  BY <1>0 DEF CallInv
<1>2. PICK a \in [Payments -> Contents \cup {None}] : a = asked
  BY DEF AgentPayInv, TypeOK
<1>3. /\ a[p] = None /\ x # None
      /\ asked'[p] = x /\ \A q \in Payments : q # p => asked'[q] = a[q]
      /\ asked' \in [Payments -> Contents \cup {None}]
  BY <1>1, <1>2, ContentsAssumption DEF Create
<1>4. PICK s \in [Payments -> Statuses] : s = [Evicted(gone) EXCEPT ![p] = "collecting"]
  BY Evicting DEF Create, Statuses
<1>5. /\ s[p] = "collecting"
      /\ \A q \in Payments : q # p =>
           /\ s[q] # "none" => hub.status[q] # "none"
           /\ s[q] = "collecting" <=> hub.status[q] = "collecting"
  BY <1>4, Evicting DEF Evicted, Create
<1>6. hub \in Hubs /\ hub.reserved = {q \in Payments : hub.status[q] = "collecting"}
  BY DEF AgentPayInv, TypeOK, HubInv, SessionsInv, Having
<1>7. hub' = [hub EXCEPT !.status = s, !.reserved = @ \cup {p}]
  BY <1>4 DEF Create
<1>8. hub' \in Hubs
  BY <1>6, <1>7 DEF Hubs
<1>9. /\ hub'.records = hub.records /\ hub'.invoices = hub.invoices
      /\ hub'.applied = hub.applied /\ hub'.reserved = hub.reserved \cup {p} /\ hub'.status = s
  BY <1>6, <1>7 DEF Hubs
<1>10. SessionsInv(hub)'
  BY <1>2, <1>3, <1>5, <1>6, <1>9 DEF SessionsInv, Having, AgentPayInv, HubInv
<1>11. disk' = disk /\ answers' = answers /\ forgotten' = forgotten /\ settling' = settling
       /\ crashes' = crashes
  BY DEF Create
<1>12. \A h \in {hub, disk} :
         /\ h \in Hubs /\ h.records \in [Keys -> Records \cup {NoRecord}]
         /\ h.invoices \in [Invoices -> InvoiceRecords]
         /\ RecordsInv(h) /\ InvoicesInv(h) /\ AnswersInv(h)
  BY HubFields DEF AgentPayInv, TypeOK, HubInv
<1>13. answers \subseteq [key : Keys, payment : Payments]
  BY DEF AgentPayInv, TypeOK
<1>14. ASSUME NEW h \in {hub, disk}, NEW k \in Keys, h.records[k] # NoRecord
       PROVE  h.records[k].payment # p /\ asked'[h.records[k].payment] = h.records[k].content
  <2>1. h.records[k] \in Records
    BY <1>12, <1>14
  <2>2. h.records[k].payment \in Payments /\ h.records[k].content # None
    BY <2>1, ContentsAssumption DEF Records
  <2>3. asked[h.records[k].payment] = h.records[k].content
    BY <1>12, <1>14 DEF RecordsInv
  <2> QED BY <1>2, <1>3, <2>2, <2>3
<1>15. ASSUME NEW h \in {hub, disk}, NEW i \in Invoices, h.invoices[i].payment # None
       PROVE  /\ asked'[h.invoices[i].payment] # None
              /\ InvoiceOf[asked'[h.invoices[i].payment]] = i
  <2>1. h.invoices[i].payment \in Payments
    BY <1>12, <1>15 DEF InvoiceRecords
  <2>2. asked[h.invoices[i].payment] # None /\ InvoiceOf[asked[h.invoices[i].payment]] = i
    BY <1>12, <1>15 DEF InvoicesInv
  <2> QED BY <1>2, <1>3, <2>1, <2>2
<1>16. RecordsInv(hub)' /\ RecordsInv(disk)'
  BY <1>9, <1>11, <1>14 DEF RecordsInv
<1>17. InvoicesInv(hub)' /\ InvoicesInv(disk)'
  BY <1>9, <1>11, <1>12, <1>15 DEF InvoicesInv
<1>18. ASSUME NEW k \in Keys, NEW q \in Payments, asked[q] # None, Answerable(hub, k, q)
       PROVE  asked'[q] = asked[q] /\ Answerable(hub, k, q)'
  <2>1. q # p /\ asked'[q] = asked[q]
    BY <1>2, <1>3, <1>18
  <2> QED BY <1>5, <1>9, <1>11, <1>18, <2>1 DEF Answerable
<1>19. AnswersInv(hub)'
  BY <1>11, <1>12, <1>13, <1>18 DEF AnswersInv
<1>20. ASSUME NEW k \in Keys, NEW q \in Payments, asked[q] # None, Answerable(disk, k, q)
       PROVE  asked'[q] = asked[q] /\ Answerable(disk, k, q)'
  <2>1. asked'[q] = asked[q]
    BY <1>2, <1>3, <1>20
  <2> QED BY <1>11, <1>20, <2>1 DEF Answerable
<1>21. AnswersInv(disk)'
  BY <1>11, <1>12, <1>13, <1>20 DEF AnswersInv
<1>22. SessionsInv(disk)'
  BY <1>2, <1>3, <1>11 DEF SessionsInv, Having, AgentPayInv, HubInv
<1>23. AnsweredSurvives'
  <2>1. ASSUME NEW b \in answers PROVE b.payment \in Payments /\ b.payment # p
    BY <1>2, <1>3, <1>12, <1>13 DEF AnswersInv
  <2> QED BY <1>5, <1>9, <1>11, <2>1 DEF AnsweredSurvives, AgentPayInv
<1>24. PICK r : r = [calls[c] EXCEPT !.at = "record", !.payment = p]
  OBVIOUS
<1>25. /\ r \in CallRecords /\ r.at = "record" /\ r.key = calls[c].key /\ r.content = x
       /\ r.payment = p
  BY <1>0, <1>1, <1>24 DEF CallRecords
<1>26. p # None /\ calls' = [calls EXCEPT ![c] = r]
  BY <1>24, ContentsAssumption DEF Create
<1>27. /\ calls' \in [Calls -> CallRecords]
       /\ \A d \in Calls : calls'[d].payment # None <=> calls'[d].at \in {"record", "answer"}
       /\ \A d \in Calls : calls'[d] = r \/ calls'[d] = calls[d]
  BY <1>25, <1>26, OneCall
<1>28. TypeOK'
  BY <1>3, <1>8, <1>11, <1>27 DEF TypeOK, AgentPayInv, CallRecords
<1>29. ASSUME NEW d \in Calls PROVE CallInv(hub, calls[d])'
  <2>1. CASE calls'[d] = r
    BY <1>0, <1>3, <1>25, <2>1 DEF CallInv
  <2>2. CASE calls'[d] = calls[d]
    <3>1. CallInv(hub, calls[d])
      BY DEF AgentPayInv
    <3>2. calls[d].at \in {"record", "answer"} => asked'[calls[d].payment] = asked[calls[d].payment]
      BY <1>2, <1>3, <3>1 DEF CallInv
    <3>3. calls[d].at = "answer" => Answerable(hub, calls[d].key, calls[d].payment)'
      <4> SUFFICES ASSUME calls[d].at = "answer"
                   PROVE  Answerable(hub, calls[d].key, calls[d].payment)'
        OBVIOUS
      <4>1. PICK k \in Keys, q \in Payments : k = calls[d].key /\ q = calls[d].payment
        BY <3>1 DEF CallInv
      <4>2. Answerable(hub, k, q)'
        BY <1>18, <3>1, <4>1 DEF CallInv
      <4> QED BY <2>2, <4>1, <4>2 DEF Answerable
    <3> QED BY <2>2, <3>1, <3>2, <3>3 DEF CallInv
  <2> QED BY <1>27, <2>1, <2>2
<1>30. settling' \subseteq hub'.applied
  BY <1>9, <1>11 DEF AgentPayInv
<1> QED BY <1>10, <1>16, <1>17, <1>19, <1>21, <1>22, <1>23, <1>28, <1>29, <1>30
        DEF AgentPayInv, HubInv

(* The key of a request is bound to its payment.  A payment the key was    *)
(* answered with before is gone, or this request would have been answered  *)
(* with it.                                                                *)
LEMMA RecordKeeps ==
  ASSUME AgentPayInv, NEW c \in Calls, NEW gone \in SUBSET Keys, Record(c, gone)
  PROVE  AgentPayInv'
<1>0. calls[c] \in CallRecords /\ CallInv(hub, calls[c]) /\ calls[c].at = "record"
  BY CallFields DEF AgentPayInv, Record
<1>1. PICK k \in Keys, x \in Contents, p \in Payments :
        k = calls[c].key /\ x = calls[c].content /\ p = calls[c].payment
  BY <1>0 DEF CallInv
<1>2. asked[p] = x /\ x # None
  BY <1>0, <1>1, ContentsAssumption DEF CallInv
<1>3. ~Conflicts(k, x) /\ ~Replays(k, x)
  BY <1>1 DEF Record, Overtaken
<1>4. /\ hub \in Hubs /\ hub.records \in [Keys -> Records \cup {NoRecord}]
      /\ hub.owner \in [Payments -> Principals \cup {None}]
      /\ hub.invoices \in [Invoices -> InvoiceRecords]
      /\ hub.status \in [Payments -> Statuses]
  BY HubFields DEF AgentPayInv, TypeOK
<1>5. PICK n \in [Keys -> Records \cup {NoRecord}] :
        n = [j \in Keys |-> IF j = k THEN [payment |-> p, content |-> x]
                            ELSE IF j \in gone THEN NoRecord ELSE hub.records[j]]
  BY <1>4 DEF Records
<1>6. PICK o \in [Payments -> Principals \cup {None}] : o = [hub.owner EXCEPT ![p] = PrincipalOf[k]]
  BY <1>4, KeysAssumption
<1>7. PICK i \in [Invoices -> InvoiceRecords] :
        i = [j \in Invoices |-> IF j = InvoiceOf[x] THEN [status |-> "paying", payment |-> p]
                                ELSE hub.invoices[j]]
  BY <1>4 DEF InvoiceRecords, InvoiceStatuses
<1>8. hub' = [hub EXCEPT !.records = n, !.owner = o, !.invoices = i]
  BY <1>1, <1>5, <1>6, <1>7 DEF Record, Bound
<1>9. hub' \in Hubs
  BY <1>4, <1>8 DEF Hubs, InvoiceRecords
<1>10. /\ hub'.status = hub.status /\ hub'.reserved = hub.reserved /\ hub'.applied = hub.applied
       /\ hub'.records = n /\ hub'.invoices = i
  BY <1>4, <1>8 DEF Hubs
<1>11. /\ disk' = disk /\ asked' = asked /\ answers' = answers /\ settling' = settling
       /\ crashes' = crashes /\ forgotten' = forgotten \cup gone
  BY DEF Record
<1>12. n[k].payment = p /\ n[k].content = x
  BY <1>5
<1>13. \A j \in Keys : j # k => n[j] = IF j \in gone THEN NoRecord ELSE hub.records[j]
  BY <1>5
<1>14. SessionsInv(hub)'
  BY <1>10, <1>11 DEF SessionsInv, Having, AgentPayInv, HubInv
<1>15. RecordsInv(hub)'
  BY <1>2, <1>10, <1>11, <1>12, <1>13 DEF RecordsInv, AgentPayInv, HubInv
<1>16. InvoicesInv(hub)'
  <2>1. ASSUME NEW j \in Invoices PROVE
          \/ j = InvoiceOf[x] /\ i[j].status = "paying" /\ i[j].payment = p
          \/ i[j] = hub.invoices[j]
    BY <1>7
  <2> QED BY <1>2, <1>10, <1>11, <2>1, ContentsAssumption DEF InvoicesInv, AgentPayInv, HubInv
<1>17. ASSUME NEW j \in Keys, NEW q \in Payments, Answerable(hub, j, q)
       PROVE  Answerable(hub, j, q)'
  <2>1. CASE j = k
    <3> SUFFICES ASSUME j \notin forgotten
                 PROVE  asked[q] = x /\ (hub.status[q] # "none" => q = p)
      BY <1>1, <1>10, <1>11, <1>12, <2>1, RecordFields, ContentsAssumption DEF Answerable
    <3>1. hub.records[k] # NoRecord /\ hub.records[k].content = asked[q]
      BY <1>17, <2>1 DEF Answerable
    <3>2. asked[q] = x
      BY <1>3, <3>1 DEF Conflicts
    <3>3. hub.status[hub.records[k].payment] = "none"
      BY <1>3, <3>1, <3>2 DEF Replays
    <3>4. hub.status[q] = "none"
      BY <1>17, <2>1, <3>3 DEF Answerable
    <3> QED BY <3>2, <3>4
  <2>2. CASE j # k
    BY <1>10, <1>11, <1>13, <1>17, <2>2 DEF Answerable
  <2> QED BY <2>1, <2>2
<1>18. answers \subseteq [key : Keys, payment : Payments]
  BY DEF AgentPayInv, TypeOK
<1>19. AnswersInv(hub)'
  BY <1>11, <1>17, <1>18 DEF AnswersInv, AgentPayInv, HubInv
<1>20. HubInv(disk)'
  BY <1>11 DEF HubInv, AgentPayInv, SessionsInv, RecordsInv, InvoicesInv, AnswersInv,
               Answerable, Having
<1>21. AnsweredSurvives' /\ settling' \subseteq hub'.applied
  BY <1>10, <1>11 DEF AnsweredSurvives, AgentPayInv
<1>22. PICK r : r = [calls[c] EXCEPT !.at = "answer", !.payment = p, !.content = None]
  OBVIOUS
<1>23. r \in CallRecords /\ r.at = "answer" /\ r.key = k /\ r.payment = p
  BY <1>0, <1>1, <1>22 DEF CallRecords
<1>24. p # None /\ calls' = [calls EXCEPT ![c] = r]
  BY <1>1, <1>22, ContentsAssumption DEF Record, AnswerWith
<1>25. /\ calls' \in [Calls -> CallRecords]
       /\ \A d \in Calls : calls'[d].payment # None <=> calls'[d].at \in {"record", "answer"}
       /\ \A d \in Calls : calls'[d] = r \/ calls'[d] = calls[d]
  BY <1>23, <1>24, OneCall
<1>26. TypeOK'
  BY <1>9, <1>11, <1>25 DEF TypeOK, AgentPayInv, CallRecords
<1>27. Answerable(hub, k, p)'
  BY <1>2, <1>10, <1>11, <1>12, RecordFields DEF Answerable
<1>28. ASSUME NEW d \in Calls PROVE CallInv(hub, calls[d])'
  <2>1. CASE calls'[d] = r
    BY <1>2, <1>11, <1>23, <1>27, <2>1 DEF CallInv, Answerable
  <2>2. CASE calls'[d] = calls[d]
    <3>1. CallInv(hub, calls[d])
      BY DEF AgentPayInv
    <3>2. ASSUME calls[d].at = "answer"
          PROVE  Answerable(hub, calls[d].key, calls[d].payment)'
      <4>1. PICK j \in Keys, q \in Payments : j = calls[d].key /\ q = calls[d].payment
        BY <3>1, <3>2 DEF CallInv
      <4>2. Answerable(hub, j, q)'
        BY <1>17, <3>1, <3>2, <4>1 DEF CallInv
      <4> QED BY <2>2, <4>1, <4>2 DEF Answerable
    <3> QED BY <1>11, <2>2, <3>1, <3>2 DEF CallInv
  <2> QED BY <1>25, <2>1, <2>2
<1> QED BY <1>14, <1>15, <1>16, <1>19, <1>20, <1>21, <1>26, <1>28 DEF AgentPayInv, HubInv

-----------------------------------------------------------------------------
(* AgentPayInv is inductive.                                               *)
LEMMA NextAgentPay ==
  ASSUME AgentPayInv, [Next]_vars
  PROVE  AgentPayInv'
<1>1. CASE UNCHANGED vars
  <2>1. Narrowed
    BY <1>1, HubStays DEF vars
  <2> QED BY <1>1, <2>1, NarrowedSession DEF vars, AgentPayInv
<1>2. ASSUME NEW c \in Calls, CallStep(c) PROVE AgentPayInv'
  <2>1. CASE \E k \in Keys, x \in Contents : Accept(c, k, x) \/ ReplayInvoice(c, k, x)
    BY <2>1, AcceptKeeps, ReplayInvoiceKeeps
  <2>2. CASE Lookup(c) \/ Admit(c) \/ Refuse(c) \/ AnswerLost(c)
    BY <2>2, LookupKeeps, AdmitKeeps, RefuseKeeps
  <2>3. CASE \E gone \in SUBSET Payments :
               (\E p \in Payments : Create(c, p, gone)) \/ CreateFails(c, gone)
    BY <2>3, CreateKeeps, CreateFailsKeeps
  <2>4. CASE RecordConflicts(c) \/ RecordReplays(c) \/ \E gone \in SUBSET Keys : Record(c, gone)
    BY <2>4, RecordConflictsKeeps, RecordReplaysKeeps, RecordKeeps
  <2>5. CASE \E kept \in SUBSET Payments : Answer(c, kept)
    BY <2>5, AnswerKeeps
  <2> QED BY <1>2, <2>1, <2>2, <2>3, <2>4, <2>5 DEF CallStep
<1>3. ASSUME NEW p \in Payments, Settle(p) \/ MarkPaid(p) \/ Fail(p) PROVE AgentPayInv'
  BY <1>3, SettleKeeps, MarkPaidKeeps, FailKeeps
<1>4. ASSUME NEW i \in Invoices, CreateInvoice(i) \/ CancelInvoice(i) PROVE AgentPayInv'
  BY <1>4, OwnInvoiceKeeps
<1>5. ASSUME NEW kept \in SUBSET Payments, Save(kept) PROVE AgentPayInv'
  BY <1>5, SaveKeeps
<1>6. CASE Restart
  BY <1>6, RestartKeeps
<1> QED BY <1>1, <1>2, <1>3, <1>4, <1>5, <1>6 DEF Next

LEMMA AgentPayAlways == Spec => []AgentPayInv
<1>1. Init => AgentPayInv
  BY InitAgentPay
<1>2. AgentPayInv /\ [Next]_vars => AgentPayInv'
  BY NextAgentPay
<1> QED BY <1>1, <1>2, PTL DEF Spec

LEMMA InvKeepsAnswers == AgentPayInv => AnswersKept
<1> SUFFICES ASSUME AgentPayInv PROVE KeyBound /\ AnswersStand
  BY DEF AnswersKept, AgentPayInv
<1>1. \A a \in answers : a.key \in Keys /\ Answerable(hub, a.key, a.payment)
  BY DEF AgentPayInv, TypeOK, HubInv, AnswersInv
<1>2. KeyBound
  BY <1>1 DEF KeyBound, Answerable
<1>3. AnswersStand
  BY <1>1 DEF AnswersStand, Answerable
<1> QED BY <1>2, <1>3

(***************************************************************************)
(* The answers a key was given name payments of one content, at most one   *)
(* of them known to the hub, and that one still open after a crash if it   *)
(* was open: create_agent_payment, record_agent_payment, snapshots.        *)
(***************************************************************************)
THEOREM AnswersAreKept == Spec => []AnswersKept
BY AgentPayAlways, InvKeepsAnswers, PTL

(***************************************************************************)
(* Exactly the sessions that collect signatures hold liquidity, in memory  *)
(* and in the snapshot: create_payment, its roll-backs, fail and settle.   *)
(***************************************************************************)
THEOREM SessionsHoldLiquidity == Spec => []SessionsReserve
<1>1. AgentPayInv => SessionsReserve
  BY DEF AgentPayInv, SessionsReserve, ReservedOpen, HubInv, SessionsInv
<1> QED BY AgentPayAlways, <1>1, PTL

(***************************************************************************)
(* An invoice is linked to a payment made for it, and paid only when that  *)
(* payment has settled: record_agent_payment and                           *)
(* mark_invoice_paid_for_payment.                                          *)
(***************************************************************************)
THEOREM InvoicesAreExplained == Spec => []InvoiceExplained
<1>1. AgentPayInv => InvoiceExplained
  BY DEF AgentPayInv, InvoiceExplained, HubInv, InvoicesInv
<1> QED BY AgentPayAlways, <1>1, PTL
=============================================================================
