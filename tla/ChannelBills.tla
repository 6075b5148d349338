----------------------------- MODULE ChannelBills -----------------------------
(***************************************************************************)
(* Reconciliation bills beside payments: a channel's balances are moved by *)
(* settlements and replaced by bills that both parties have signed.        *)
(*                                                                         *)
(* propose_bill looks at the hub under the read lock, checks signatures    *)
(* under none, and stores its bill under the write lock: any other request *)
(* may fall in between.  The bill drafted after a settlement, by           *)
(* auto_bill_after_settle, is such a proposal with sequence 0 and balances *)
(* read earlier; the balances of a proposal are a free choice here.        *)
(***************************************************************************)
EXTENDS ChannelLedger

CONSTANTS
  Opening,           \* the first registered balances
  MaxSequence,       \* bound: sequence numbers of bills
  MaxBalance,        \* bound: balances a caller names
  MaxProposals,      \* bound: propose_bill calls in progress
  MaxRegistrations   \* bound: later registrations

ASSUME OpeningAssumption == Opening \in Balances
ASSUME BoundsAssumption ==
  /\ MaxSequence \in Nat /\ MaxBalance \in Nat
  /\ MaxProposals \in Nat /\ MaxRegistrations \in Nat

VARIABLES
  ledger,         \* balances, reservations, applied settlements
  bill,           \* per channel: the active bill
  draft,          \* per channel: the bill that collects signatures
  proposals,      \* propose_bill calls between their two locks
  registrations

vars == <<ledger, bill, draft, proposals, registrations>>

-----------------------------------------------------------------------------
Splits == [Sides -> Nat]
Sum2(split) == split["left"] + split["right"]

(***************************************************************************)
(* The hash of a bill binds it to the hash of the one before it; prev is   *)
(* that part of the hashed text of the predecessor that can differ.        *)
(***************************************************************************)
Hashes == [sequence : Nat, split : Splits]
NoHash == [sequence |-> 0, split |-> [side \in Sides |-> 0]]
Bills == [hash : Hashes, prev : Hashes, signed : SUBSET Sides]
NoBill == [hash |-> NoHash, prev |-> NoHash, signed |-> {}]

Drafts == {b \in Bills : b.signed # Sides}
Actives == {b \in Bills : b.signed = Sides}

(* A bill is active exactly when both parties have signed it. *)
TypeOK ==
  /\ ledger \in Ledgers
  /\ bill \in [Channels -> Actives \cup {NoBill}]
  /\ draft \in [Channels -> Drafts]
  /\ proposals \in SUBSET [channel : Channels, bill : Bills]
  /\ registrations \in Nat

Init ==
  /\ ledger = [balance |-> Opening, reserved |-> {}, applied |-> {}]
  /\ bill = [c \in Channels |-> NoBill] /\ draft = bill
  /\ proposals = {} /\ registrations = 0

Idle(c) == \A p \in ledger.reserved : \A hop \in Hops[p] : hop.channel # c

-----------------------------------------------------------------------------
(* Payments.                                                               *)

ReservePayment(p) ==
  /\ p \notin ledger.applied \cup ledger.reserved /\ Reservable(ledger, p)
  /\ ledger' = Reserve(ledger, p)
  /\ UNCHANGED <<bill, draft, proposals, registrations>>

SettlePayment(p) ==
  /\ p \in ledger.reserved /\ Applicable(ledger, p)
  /\ ledger' = Apply(ledger, p)
  /\ UNCHANGED <<bill, draft, proposals, registrations>>

ReleasePayment(p) ==
  /\ p \in ledger.reserved
  /\ ledger' = Release(ledger, p)
  /\ UNCHANGED <<bill, draft, proposals, registrations>>

-----------------------------------------------------------------------------
(* Registration.                                                           *)

(* register_channel, which replaces an entry but leaves its bills alone. *)
Register(c, split) ==
  /\ registrations < MaxRegistrations
  /\ Idle(c)
  /\ ledger' = [ledger EXCEPT !.balance[c] = split]
  /\ registrations' = registrations + 1
  /\ UNCHANGED <<bill, draft, proposals>>

-----------------------------------------------------------------------------
(* Bills.                                                                  *)

\* Mutant of Conserves: the two sides are not added up.
ConservesLeft(c, split) == split["left"] <= Sum2(ledger.balance[c])

(* validate_channel_balance_conservation *)
Conserves(c, split) == Sum2(split) = Sum2(ledger.balance[c])

SequenceFor(c, asked) == IF asked = 0 THEN bill[c].hash.sequence + 1 ELSE asked

(***************************************************************************)
(* propose_bill until its signatures are checked.                          *)
(***************************************************************************)
BeginPropose(c, asked, split, signed) ==
  /\ Cardinality(proposals) < MaxProposals
  /\ Idle(c) /\ Conserves(c, split)
  /\ LET sequence == SequenceFor(c, asked)
     IN /\ sequence > bill[c].hash.sequence /\ sequence >= draft[c].hash.sequence
        /\ sequence <= MaxSequence
        /\ proposals' = proposals \cup
             {[channel |-> c,
               bill |-> [hash |-> [sequence |-> sequence, split |-> split],
                         prev |-> bill[c].hash, signed |-> signed]]}
  /\ UNCHANGED <<ledger, bill, draft, registrations>>

\* Mutant of Store: a complete bill leaves the draft where it is.
StoreBeside(c, b) ==
  IF b.signed = Sides
  THEN /\ bill' = [bill EXCEPT ![c] = b]
       /\ ledger' = [ledger EXCEPT !.balance[c] = b.hash.split]
       /\ UNCHANGED draft
  ELSE /\ draft' = [draft EXCEPT ![c] = b]
       /\ UNCHANGED <<bill, ledger>>

\* Mutant of Store: the second signature does not promote the draft.
StoreDraft(c, b) ==
  /\ draft' = [draft EXCEPT ![c] = b]
  /\ UNCHANGED <<bill, ledger>>

(***************************************************************************)
(* A bill with both signatures replaces the active one and the balances;   *)
(* any other is the draft.                                                 *)
(***************************************************************************)
Store(c, b) ==
  IF b.signed = Sides
  THEN /\ bill' = [bill EXCEPT ![c] = b]
       /\ draft' = [draft EXCEPT ![c] = NoBill]
       /\ ledger' = [ledger EXCEPT !.balance[c] = b.hash.split]
  ELSE /\ draft' = [draft EXCEPT ![c] = b]
       /\ UNCHANGED <<bill, ledger>>

\* Mutant of Current: the active bill is not looked at again.
CurrentDraftOnly(r) == draft[r.channel].hash.sequence <= r.bill.hash.sequence

(* What propose_bill finds changed when it has the write lock. *)
Current(r) ==
  /\ bill[r.channel].hash.sequence = r.bill.prev.sequence
  /\ draft[r.channel].hash.sequence <= r.bill.hash.sequence

FinishPropose(r) ==
  /\ IF Current(r) THEN Store(r.channel, r.bill) ELSE UNCHANGED <<bill, draft, ledger>>
  /\ proposals' = proposals \ {r}
  /\ UNCHANGED registrations

(* sign_bill *)
SignBill(c, side) ==
  /\ draft[c] # NoBill
  /\ Store(c, [draft[c] EXCEPT !.signed = @ \cup {side}])
  /\ UNCHANGED <<proposals, registrations>>

NamedSplits == [Sides -> 0..MaxBalance]

Next ==
  \/ \E p \in Payments : ReservePayment(p) \/ SettlePayment(p) \/ ReleasePayment(p)
  \/ \E c \in Channels :
       \/ \E split \in NamedSplits : Register(c, split)
       \/ \E asked \in 0..MaxSequence, split \in NamedSplits, signed \in SUBSET Sides :
            BeginPropose(c, asked, split, signed)
       \/ \E side \in Sides : SignBill(c, side)
  \/ \E r \in proposals : FinishPropose(r)

Spec == Init /\ [][Next]_vars

-----------------------------------------------------------------------------
(* Properties.                                                             *)

(***************************************************************************)
(* The last bill of a channel is replaced only by one with a higher        *)
(* sequence that was hashed over it, in whatever order proposals and       *)
(* signatures arrive: no evidence is lost and the chain has no gap.        *)
(***************************************************************************)
BillChain ==
  [][\A c \in Channels :
       bill'[c] # bill[c] => /\ bill'[c].hash.sequence > bill[c].hash.sequence
                             /\ bill'[c].prev = bill[c].hash]_vars

(***************************************************************************)
(* A draft can always be promoted when its second signature arrives: it is *)
(* ahead of the active bill and follows it.                                *)
(***************************************************************************)
DraftFollows ==
  \A c \in Channels : draft[c] # NoBill =>
    /\ draft[c].hash.sequence > bill[c].hash.sequence
    /\ draft[c].prev = bill[c].hash

(***************************************************************************)
(* Settlements and bills, also bills checked against balances that have    *)
(* moved since, keep the sum of a channel as it was registered, while it   *)
(* is registered once.                                                     *)
(***************************************************************************)
SumKept ==
  registrations = 0 => \A c \in Channels : Sum2(ledger.balance[c]) = Sum2(Opening[c])

(***************************************************************************)
(* What DraftFollows, BillChain and SumKept rest on: a proposal in progress*)
(* is ahead of the bill it was hashed over, and that is the active one or  *)
(* an older one; and no bill named by anybody disagrees about the sum.     *)
(***************************************************************************)
ProposalFollows(r) ==
  /\ r.bill.hash.sequence > r.bill.prev.sequence
  /\ r.bill.prev.sequence <= bill[r.channel].hash.sequence
  /\ r.bill.prev.sequence = bill[r.channel].hash.sequence => r.bill.prev = bill[r.channel].hash

SumOf(c, b) == Sum2(b.hash.split) = Sum2(Opening[c])

NamedSums ==
  registrations = 0 =>
    /\ \A c \in Channels : draft[c] # NoBill => SumOf(c, draft[c])
    /\ \A r \in proposals : SumOf(r.channel, r.bill)

InductiveInv ==
  /\ TypeOK /\ DraftFollows /\ SumKept /\ NamedSums
  /\ \A r \in proposals : ProposalFollows(r)

-----------------------------------------------------------------------------
(* What documents say and the code does not do.                            *)

(***************************************************************************)
(* "its reserved liquidity remains locked until a signed decision arrives" *)
(* (NETWORK-GLOBAL.md).                                                    *)
(***************************************************************************)
ReservedStaysLocked == Covered(ledger)
=============================================================================
