-------------------------- MODULE ChannelBillsProofs --------------------------
(***************************************************************************)
(* What holds of ChannelBills for every set of channels and payments, any  *)
(* amounts, sequence numbers and number of proposals in progress.          *)
(***************************************************************************)
EXTENDS ChannelBills, TLAPS

-----------------------------------------------------------------------------
(* Ledgers.                                                                *)

LEMMA SideFacts ==
  /\ "left" \in Sides /\ "right" \in Sides /\ "left" # "right"
  /\ Opposite("left") = "right" /\ Opposite("right") = "left"
  /\ \A side \in Sides : side = "left" \/ side = "right"
BY DEF Sides, Opposite

LEMMA BalanceFacts ==
  ASSUME NEW l \in Ledgers, NEW c \in Channels
  PROVE  /\ l.balance \in Balances /\ l.balance[c] \in Splits
         /\ l.balance[c]["left"] \in Nat /\ l.balance[c]["right"] \in Nat
         /\ l.reserved \in SUBSET Payments /\ l.applied \in SUBSET Payments
BY SideFacts DEF Ledgers, Balances, Splits

(***************************************************************************)
(* apply_reserved_settlement (state.rs) takes on every hop from one side   *)
(* what it gives to the other, and can take it.                            *)
(***************************************************************************)
LEMMA MovedFacts ==
  ASSUME NEW l \in Ledgers, NEW p \in Payments, Applicable(l, p), p \notin l.applied,
         NEW c \in Channels
  PROVE  /\ Moved(l, p, c, "left") \in Nat /\ Moved(l, p, c, "right") \in Nat
         /\ Moved(l, p, c, "left") + Moved(l, p, c, "right")
              = l.balance[c]["left"] + l.balance[c]["right"]
<1> DEFINE left == [channel |-> c, from |-> "left"]
           right == [channel |-> c, from |-> "right"]
<1>1. /\ l.balance[c]["left"] \in Nat /\ l.balance[c]["right"] \in Nat /\ Amount[p] \in Nat
  BY BalanceFacts, AmountAssumption
<1>2. /\ left \in Hops[p] => Amount[p] <= l.balance[c]["left"]
      /\ right \in Hops[p] => Amount[p] <= l.balance[c]["right"]
  BY DEF Applicable, BalanceOf
<1>3. ~(left \in Hops[p] /\ right \in Hops[p])
  <2>1. left.channel = right.channel /\ left # right
    OBVIOUS
  <2> HIDE DEF left, right
  <2> QED BY <2>1, HopsAssumption
<1>4. /\ Moved(l, p, c, "left") = IF left \in Hops[p] THEN l.balance[c]["left"] - Amount[p]
                                 ELSE IF right \in Hops[p] THEN l.balance[c]["left"] + Amount[p]
                                 ELSE l.balance[c]["left"]
      /\ Moved(l, p, c, "right") = IF right \in Hops[p] THEN l.balance[c]["right"] - Amount[p]
                                  ELSE IF left \in Hops[p] THEN l.balance[c]["right"] + Amount[p]
                                  ELSE l.balance[c]["right"]
  BY SideFacts DEF Moved
<1> HIDE DEF left, right
<1> QED BY <1>1, <1>2, <1>3, <1>4

LEMMA ApplyFacts ==
  ASSUME NEW l \in Ledgers, NEW p \in Payments, Applicable(l, p)
  PROVE  /\ Apply(l, p) \in Ledgers
         /\ \A c \in Channels : Sum2(Apply(l, p).balance[c]) = Sum2(l.balance[c])
<1>1. CASE p \in l.applied
  <2>1. Apply(l, p).balance = l.balance
    BY <1>1 DEF Apply
  <2>2. Apply(l, p) \in Ledgers
    BY <1>1, BalanceFacts DEF Apply, Ledgers
  <2> QED BY <2>1, <2>2
<1>2. CASE p \notin l.applied
  <2>1. Apply(l, p).balance = [c \in Channels |-> [side \in Sides |-> Moved(l, p, c, side)]]
    BY <1>2 DEF Apply
  <2>2. \A c \in Channels, side \in Sides : Moved(l, p, c, side) \in Nat
    BY <1>2, MovedFacts, SideFacts
  <2>3. Apply(l, p).balance \in Balances
    BY <2>1, <2>2 DEF Balances
  <2>4. Apply(l, p).reserved \in SUBSET Payments /\ Apply(l, p).applied \in SUBSET Payments
    BY DEF Apply, Ledgers
  <2>5. Apply(l, p) = [balance |-> Apply(l, p).balance, reserved |-> Apply(l, p).reserved,
                       applied |-> Apply(l, p).applied]
    BY DEF Apply
  <2>6. Apply(l, p) \in Ledgers
    BY <2>3, <2>4, <2>5 DEF Ledgers
  <2>7. ASSUME NEW c \in Channels
        PROVE  Sum2(Apply(l, p).balance[c]) = Sum2(l.balance[c])
    <3>1. /\ Apply(l, p).balance[c]["left"] = Moved(l, p, c, "left")
          /\ Apply(l, p).balance[c]["right"] = Moved(l, p, c, "right")
      BY <2>1, SideFacts
    <3> QED BY <1>2, <3>1, MovedFacts DEF Sum2
  <2> QED BY <2>6, <2>7
<1> QED BY <1>1, <1>2

LEMMA ReserveReleaseFacts ==
  ASSUME NEW l \in Ledgers, NEW p \in Payments
  PROVE  /\ Reserve(l, p) \in Ledgers /\ Reserve(l, p).balance = l.balance
         /\ Release(l, p) \in Ledgers /\ Release(l, p).balance = l.balance
BY DEF Ledgers, Reserve, Release

LEMMA SplitFacts ==
  ASSUME NEW l \in Ledgers, NEW c \in Channels, NEW split \in Splits
  PROVE  /\ [l EXCEPT !.balance[c] = split] \in Ledgers
         /\ [l EXCEPT !.balance[c] = split].balance = [l.balance EXCEPT ![c] = split]
BY DEF Ledgers, Balances, Splits

-----------------------------------------------------------------------------
(* Bills.                                                                  *)

LEMMA BillFacts ==
  /\ NoBill \in Drafts
  /\ \A b \in Bills : /\ b.hash.sequence \in Nat /\ b.hash.split \in Splits
                      /\ b.hash \in Hashes /\ b.prev \in Hashes
                      /\ b.prev.sequence \in Nat /\ b.signed \in SUBSET Sides
  /\ \A c \in Channels : TypeOK => /\ bill[c] \in Bills /\ draft[c] \in Bills
                                  /\ bill[c].hash.sequence \in Nat /\ bill[c].hash \in Hashes
                                  /\ draft[c].hash.sequence \in Nat
<1>1. NoHash \in Hashes
  BY DEF NoHash, Hashes, Splits
<1>2. NoBill \in Bills /\ NoBill.signed = {}
  BY <1>1 DEF NoBill, Bills
<1>3. NoBill \in Drafts
  BY <1>2, SideFacts DEF Drafts
<1>4. \A b \in Bills : /\ b.hash \in Hashes /\ b.prev \in Hashes /\ b.signed \in SUBSET Sides
  BY DEF Bills
<1>5. \A h \in Hashes : h.sequence \in Nat /\ h.split \in Splits
  BY DEF Hashes
<1>6. \A c \in Channels : TypeOK => bill[c] \in Bills /\ draft[c] \in Bills
  BY <1>2 DEF TypeOK, Actives, Drafts
<1> QED BY <1>3, <1>4, <1>5, <1>6
Proposals == [channel : Channels, bill : Bills]

LEMMA ProposalFacts ==
  ASSUME NEW r \in Proposals
  PROVE  r.channel \in Channels /\ r.bill \in Bills
BY DEF Proposals

(* The part of BillChain that is about one step. *)
BillGrows ==
  \A c \in Channels :
    bill'[c] # bill[c] => /\ bill'[c].hash.sequence > bill[c].hash.sequence
                          /\ bill'[c].prev = bill[c].hash

-----------------------------------------------------------------------------
(* Storing a bill.                                                         *)

LEMMA StoreTypes ==
  ASSUME TypeOK, NEW c \in Channels, NEW b \in Bills, Store(c, b)
  PROVE  /\ ledger' \in Ledgers
         /\ bill' \in [Channels -> Actives \cup {NoBill}]
         /\ draft' \in [Channels -> Drafts]
<1>1. b.hash.split \in Splits
  BY BillFacts
<1>2. CASE b.signed = Sides
  <2>1. b \in Actives
    BY <1>2 DEF Actives
  <2>2. ledger' \in Ledgers
    BY <1>1, <1>2, SplitFacts DEF Store, TypeOK
  <2>3. bill' \in [Channels -> Actives \cup {NoBill}]
    BY <1>2, <2>1 DEF Store, TypeOK
  <2>4. draft' \in [Channels -> Drafts]
    BY <1>2, BillFacts DEF Store, TypeOK
  <2> QED BY <2>2, <2>3, <2>4
<1>3. CASE b.signed # Sides
  <2>1. b \in Drafts
    BY <1>3 DEF Drafts
  <2> QED BY <1>3, <2>1 DEF Store, TypeOK
<1> QED BY <1>2, <1>3

(***************************************************************************)
(* A bill that follows the active one, stored as draft or in its place.    *)
(***************************************************************************)
LEMMA StoreFollows ==
  ASSUME TypeOK, DraftFollows, NEW c \in Channels, NEW b \in Bills, Store(c, b),
         b.hash.sequence > bill[c].hash.sequence, b.prev = bill[c].hash
  PROVE  DraftFollows' /\ BillGrows
<1>1. CASE b.signed = Sides
  <2>1. \A d \in Channels : /\ bill'[d] = IF d = c THEN b ELSE bill[d]
                            /\ draft'[d] = IF d = c THEN NoBill ELSE draft[d]
    BY <1>1 DEF Store, TypeOK
  <2>2. DraftFollows'
    BY <2>1 DEF DraftFollows
  <2>3. BillGrows
    BY <2>1 DEF BillGrows
  <2> QED BY <2>2, <2>3
<1>2. CASE b.signed # Sides
  <2>1. \A d \in Channels : /\ bill'[d] = bill[d]
                            /\ draft'[d] = IF d = c THEN b ELSE draft[d]
    BY <1>2 DEF Store, TypeOK
  <2>2. DraftFollows'
    BY <2>1 DEF DraftFollows
  <2>3. BillGrows
    BY <2>1 DEF BillGrows
  <2> QED BY <2>2, <2>3
<1> QED BY <1>1, <1>2

LEMMA StoreSums ==
  ASSUME TypeOK, SumKept, NamedSums, NEW c \in Channels, NEW b \in Bills, Store(c, b),
         registrations = 0, SumOf(c, b)
  PROVE  /\ \A d \in Channels : Sum2(ledger'.balance[d]) = Sum2(Opening[d])
         /\ \A d \in Channels : draft'[d] # NoBill => SumOf(d, draft'[d])
<1>1. /\ \A d \in Channels : Sum2(ledger.balance[d]) = Sum2(Opening[d])
      /\ \A d \in Channels : draft[d] # NoBill => SumOf(d, draft[d])
  BY DEF SumKept, NamedSums
<1>2. CASE b.signed = Sides
  <2>1. ledger'.balance = [ledger.balance EXCEPT ![c] = b.hash.split]
    <3>1. ledger' = [ledger EXCEPT !.balance[c] = b.hash.split]
      BY <1>2 DEF Store
    <3>2. ledger \in Ledgers /\ b.hash.split \in Splits
      BY BillFacts DEF TypeOK
    <3> QED BY <3>1, <3>2, SplitFacts
  <2>2. ledger.balance \in [Channels -> Splits]
    BY DEF TypeOK, Ledgers, Balances, Splits
  <2>3. \A d \in Channels : ledger'.balance[d] = IF d = c THEN b.hash.split ELSE ledger.balance[d]
    BY <2>1, <2>2
  <2>4. \A d \in Channels : draft'[d] = IF d = c THEN NoBill ELSE draft[d]
    BY <1>2 DEF Store, TypeOK
  <2> QED BY <1>1, <2>3, <2>4 DEF SumOf
<1>3. CASE b.signed # Sides
  <2>1. ledger' = ledger
    BY <1>3 DEF Store
  <2>2. \A d \in Channels : draft'[d] = IF d = c THEN b ELSE draft[d]
    BY <1>3 DEF Store, TypeOK
  <2> QED BY <1>1, <2>1, <2>2
<1> QED BY <1>2, <1>3

(***************************************************************************)
(* As active bills only grow, what a proposal in progress was hashed over  *)
(* stays the active bill or becomes an older one.                          *)
(***************************************************************************)
LEMMA ProposalsKept ==
  ASSUME TypeOK, TypeOK', NEW r \in Proposals, ProposalFollows(r), BillGrows
  PROVE  ProposalFollows(r)'
<1>1. /\ r.channel \in Channels /\ r.bill.prev.sequence \in Nat
      /\ bill[r.channel].hash.sequence \in Nat /\ bill'[r.channel].hash.sequence \in Nat
  <2>1. r.channel \in Channels /\ r.bill \in Bills
    BY ProposalFacts
  <2>2. bill[r.channel] \in Bills /\ bill'[r.channel] \in Bills
    BY <2>1, BillFacts DEF TypeOK, Actives, Drafts
  <2> QED BY <2>1, <2>2, BillFacts
<1>2. CASE bill'[r.channel] = bill[r.channel]
  BY <1>2 DEF ProposalFollows
<1>3. CASE bill'[r.channel] # bill[r.channel]
  <2>1. bill'[r.channel].hash.sequence > bill[r.channel].hash.sequence
    BY <1>1, <1>3 DEF BillGrows
  <2> QED BY <1>1, <2>1 DEF ProposalFollows
<1> QED BY <1>2, <1>3

-----------------------------------------------------------------------------
(* The steps.                                                              *)

(* A step that stores no bill and changes no registration. *)
LEMMA PaymentStep ==
  ASSUME InductiveInv, ledger' \in Ledgers,
         \A c \in Channels : Sum2(ledger'.balance[c]) = Sum2(ledger.balance[c]),
         UNCHANGED <<bill, draft, proposals, registrations>>
  PROVE  InductiveInv' /\ BillGrows
<1>1. TypeOK'
  BY DEF InductiveInv, TypeOK
<1>2. DraftFollows' /\ (\A r \in proposals' : ProposalFollows(r)')
  BY DEF InductiveInv, DraftFollows, ProposalFollows
<1>3. SumKept'
  BY DEF InductiveInv, SumKept
<1>4. NamedSums'
  BY DEF InductiveInv, NamedSums, SumOf
<1>5. BillGrows
  BY DEF BillGrows
<1> QED BY <1>1, <1>2, <1>3, <1>4, <1>5 DEF InductiveInv

LEMMA RegisterStep ==
  ASSUME InductiveInv, NEW c \in Channels, NEW split \in Splits, Register(c, split)
  PROVE  InductiveInv' /\ BillGrows
<1>1. TypeOK'
  <2>1. ledger' \in Ledgers
    BY SplitFacts DEF InductiveInv, TypeOK, Register
  <2> QED BY <2>1 DEF InductiveInv, TypeOK, Register
<1>2. DraftFollows' /\ (\A r \in proposals' : ProposalFollows(r)') /\ BillGrows
  BY DEF InductiveInv, DraftFollows, ProposalFollows, BillGrows, Register
<1>3. registrations' # 0
  BY DEF InductiveInv, TypeOK, Register
<1>4. SumKept' /\ NamedSums'
  BY <1>3 DEF SumKept, NamedSums
<1> QED BY <1>1, <1>2, <1>4 DEF InductiveInv

LEMMA BeginProposeStep ==
  ASSUME InductiveInv, NEW c \in Channels, NEW asked \in Nat, NEW split \in Splits,
         NEW signed \in SUBSET Sides, BeginPropose(c, asked, split, signed)
  PROVE  InductiveInv' /\ BillGrows
<1> DEFINE sequence == SequenceFor(c, asked)
           new == [hash |-> [sequence |-> sequence, split |-> split],
                   prev |-> bill[c].hash, signed |-> signed]
<1>1. /\ UNCHANGED <<ledger, bill, draft, registrations>>
      /\ proposals' = proposals \cup {[channel |-> c, bill |-> new]}
      /\ sequence > bill[c].hash.sequence
      /\ Conserves(c, split)
  BY DEF BeginPropose
<1>2. TypeOK
  BY DEF InductiveInv
<1>3. bill[c].hash \in Hashes /\ bill[c].hash.sequence \in Nat
  BY <1>2, BillFacts
<1>4. sequence \in Nat
  BY <1>3 DEF SequenceFor
<1>5. new \in Bills /\ new.hash.sequence = sequence /\ new.prev = bill[c].hash
      /\ new.hash.split = split
  BY <1>3, <1>4 DEF Bills, Hashes
<1> HIDE DEF sequence, new
<1>6. PICK r \in Proposals : r = [channel |-> c, bill |-> new]
  BY <1>5 DEF Proposals
<1>7. /\ proposals' = proposals \cup {r} /\ r.channel = c
      /\ r.bill.hash.sequence = sequence /\ r.bill.prev = bill[c].hash
      /\ r.bill.hash.split = split
  BY <1>1, <1>5, <1>6
<1>8. TypeOK'
  BY <1>1, <1>2, <1>7 DEF TypeOK, Proposals
<1>9. DraftFollows' /\ SumKept' /\ BillGrows
  BY <1>1 DEF InductiveInv, DraftFollows, SumKept, BillGrows
<1>10. \A s \in proposals' : ProposalFollows(s)'
  <2>1. ProposalFollows(r)'
    BY <1>1, <1>3, <1>4, <1>7 DEF ProposalFollows
  <2>2. ASSUME NEW s \in proposals PROVE ProposalFollows(s)'
    BY <1>1, <2>2 DEF InductiveInv, ProposalFollows
  <2> QED BY <1>7, <2>1, <2>2
<1>11. NamedSums'
  <2>1. registrations = 0 => SumOf(r.channel, r.bill)
    BY <1>1, <1>7 DEF InductiveInv, SumKept, SumOf, Conserves
  <2> QED BY <1>1, <1>7, <2>1 DEF InductiveInv, NamedSums, SumOf
<1> QED BY <1>8, <1>9, <1>10, <1>11 DEF InductiveInv

(* A bill is stored, and proposals in progress end or go on. *)
LEMMA StoreStep ==
  ASSUME InductiveInv, NEW c \in Channels, NEW b \in Bills, Store(c, b),
         b.hash.sequence > bill[c].hash.sequence, b.prev = bill[c].hash,
         registrations = 0 => SumOf(c, b),
         proposals' \subseteq proposals, registrations' = registrations
  PROVE  InductiveInv' /\ BillGrows
<1>1. TypeOK /\ DraftFollows /\ SumKept /\ NamedSums
  BY DEF InductiveInv
<1>2. TypeOK'
  BY <1>1, StoreTypes DEF TypeOK
<1>3. DraftFollows' /\ BillGrows
  BY <1>1, StoreFollows
<1>4. \A r \in proposals' : ProposalFollows(r)'
  <2> SUFFICES ASSUME NEW r \in proposals' PROVE ProposalFollows(r)'
    OBVIOUS
  <2>1. r \in Proposals /\ ProposalFollows(r)
    BY <1>1 DEF InductiveInv, TypeOK, Proposals
  <2> QED BY <1>1, <1>2, <1>3, <2>1, ProposalsKept
<1>5. SumKept' /\ NamedSums'
  <2>1. CASE registrations = 0
    <3>1. /\ \A d \in Channels : Sum2(ledger'.balance[d]) = Sum2(Opening[d])
          /\ \A d \in Channels : draft'[d] # NoBill => SumOf(d, draft'[d])
      BY <1>1, <2>1, StoreSums
    <3>2. \A r \in proposals' : SumOf(r.channel, r.bill)
      BY <1>1, <2>1 DEF NamedSums
    <3> QED BY <3>1, <3>2 DEF SumKept, NamedSums, SumOf
  <2>2. CASE registrations # 0
    BY <2>2 DEF SumKept, NamedSums
  <2> QED BY <2>1, <2>2
<1> QED BY <1>2, <1>3, <1>4, <1>5 DEF InductiveInv

LEMMA FinishProposeStep ==
  ASSUME InductiveInv, NEW r \in proposals, FinishPropose(r)
  PROVE  InductiveInv' /\ BillGrows
<1>1. TypeOK /\ ProposalFollows(r) /\ NamedSums
  BY DEF InductiveInv
<1>2. r.channel \in Channels /\ r.bill \in Bills
  BY <1>1, ProposalFacts DEF TypeOK, Proposals
<1>3. proposals' \subseteq proposals /\ registrations' = registrations
  BY DEF FinishPropose
<1>4. CASE Current(r)
  <2>1. /\ Store(r.channel, r.bill)
        /\ r.bill.prev = bill[r.channel].hash
        /\ r.bill.hash.sequence > bill[r.channel].hash.sequence
    BY <1>1, <1>4 DEF FinishPropose, Current, ProposalFollows
  <2>2. registrations = 0 => SumOf(r.channel, r.bill)
    BY <1>1 DEF NamedSums
  <2> QED BY <1>2, <1>3, <2>1, <2>2, StoreStep
<1>5. CASE ~Current(r)
  <2>1. UNCHANGED <<bill, draft, ledger>>
    BY <1>5 DEF FinishPropose
  <2>2. TypeOK'
    BY <1>1, <1>3, <2>1 DEF TypeOK
  <2>3. DraftFollows' /\ SumKept' /\ BillGrows
    BY <1>3, <2>1 DEF InductiveInv, DraftFollows, SumKept, BillGrows
  <2>4. NamedSums' /\ (\A s \in proposals' : ProposalFollows(s)')
    BY <1>3, <2>1 DEF InductiveInv, NamedSums, SumOf, ProposalFollows
  <2> QED BY <2>2, <2>3, <2>4 DEF InductiveInv
<1> QED BY <1>4, <1>5

LEMMA SignBillStep ==
  ASSUME InductiveInv, NEW c \in Channels, NEW side \in Sides, SignBill(c, side)
  PROVE  InductiveInv' /\ BillGrows
<1> DEFINE b == [draft[c] EXCEPT !.signed = @ \cup {side}]
<1>1. TypeOK /\ DraftFollows /\ NamedSums
  BY DEF InductiveInv
<1>2. draft[c] \in Bills
  BY <1>1, BillFacts
<1>3. b \in Bills /\ b.hash = draft[c].hash /\ b.prev = draft[c].prev
  BY <1>2 DEF Bills
<1>4. Store(c, b) /\ draft[c] # NoBill
      /\ proposals' \subseteq proposals /\ registrations' = registrations
  BY DEF SignBill
<1> HIDE DEF b
<1>5. b.hash.sequence > bill[c].hash.sequence /\ b.prev = bill[c].hash
  BY <1>1, <1>3, <1>4 DEF DraftFollows
<1>6. registrations = 0 => SumOf(c, b)
  BY <1>1, <1>3, <1>4 DEF NamedSums, SumOf
<1> QED BY <1>3, <1>4, <1>5, <1>6, StoreStep

-----------------------------------------------------------------------------
(* Theorems.                                                               *)

LEMMA InitInv == Init => InductiveInv
<1> SUFFICES ASSUME Init PROVE InductiveInv
  OBVIOUS
<1>1. TypeOK
  <2>1. ledger \in Ledgers
    BY OpeningAssumption DEF Init, Ledgers
  <2> QED BY <2>1, BillFacts DEF Init, TypeOK
<1>2. DraftFollows /\ NamedSums /\ (\A r \in proposals : ProposalFollows(r))
  BY DEF Init, DraftFollows, NamedSums
<1>3. SumKept
  BY DEF Init, SumKept
<1> QED BY <1>1, <1>2, <1>3 DEF InductiveInv

LEMMA StepInv ==
  ASSUME InductiveInv, [Next]_vars
  PROVE  InductiveInv' /\ BillGrows
<1>1. TypeOK /\ ledger \in Ledgers
  BY DEF InductiveInv, TypeOK
<1>2. ASSUME NEW p \in Payments, ReservePayment(p) \/ SettlePayment(p) \/ ReleasePayment(p)
      PROVE  InductiveInv' /\ BillGrows
  <2>1. UNCHANGED <<bill, draft, proposals, registrations>>
    BY <1>2 DEF ReservePayment, SettlePayment, ReleasePayment
  <2>2. /\ ledger' \in Ledgers
        /\ \A c \in Channels : Sum2(ledger'.balance[c]) = Sum2(ledger.balance[c])
    <3>1. CASE ReservePayment(p) \/ ReleasePayment(p)
      BY <1>1, <3>1, ReserveReleaseFacts DEF ReservePayment, ReleasePayment
    <3>2. CASE SettlePayment(p)
      BY <1>1, <3>2, ApplyFacts DEF SettlePayment
    <3> QED BY <1>2, <3>1, <3>2
  <2> QED BY <2>1, <2>2, PaymentStep
<1>3. ASSUME NEW c \in Channels, NEW split \in NamedSplits, Register(c, split)
      PROVE  InductiveInv' /\ BillGrows
  <2>1. split \in Splits
    BY BoundsAssumption DEF NamedSplits, Splits
  <2> QED BY <1>3, <2>1, RegisterStep
<1>4. ASSUME NEW c \in Channels, NEW asked \in 0..MaxSequence, NEW split \in NamedSplits,
             NEW signed \in SUBSET Sides, BeginPropose(c, asked, split, signed)
      PROVE  InductiveInv' /\ BillGrows
  <2>1. split \in Splits /\ asked \in Nat
    BY BoundsAssumption DEF NamedSplits, Splits
  <2> QED BY <1>4, <2>1, BeginProposeStep
<1>5. ASSUME NEW c \in Channels, NEW side \in Sides, SignBill(c, side)
      PROVE  InductiveInv' /\ BillGrows
  BY <1>5, SignBillStep
<1>6. ASSUME NEW r \in proposals, FinishPropose(r)
      PROVE  InductiveInv' /\ BillGrows
  BY <1>6, FinishProposeStep
<1>7. CASE UNCHANGED vars
  <2>1. UNCHANGED <<bill, draft, proposals, registrations>> /\ ledger' = ledger
    BY <1>7 DEF vars
  <2> QED BY <1>1, <2>1, PaymentStep
<1> QED BY <1>2, <1>3, <1>4, <1>5, <1>6, <1>7 DEF Next

(***************************************************************************)
(* The inductive invariant holds in every state: types, draft bills ahead  *)
(* of the active one, proposals in progress hashed over it or an older     *)
(* one, and sums (propose_bill, sign_bill, register_channel, settlements). *)
(***************************************************************************)
THEOREM Invariance == Spec => []InductiveInv
<1>1. InductiveInv /\ [Next]_vars => InductiveInv'
  BY StepInv
<1> QED BY InitInv, <1>1, PTL DEF Spec

(* Bills, drafts, ledgers and proposals keep their types. *)
THEOREM TypeCorrect == Spec => []TypeOK
<1>1. InductiveInv => TypeOK
  BY DEF InductiveInv
<1> QED BY Invariance, <1>1, PTL

(* A draft in sign_bill can always take the active bill's place. *)
THEOREM DraftsFollow == Spec => []DraftFollows
<1>1. InductiveInv => DraftFollows
  BY DEF InductiveInv
<1> QED BY Invariance, <1>1, PTL

(***************************************************************************)
(* While channels are registered once, the two balances of each add up to  *)
(* what was registered, whatever payments settle and bills are signed.     *)
(***************************************************************************)
THEOREM SumsKept == Spec => []SumKept
<1>1. InductiveInv => SumKept
  BY DEF InductiveInv
<1> QED BY Invariance, <1>1, PTL

(***************************************************************************)
(* The active bill of a channel is replaced only by one of a higher        *)
(* sequence hashed over it.                                                *)
(***************************************************************************)
THEOREM BillsChain == Spec => BillChain
<1>1. InductiveInv /\ [Next]_vars =>
        [\A c \in Channels :
           bill'[c] # bill[c] => /\ bill'[c].hash.sequence > bill[c].hash.sequence
                                 /\ bill'[c].prev = bill[c].hash]_vars
  BY StepInv DEF BillGrows
<1> QED BY Invariance, <1>1, PTL DEF Spec, BillChain
===============================================================================
