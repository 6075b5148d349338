---------------------------- MODULE ChannelLedger ----------------------------
(***************************************************************************)
(* The balances of one hub's channels, the liquidity reserved on them and  *)
(* the settlements applied to them: the ledger operations of src/state.rs  *)
(* as functions from ledger to ledger.  Every one of them runs under the   *)
(* hub's write lock.                                                       *)
(*                                                                         *)
(* HAC and satoshi are checked and moved side by side in the same way; the *)
(* amount here is one of them.                                             *)
(***************************************************************************)
EXTENDS Naturals, FiniteSets, FiniteSetsExt

CONSTANTS
  Channels,   \* channels registered on this hub
  Payments,   \* payments with a hop on one of them
  Hops,       \* per payment: the local hops, as channel and paying side
  Amount      \* per payment: the amount every hop moves

Sides == {"left", "right"}
Opposite(side) == IF side = "left" THEN "right" ELSE "left"

\* A payment id is a hash: there are finitely many.
ASSUME PaymentsAssumption == IsFiniteSet(Payments)
\* A route does not repeat a channel (create_payment_mode refuses it).
ASSUME HopsAssumption ==
  /\ Hops \in [Payments -> SUBSET [channel : Channels, from : Sides]]
  /\ \A p \in Payments : \A hop, other \in Hops[p] : hop.channel = other.channel => hop = other
ASSUME AmountAssumption == Amount \in [Payments -> Nat \ {0}]

Balances == [Channels -> [Sides -> Nat]]
Ledgers == [balance : Balances, reserved : SUBSET Payments, applied : SUBSET Payments]

Total(payments) == MapThenSumSet(LAMBDA p : Amount[p], payments)

Held(l, hop) == Total({p \in l.reserved : hop \in Hops[p]})

BalanceOf(l, hop) == l.balance[hop.channel][hop.from]

\* Mutant of Reservable: other reservations are not counted.
ReservableAlone(l, p) == \A hop \in Hops[p] : Amount[p] <= BalanceOf(l, hop)

(***************************************************************************)
(* reserve_payment_liquidity: what is not yet reserved in that direction   *)
(* must cover the amount, on every hop, or nothing is reserved.            *)
(***************************************************************************)
Reservable(l, p) == \A hop \in Hops[p] : Held(l, hop) + Amount[p] <= BalanceOf(l, hop)

Reserve(l, p) == [l EXCEPT !.reserved = @ \cup {p}]

Release(l, p) == IF p \in l.applied THEN l ELSE [l EXCEPT !.reserved = @ \ {p}]

(***************************************************************************)
(* apply_reserved_settlement and apply_distributed_reserved_settlement:    *)
(* all hops pass the balance check before any of them moves.               *)
(***************************************************************************)
Applicable(l, p) ==
  \/ p \in l.applied
  \/ p \in l.reserved /\ \A hop \in Hops[p] : Amount[p] <= BalanceOf(l, hop)

Moved(l, p, c, side) ==
  IF [channel |-> c, from |-> side] \in Hops[p] THEN l.balance[c][side] - Amount[p]
  ELSE IF [channel |-> c, from |-> Opposite(side)] \in Hops[p]
       THEN l.balance[c][side] + Amount[p]
       ELSE l.balance[c][side]

\* Mutant of Apply: applied_settlements is not consulted.
ApplyAgain(l, p) ==
  [balance |-> [c \in Channels |-> [side \in Sides |-> Moved(l, p, c, side)]],
   reserved |-> l.reserved \ {p}, applied |-> l.applied \cup {p}]

Apply(l, p) ==
  [balance |-> IF p \in l.applied THEN l.balance
               ELSE [c \in Channels |-> [side \in Sides |-> Moved(l, p, c, side)]],
   reserved |-> l.reserved \ {p}, applied |-> l.applied \cup {p}]

(***************************************************************************)
(* prepare_distributed_reservation, which may be repeated.                 *)
(***************************************************************************)
Preparable(l, p) == p \in l.applied \cup l.reserved \/ Reservable(l, p)

Prepare(l, p) == IF p \in l.applied THEN l ELSE Reserve(l, p)

(***************************************************************************)
(* What reservations are for: on no channel, in no direction, is more      *)
(* reserved than there is.                                                 *)
(***************************************************************************)
Covered(l) ==
  \A c \in Channels, side \in Sides :
    Held(l, [channel |-> c, from |-> side]) <= l.balance[c][side]
=============================================================================
