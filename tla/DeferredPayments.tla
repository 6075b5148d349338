--------------------------- MODULE DeferredPayments ---------------------------
(***************************************************************************)
(* Deferred payments: an order to create a payment after a given time.     *)
(* HTTP callers and the background loop promote orders that are due.  Each *)
(* promotion reads the order under one lock, creates a payment, and writes *)
(* the order under another lock; nothing is held in between.  The loop     *)
(* lists what is due first and marks an order it could not promote failed. *)
(*                                                                         *)
(* Creating a payment is the subject of AgentPay and HubRecovery: here it  *)
(* gives a new payment or an error.                                        *)
(***************************************************************************)
EXTENDS FiniteSets, Integers

CONSTANTS
  Orders,        \* identifiers of deferred payments
  Promoters,     \* HTTP requests that promote an order
  Loop,          \* the background task payment_ttl_loop
  MaxTime,       \* bound: the clock
  MaxCreated,    \* bound: payments created for one order
  MaxReboots,    \* bound
  NoOrder

ASSUME OrdersAssumption ==
  /\ NoOrder \notin Orders /\ Loop \notin Promoters
  /\ MaxTime \in Nat /\ MaxCreated \in Nat /\ MaxReboots \in Nat

VARIABLES
  orders,      \* [Orders -> status, due time, payment it names]
  clock,
  created,     \* number of payments created for each order so far
  promotions,  \* promotions in progress
  due,         \* orders the loop has listed and not yet tried
  kept,        \* the snapshot
  raced,       \* history: orders with two promotions at once
  reopened,    \* history: orders the loop marked failed after they had ended
  reboots

deferredVars == <<orders, clock, created, promotions, due, kept, raced, reopened, reboots>>

-----------------------------------------------------------------------------
Tasks == Promoters \cup {Loop}
Ended == {"promoted", "cancelled"}
NoTask == [at |-> "idle", order |-> NoOrder, payment |-> 0]
OrderRecords == [status : {"none", "scheduled", "ready", "failed"} \cup Ended,
                 after : 0 .. MaxTime, payment : 0 .. MaxCreated]

DeferredTypeOK ==
  /\ orders \in [Orders -> OrderRecords] /\ kept.orders \in [Orders -> OrderRecords]
  /\ created \in [Orders -> 0 .. MaxCreated] /\ kept.created \in [Orders -> 0 .. MaxCreated]
  /\ promotions \in [Tasks -> [at : {"idle", "create", "mark", "fail"},
                               order : Orders \cup {NoOrder}, payment : 0 .. MaxCreated]]
  /\ \A t \in Tasks : promotions[t].at = "idle" <=> promotions[t].order = NoOrder
  /\ clock \in 0 .. MaxTime /\ due \subseteq Orders
  /\ raced \subseteq Orders /\ reopened \subseteq Orders /\ reboots \in 0 .. MaxReboots

DeferredInit ==
  /\ orders = [o \in Orders |-> [status |-> "none", after |-> 0, payment |-> 0]]
  /\ clock = 0 /\ due = {} /\ created = [o \in Orders |-> 0]
  /\ promotions = [t \in Tasks |-> NoTask]
  /\ kept = [orders |-> orders, created |-> created]
  /\ raced = {} /\ reopened = {} /\ reboots = 0

-----------------------------------------------------------------------------
(* create_deferred: ready when the time is now or past. *)
CreateDeferred(o, after) ==
  /\ orders[o].status = "none"
  /\ orders' = [orders EXCEPT ![o] = [status |-> IF after <= clock THEN "ready" ELSE "scheduled",
                                      after |-> after, payment |-> 0]]
  /\ UNCHANGED <<clock, created, promotions, due, kept, raced, reopened, reboots>>

CancelDeferred(o) ==
  /\ orders[o].status \notin Ended \cup {"none"}
  /\ orders' = [orders EXCEPT ![o].status = "cancelled"]
  /\ UNCHANGED <<clock, created, promotions, due, kept, raced, reopened, reboots>>

InProgressFor(o) == {t \in Tasks : promotions[t].order = o /\ promotions[t].at # "fail"}

\* Mutant of Promotable: a promoted order may be promoted again.
PromotableTwice(o) ==
  orders[o].status \notin {"cancelled", "none"} /\ orders[o].after <= clock

\* Mutant of Promotable: a cancelled order may be promoted.
PromotableCancelled(o) ==
  orders[o].status \notin {"promoted", "none"} /\ orders[o].after <= clock

(* An order that is neither promoted nor cancelled, and due. *)
Promotable(o) == orders[o].status \notin Ended \cup {"none"} /\ orders[o].after <= clock

(***************************************************************************)
(* promote_deferred, first part: the order is read, and the lock let go.   *)
(***************************************************************************)
Promote(t, o) ==
  /\ Promotable(o)
  /\ promotions' = [promotions EXCEPT ![t] = [at |-> "create", order |-> o, payment |-> 0]]
  /\ raced' = IF InProgressFor(o) # {} THEN raced \cup {o} ELSE raced

BeginPromote(t) ==
  /\ promotions[t].at = "idle"
  /\ \E o \in Orders : Promote(t, o)
  /\ UNCHANGED <<orders, clock, created, due, kept, reopened, reboots>>

(* create_payment: a payment, or an error that the loop will record. *)
CreateForOrder(t) ==
  LET o == promotions[t].order
  IN /\ promotions[t].at = "create"
     /\ \/ /\ created[o] < MaxCreated
           /\ created' = [created EXCEPT ![o] = @ + 1]
           /\ promotions' = [promotions EXCEPT ![t].at = "mark", ![t].payment = created[o] + 1]
        \/ /\ promotions' = IF t = Loop THEN [promotions EXCEPT ![t].at = "fail"]
                                        ELSE [promotions EXCEPT ![t] = NoTask]
           /\ UNCHANGED created
     /\ UNCHANGED <<orders, clock, due, kept, raced, reopened, reboots>>

\* Mutant of MarkPromoted: the payment is not stored in the order.
MarkWithoutPayment(t) ==
  /\ promotions[t].at = "mark"
  /\ orders' = [orders EXCEPT ![promotions[t].order].status = "promoted"]
  /\ promotions' = [promotions EXCEPT ![t] = NoTask]
  /\ UNCHANGED <<clock, created, due, kept, raced, reopened, reboots>>

(***************************************************************************)
(* Second part: the order is promoted, whatever it has become meanwhile.   *)
(***************************************************************************)
MarkPromoted(t) ==
  /\ promotions[t].at = "mark"
  /\ orders' = [orders EXCEPT ![promotions[t].order].status = "promoted",
                              ![promotions[t].order].payment = promotions[t].payment]
  /\ promotions' = [promotions EXCEPT ![t] = NoTask]
  /\ UNCHANGED <<clock, created, due, kept, raced, reopened, reboots>>

(* promote_due_deferred: what is due is listed, failed orders are not. *)
ListDue ==
  /\ promotions[Loop].at = "idle" /\ due = {}
  /\ due' = {o \in Orders : orders[o].status \in {"scheduled", "ready"} /\ orders[o].after <= clock}
  /\ due' # {}
  /\ UNCHANGED <<orders, clock, created, promotions, kept, raced, reopened, reboots>>

(* It takes one after the other; one that cannot be promoted now fails. *)
TryDue(o) ==
  /\ promotions[Loop].at = "idle" /\ o \in due /\ due' = due \ {o}
  /\ \/ Promote(Loop, o)
     \/ /\ ~ Promotable(o)
        /\ promotions' = [promotions EXCEPT ![Loop] = [at |-> "fail", order |-> o, payment |-> 0]]
        /\ UNCHANGED raced
  /\ UNCHANGED <<orders, clock, created, kept, reopened, reboots>>

\* Mutant of MarkFailed: the loop does not forget the order.
MarkFailedAgain ==
  /\ promotions[Loop].at = "fail"
  /\ orders' = [orders EXCEPT ![promotions[Loop].order].status = "failed"]
  /\ promotions' = [promotions EXCEPT ![Loop].at = "idle"]
  /\ UNCHANGED <<clock, created, due, kept, raced, reopened, reboots>>

(* The loop marks the order failed, without looking at its status. *)
MarkFailed ==
  LET o == promotions[Loop].order
  IN /\ promotions[Loop].at = "fail"
     /\ orders' = [orders EXCEPT ![o].status = "failed"]
     /\ reopened' = IF orders[o].status \in Ended THEN reopened \cup {o} ELSE reopened
     /\ promotions' = [promotions EXCEPT ![Loop] = NoTask]
     /\ UNCHANGED <<clock, created, due, kept, raced, reboots>>

PassTime ==
  /\ clock < MaxTime /\ clock' = clock + 1
  /\ UNCHANGED <<orders, created, promotions, due, kept, raced, reopened, reboots>>

(* The snapshot takes orders and payments under one lock. *)
SaveOrders ==
  /\ kept' = [orders |-> orders, created |-> created] /\ kept' # kept
  /\ UNCHANGED <<orders, clock, created, promotions, due, raced, reopened, reboots>>

Reboot ==
  /\ reboots < MaxReboots /\ reboots' = reboots + 1
  /\ orders' = kept.orders /\ created' = kept.created
  /\ promotions' = [t \in Tasks |-> NoTask] /\ due' = {}
  /\ UNCHANGED <<clock, kept, raced, reopened>>

DeferredStep ==
  \/ \E o \in Orders : \/ \E after \in 0 .. MaxTime : CreateDeferred(o, after)
                       \/ CancelDeferred(o) \/ TryDue(o)
  \/ \E t \in Promoters : BeginPromote(t)
  \/ \E t \in Tasks : CreateForOrder(t) \/ MarkPromoted(t)
  \/ ListDue \/ MarkFailed \/ PassTime \/ SaveOrders \/ Reboot

DeferredSpec == DeferredInit /\ [][DeferredStep]_deferredVars

-----------------------------------------------------------------------------
(* Properties.                                                             *)

(* A promoted order names a payment that was created for it, also after a  *)
(* restart; in progress, what will be named exists.                        *)
PromotedNamesPayment ==
  /\ \A o \in Orders : /\ orders[o].payment <= created[o]
                       /\ orders[o].status = "promoted" => orders[o].payment # 0
  /\ \A t \in Tasks :
       promotions[t].at = "mark" => promotions[t].payment \in 1 .. created[promotions[t].order]

(* An order is paid at most once while it is alone with its promoter: more *)
(* payments need two promotions at once, the loop failing an order that    *)
(* had ended, or a restart that lost the promotion and kept the payment.   *)
PaidOnceAlone ==
  \A o \in Orders :
    o \notin raced \cup reopened /\ reboots = 0 =>
      created[o] + Cardinality({t \in Tasks : promotions[t].at = "create"
                                                /\ promotions[t].order = o}) <= 1

(* A promoted order has its payment, and one alone with its promoter has one. *)
OrdersPaidOnce == DeferredTypeOK /\ PromotedNamesPayment /\ PaidOnceAlone

(* A cancelled order that no promotion and not the loop has read stays     *)
(* cancelled, gets no payment, and is not taken up again.                  *)
CancelledOut(o) ==
  /\ orders[o].status = "cancelled" /\ InProgressFor(o) = {} /\ o \notin due
  /\ promotions[Loop].order # o

StaysOut(o) ==
  /\ orders'[o].status = "cancelled" /\ created'[o] = created[o]
  /\ InProgressFor(o)' = {} /\ o \notin due'

CancelStands == \A o \in Orders : CancelledOut(o) => reboots' # reboots \/ StaysOut(o)

CancelHolds == [][CancelStands]_deferredVars
=============================================================================
