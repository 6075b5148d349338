--------------------------- MODULE HubRecoveryProofs ---------------------------
(***************************************************************************)
(* The ledger of a hub that restarts, for any channels, routes, amounts,   *)
(* kinds of payments and any number of crashes.  InductiveInv says what    *)
(* holds of the journal (EntryInv), the memory (MemoryInv), the image on   *)
(* its way to the file and the file (FilesInv) and, as long as this hub has*)
(* created no payment of its own, why the replay of recover_local fits the *)
(* balances (ReplayableInv).                                               *)
(***************************************************************************)
EXTENDS HubRecovery, FiniteSetTheorems, SequenceTheorems, TLAPS

(* What a set of payments takes from one side of a channel. *)
Out(payments, c, side) ==
  Total({p \in payments : [channel |-> c, from |-> side] \in Hops[p]})

Explained(l) ==
  \A c \in Channels, side \in Sides :
    l.balance[c][side] + Out(l.applied, c, side)
      = Opening[c][side] + Out(l.applied, c, Opposite(side))

LedgerInv(l) ==
  l \in Ledgers /\ Covered(l) /\ Explained(l) /\ l.reserved \cap l.applied = {}

(***************************************************************************)
(* The registered balances, with what the payments of arrived bring, cover *)
(* the payments of taken.                                                  *)
(***************************************************************************)
Room(taken, arrived) ==
  \A c \in Channels, side \in Sides :
    Out(taken, c, side) <= Opening[c][side] + Out(arrived, c, Opposite(side))

Decided == {p \in Payments : journal.state[p] \in CommitSide}
PreparedOnes == {p \in Payments : journal.state[p] = "Prepared"}

(* Which states the journal can have of a payment. *)
EntryInv(p) ==
  /\ p \in Local => journal.state[p] = "none"
  /\ p \in Coordinated /\ journal.state[p] # "none" => p \in created
  /\ p \in Participated => journal.state[p] \notin {"Preparing", "AbortDecided"}
  /\ p \in preparing => journal.state[p] = "Preparing"

(* A payment in the memory of a serving hub: session, ledger and journal.  *)
PaymentInv(p) ==
  /\ session[p] # "none" => p \in created
  /\ session[p] = "settled" => p \in ledger.applied
  /\ p \in ledger.reserved =>
       \/ session[p] \in {"collecting", "committing"}
       \/ p \in Participated /\ journal.state[p] \in {"Prepared", "CommitDecided"}
  /\ p \in ledger.applied => IF p \in Local THEN p \in created
                                            ELSE journal.state[p] \in CommitSide
  /\ journal.state[p] = "Committed" => p \in ledger.applied
  /\ p \in Participated /\ journal.state[p] = "Prepared" => p \in ledger.reserved
  /\ p \in Participated /\ journal.state[p] \in CommitSide =>
       p \in ledger.applied \cup ledger.reserved

MemoryInv ==
  /\ LedgerInv(ledger)
  /\ \A p \in Payments : PaymentInv(p)
  /\ acked \cup saving.for \subseteq ledger.applied

(* An image of a hub that knew known, now that decided has been decided. *)
ImageInv(image, decided, known) ==
  /\ LedgerInv(image.ledger)
  /\ \A p \in Payments :
       /\ image.session[p] # "none" => p \in known
       /\ image.session[p] # "failed"
       /\ image.session[p] = "settled" => p \in image.ledger.applied
       /\ p \in image.ledger.reserved => image.session[p] \in {"collecting", "committing"}
       /\ p \in image.ledger.applied => p \in IF p \in Local THEN known ELSE decided

FirstOf(order, k) == {order[i] : i \in 1..k}

(***************************************************************************)
(* Replaying decisions in their order after what is applied already, each  *)
(* of them finds its money.                                                *)
(***************************************************************************)
Replays(applied, order) ==
  /\ applied \subseteq ToSet(order)
  /\ \A k \in 1..Len(order) :
       Room(applied \cup FirstOf(order, k), applied \cup FirstOf(order, k - 1))

FilesInv ==
  /\ ImageInv(snap, Decided, created) /\ acked \subseteq snap.ledger.applied
  /\ saving.active =>
       /\ status = "up" /\ ImageInv(saving.image, Decided, created)
       /\ acked \cup saving.for \subseteq saving.image.ledger.applied
  /\ ~ saving.active => saving.for = {}

ReplayableInv ==
  created = {} =>
    /\ Room(Decided \cup PreparedOnes, Decided)
    /\ Replays(snap.ledger.applied, journal.decided)
    /\ saving.active => Replays(saving.image.ledger.applied, journal.decided)

InductiveInv ==
  /\ TypeOK /\ created \subseteq Local \cup Coordinated
  /\ \A p \in Payments : EntryInv(p)
  /\ status = "up" => MemoryInv
  /\ FilesInv /\ ReplayableInv /\ ParticipantRestarts

-----------------------------------------------------------------------------
(* The least of some naturals: what the inductions below start from.       *)
LEMMA LeastOf ==
  ASSUME NEW S \in SUBSET Nat, S # {}
  PROVE  \E m \in S : \A y \in S : m <= y
<1>1. PICK x \in S : \A y \in S : ~ (<<y, x>> \in OpToRel(<, Nat))
  BY NatLessThanWellFounded, WFMin, Zenon
<1>2. \A y \in S : x \in Nat /\ y \in Nat /\ ~ (y < x)
  <2> TAKE y \in S
  <2>1. x \in Nat /\ y \in Nat /\ <<y, x>> \in Nat \X Nat
    OBVIOUS
  <2>2. ~ (<<y, x>>[1] < <<y, x>>[2])
    BY <1>1, <2>1, Zenon DEF OpToRel
  <2> QED BY <2>1, <2>2
<1>3. \A y \in S : x <= y
  BY <1>2
<1> QED BY <1>3

-----------------------------------------------------------------------------
(* Total, the sum of the amounts of a set of payments.                     *)

(* f is, on the sets of D, the function with which Total is defined.       *)
SumsOn(f, D) ==
  f = [s \in D |-> IF s = {} THEN 0
                   ELSE Amount[CHOOSE x \in s : TRUE] + f[s \ {CHOOSE x \in s : TRUE}]]

Chosen(s) == CHOOSE x \in s : TRUE

(* The subsets of S with at most n elements. *)
Small(S, n) == {s \in SUBSET S : Cardinality(s) <= n}

LEMMA SmallerSet ==
  ASSUME NEW S, IsFiniteSet(S), NEW s \in SUBSET S, s # {}
  PROVE  /\ Chosen(s) \in s /\ s \ {Chosen(s)} \in SUBSET S
         /\ IsFiniteSet(s) /\ Cardinality(s) \in Nat /\ Cardinality(s) # 0
         /\ Cardinality(s \ {Chosen(s)}) = Cardinality(s) - 1
<1>1. Chosen(s) \in s
  BY DEF Chosen
<1>2. IsFiniteSet(s)
  BY FS_Subset
<1>3. Cardinality(s) \in Nat /\ Cardinality(s) # 0
  BY <1>2, FS_CardinalityType, FS_EmptySet
<1>4. Cardinality(s \ {Chosen(s)}) = Cardinality(s) - 1
  BY <1>1, <1>2, FS_RemoveElement
<1> QED BY <1>1, <1>2, <1>3, <1>4

LEMMA SumsExtend ==
  ASSUME NEW S, IsFiniteSet(S), NEW n \in Nat,
         \E f : SumsOn(f, Small(S, n))
  PROVE  \E f : SumsOn(f, Small(S, n + 1))
<1>1. PICK f : SumsOn(f, Small(S, n))
  OBVIOUS
<1> DEFINE g == [s \in Small(S, n + 1) |-> IF s = {} THEN 0
                                           ELSE Amount[Chosen(s)] + f[s \ {Chosen(s)}]]
<1>2. \A s \in Small(S, n) : s \in Small(S, n + 1)
  <2> TAKE s \in Small(S, n)
  <2>1. s \in SUBSET S /\ Cardinality(s) \in Nat /\ Cardinality(s) <= n
    BY FS_Subset, FS_CardinalityType DEF Small
  <2> QED BY <2>1 DEF Small
<1>3. \A s \in Small(S, n) : f[s] = g[s]
  BY <1>1, <1>2 DEF SumsOn, Chosen
<1>4. \A s \in Small(S, n + 1) : s # {} => s \ {Chosen(s)} \in Small(S, n)
  <2> TAKE s \in Small(S, n + 1)
  <2> HAVE s # {}
  <2>1. s \in SUBSET S /\ Cardinality(s) <= n + 1
    BY DEF Small
  <2>2. /\ s \ {Chosen(s)} \in SUBSET S /\ Cardinality(s) \in Nat
        /\ Cardinality(s \ {Chosen(s)}) = Cardinality(s) - 1
    BY <2>1, SmallerSet
  <2> QED BY <2>1, <2>2 DEF Small
<1>5. \A s \in Small(S, n + 1) : s # {} => f[s \ {Chosen(s)}] = g[s \ {Chosen(s)}]
  BY <1>3, <1>4
<1>6. g = [s \in Small(S, n + 1) |-> IF s = {} THEN 0
                                     ELSE Amount[Chosen(s)] + g[s \ {Chosen(s)}]]
  BY <1>5
<1>7. SumsOn(g, Small(S, n + 1))
  BY <1>6 DEF SumsOn, Chosen
<1> QED BY <1>7

LEMMA SumsExist ==
  ASSUME NEW S, IsFiniteSet(S)
  PROVE  \E f : SumsOn(f, SUBSET S)
<1> DEFINE Missing == {n \in Nat : ~ \E f : SumsOn(f, Small(S, n))}
<1>1. Missing = {}
  <2> SUFFICES ASSUME Missing # {} PROVE FALSE
    OBVIOUS
  <2>1. PICK m \in Missing : \A y \in Missing : m <= y
    BY LeastOf
  <2>2. CASE m = 0
    <3>1. \A s \in SUBSET S : Cardinality(s) <= 0 => s = {}
      <4> TAKE s \in SUBSET S
      <4>1. IsFiniteSet(s) /\ Cardinality(s) \in Nat
        BY FS_Subset, FS_CardinalityType
      <4> QED BY <4>1, FS_EmptySet
    <3> DEFINE f == [s \in Small(S, 0) |-> 0]
    <3>2. SumsOn(f, Small(S, 0))
      BY <3>1 DEF SumsOn, Small
    <3> QED BY <2>1, <2>2, <3>2
  <2>3. CASE m # 0
    <3>1. m - 1 \in Nat /\ m - 1 + 1 = m /\ ~ (m <= m - 1)
      BY <2>3
    <3>2. \E f : SumsOn(f, Small(S, m - 1))
      BY <2>1, <3>1
    <3>3. \E f : SumsOn(f, Small(S, m - 1 + 1))
      <4> HIDE DEF Missing
      <4> QED BY <3>1, <3>2, SumsExtend
    <3> QED BY <2>1, <3>1, <3>3
  <2> QED BY <2>2, <2>3
<1>2. Cardinality(S) \in Nat
  BY FS_CardinalityType
<1>3. Small(S, Cardinality(S)) = SUBSET S
  BY FS_Subset DEF Small
<1>4. \E f : SumsOn(f, Small(S, Cardinality(S)))
  BY <1>1, <1>2
<1> QED BY <1>3, <1>4

LEMMA SumsAgree ==
  ASSUME NEW S, IsFiniteSet(S), NEW T \in SUBSET S, NEW f, NEW g,
         SumsOn(f, SUBSET S), SumsOn(g, SUBSET T)
  PROVE  f[T] = g[T]
<1> DEFINE Differ == {n \in Nat : \E s \in SUBSET T : Cardinality(s) = n /\ f[s] # g[s]}
<1>0. IsFiniteSet(T)
  BY FS_Subset
<1>1. Differ = {}
  <2> SUFFICES ASSUME Differ # {} PROVE FALSE
    OBVIOUS
  <2>1. PICK m \in Differ : \A y \in Differ : m <= y
    BY LeastOf
  <2>2. PICK s \in SUBSET T : Cardinality(s) = m /\ f[s] # g[s]
    OBVIOUS
  <2>3. s \in SUBSET S
    OBVIOUS
  <2>4. s # {}
    BY <2>2, <2>3 DEF SumsOn
  <2>5. /\ s \ {Chosen(s)} \in SUBSET T /\ Cardinality(s) \in Nat /\ Cardinality(s) # 0
        /\ Cardinality(s \ {Chosen(s)}) = Cardinality(s) - 1
    BY <1>0, <2>4, SmallerSet
  <2>6. f[s \ {Chosen(s)}] = g[s \ {Chosen(s)}]
    <3>1. Cardinality(s) - 1 \in Nat /\ ~ (m <= Cardinality(s) - 1)
      BY <2>2, <2>5
    <3> QED BY <2>1, <2>5, <3>1
  <2>7. /\ f[s] = Amount[Chosen(s)] + f[s \ {Chosen(s)}]
        /\ g[s] = Amount[Chosen(s)] + g[s \ {Chosen(s)}]
    <3> HIDE DEF Differ
    <3> QED BY <2>3, <2>4 DEF SumsOn, Chosen
  <2> QED BY <2>2, <2>6, <2>7
<1>2. Cardinality(T) \in Nat
  BY <1>0, FS_CardinalityType
<1> QED BY <1>1, <1>2

LEMMA TotalIs ==
  ASSUME NEW S, IsFiniteSet(S)
  PROVE  /\ S = {} => Total(S) = 0
         /\ S # {} => Total(S) = Amount[Chosen(S)] + Total(S \ {Chosen(S)})
<1> DEFINE f == CHOOSE h : SumsOn(h, SUBSET S)
<1>1. Total(S) = f[S]
  BY DEF Total, MapThenSumSet, MapThenFoldSet, SumsOn
<1>2. SumsOn(f, SUBSET S)
  BY SumsExist
<1>3. S = {} => f[S] = 0
  BY <1>2 DEF SumsOn
<1>4. ASSUME S # {} PROVE Total(S) = Amount[Chosen(S)] + Total(S \ {Chosen(S)})
  <2> DEFINE T == S \ {Chosen(S)}
  <2> DEFINE g == CHOOSE h : SumsOn(h, SUBSET T)
  <2>1. Total(T) = g[T]
    BY DEF Total, MapThenSumSet, MapThenFoldSet, SumsOn
  <2>2. T \in SUBSET S /\ IsFiniteSet(T)
    BY FS_Subset
  <2>3. SumsOn(g, SUBSET T)
    <3> HIDE DEF T
    <3> QED BY <2>2, SumsExist
  <2>4. f[T] = g[T]
    <3> HIDE DEF T, f, g
    <3> QED BY <1>2, <2>2, <2>3, SumsAgree
  <2>5. f[S] = Amount[Chosen(S)] + f[T]
    <3> HIDE DEF f
    <3> QED BY <1>2, <1>4 DEF SumsOn, Chosen
  <2> QED BY <1>1, <2>1, <2>4, <2>5
<1> QED BY <1>1, <1>3, <1>4

LEMMA TotalType ==
  ASSUME NEW S \in SUBSET Payments
  PROVE  Total(S) \in Nat
<1> DEFINE Wrong == {n \in Nat : \E s \in SUBSET Payments : Cardinality(s) = n /\ Total(s) \notin Nat}
<1>1. Wrong = {}
  <2> SUFFICES ASSUME Wrong # {} PROVE FALSE
    OBVIOUS
  <2>1. PICK m \in Wrong : \A y \in Wrong : m <= y
    BY LeastOf
  <2>2. PICK s \in SUBSET Payments : Cardinality(s) = m /\ Total(s) \notin Nat
    OBVIOUS
  <2>3. IsFiniteSet(s)
    BY PaymentsAssumption, FS_Subset
  <2>4. s # {}
    <3> SUFFICES ASSUME s = {} PROVE FALSE
      OBVIOUS
    <3>1. Total(s) = 0
      BY <2>3, TotalIs
    <3> QED BY <2>2, <3>1
  <2>5. /\ Chosen(s) \in s /\ s \ {Chosen(s)} \in SUBSET Payments
        /\ Cardinality(s) \in Nat /\ Cardinality(s) # 0
        /\ Cardinality(s \ {Chosen(s)}) = Cardinality(s) - 1
    BY <2>4, SmallerSet, PaymentsAssumption
  <2>6. Total(s \ {Chosen(s)}) \in Nat
    <3>1. Cardinality(s) - 1 \in Nat /\ ~ (m <= Cardinality(s) - 1)
      BY <2>2, <2>5
    <3> QED BY <2>1, <2>5, <3>1
  <2>7. Total(s) = Amount[Chosen(s)] + Total(s \ {Chosen(s)})
    BY <2>3, <2>4, TotalIs
  <2>8. Amount[Chosen(s)] \in Nat
    BY <2>5, AmountAssumption
  <2> QED BY <2>2, <2>6, <2>7, <2>8
<1>2. Cardinality(S) \in Nat
  BY PaymentsAssumption, FS_Subset, FS_CardinalityType
<1> QED BY <1>1, <1>2

(* A payment that is added counts once. *)
LEMMA TotalAdd ==
  ASSUME NEW S \in SUBSET Payments, NEW p \in Payments, p \notin S
  PROVE  Total(S \cup {p}) = Total(S) + Amount[p]
<1> DEFINE Wrong == {n \in Nat : \E s \in SUBSET Payments, q \in Payments :
                       /\ Cardinality(s) = n /\ q \notin s
                       /\ Total(s \cup {q}) # Total(s) + Amount[q]}
<1>1. Wrong = {}
  <2> SUFFICES ASSUME Wrong # {} PROVE FALSE
    OBVIOUS
  <2>1. PICK m \in Wrong : \A y \in Wrong : m <= y
    BY LeastOf
  <2>2. PICK s \in SUBSET Payments, q \in Payments :
          /\ Cardinality(s) = m /\ q \notin s
          /\ Total(s \cup {q}) # Total(s) + Amount[q]
    OBVIOUS
  <2> DEFINE t == s \cup {q}
  <2> DEFINE c == Chosen(t)
  <2>3. IsFiniteSet(t) /\ IsFiniteSet(s) /\ t \in SUBSET Payments /\ t # {} /\ c \in t
    BY PaymentsAssumption, FS_Subset DEF Chosen
  <2>4. Total(t) = Amount[c] + Total(t \ {c})
    BY <2>3, TotalIs
  <2>5. /\ Total(s) \in Nat /\ Amount[q] \in Nat /\ Amount[c] \in Nat
    BY <2>3, TotalType, AmountAssumption
  <2>6. CASE c = q
    <3>1. t \ {c} = s
      BY <2>2, <2>6
    <3>2. Total(t) = Amount[q] + Total(s)
      BY <2>4, <2>6, <3>1
    <3> QED BY <2>2, <2>5, <3>2
  <2>7. CASE c # q
    <3> DEFINE r == s \ {c}
    <3>1. c \in s /\ t \ {c} = r \cup {q} /\ s = r \cup {c}
      BY <2>3, <2>7
    <3>2. r \in SUBSET Payments /\ q \notin r /\ c \notin r /\ c \in Payments
      BY <2>2, <2>3
    <3>3. Cardinality(s) \in Nat /\ Cardinality(r) = m - 1 /\ m - 1 \in Nat /\ ~ (m <= m - 1)
      <4>1. Cardinality(r) = Cardinality(s) - 1
        BY <2>3, <3>1, FS_RemoveElement
      <4>2. IsFiniteSet(r) /\ Cardinality(r) \in Nat /\ Cardinality(s) \in Nat
        BY <2>3, <3>2, PaymentsAssumption, FS_Subset, FS_CardinalityType
      <4> QED BY <2>2, <4>1, <4>2
    <3>4. m - 1 \notin Wrong
      BY <2>1, <3>3
    <3>5. Total(r \cup {q}) = Total(r) + Amount[q] /\ Total(r \cup {c}) = Total(r) + Amount[c]
      <4> HIDE DEF r
      <4> QED BY <3>2, <3>3, <3>4
    <3>6. Total(r) \in Nat
      BY <3>2, TotalType
    <3>7. Total(t) = Amount[c] + (Total(r) + Amount[q]) /\ Total(s) = Total(r) + Amount[c]
      <4> HIDE DEF r, t, c
      <4> QED BY <2>4, <3>1, <3>5
    <3> HIDE DEF r, c
    <3> QED BY <2>2, <2>5, <3>6, <3>7
  <2> QED BY <2>6, <2>7
<1>2. Cardinality(S) \in Nat
  BY PaymentsAssumption, FS_Subset, FS_CardinalityType
<1> QED BY <1>1, <1>2

(* The sums of disjoint sets add up. *)
LEMMA TotalUnion ==
  ASSUME NEW S \in SUBSET Payments, NEW T \in SUBSET Payments, S \cap T = {}
  PROVE  Total(S \cup T) = Total(S) + Total(T)
<1> DEFINE Wrong == {n \in Nat : \E t \in SUBSET (Payments \ S) :
                       Cardinality(t) = n /\ Total(S \cup t) # Total(S) + Total(t)}
<1>1. Wrong = {}
  <2> SUFFICES ASSUME Wrong # {} PROVE FALSE
    OBVIOUS
  <2>1. PICK m \in Wrong : \A y \in Wrong : m <= y
    BY LeastOf
  <2>2. PICK t \in SUBSET (Payments \ S) :
          Cardinality(t) = m /\ Total(S \cup t) # Total(S) + Total(t)
    OBVIOUS
  <2>3. IsFiniteSet(t) /\ Total(S) \in Nat
    BY PaymentsAssumption, FS_Subset, TotalType
  <2>4. t # {}
    <3> SUFFICES ASSUME t = {} PROVE FALSE
      OBVIOUS
    <3>1. Total(t) = 0 /\ S \cup t = S
      BY <2>3, TotalIs
    <3> QED BY <2>2, <2>3, <3>1
  <2> DEFINE c == Chosen(t)
  <2> DEFINE r == t \ {c}
  <2>5. /\ c \in t /\ r \in SUBSET (Payments \ S)
        /\ Cardinality(t) \in Nat /\ Cardinality(t) # 0
        /\ Cardinality(r) = Cardinality(t) - 1
    BY <2>3, <2>4, SmallerSet
  <2>6. Total(S \cup r) = Total(S) + Total(r)
    <3>1. m - 1 \in Nat /\ Cardinality(r) = m - 1 /\ ~ (m <= m - 1)
      BY <2>2, <2>5
    <3>2. m - 1 \notin Wrong
      BY <2>1, <3>1
    <3> HIDE DEF r
    <3> QED BY <2>5, <3>1, <3>2
  <2>7. /\ t = r \cup {c} /\ S \cup t = (S \cup r) \cup {c}
        /\ c \in Payments /\ c \notin r /\ c \notin S \cup r /\ S \cup r \in SUBSET Payments
    BY <2>5
  <2>8. /\ Total(t) = Total(r) + Amount[c]
        /\ Total(S \cup t) = Total(S \cup r) + Amount[c]
        /\ Total(r) \in Nat /\ Amount[c] \in Nat
    <3> HIDE DEF r, c
    <3>1. r \in SUBSET Payments
      BY <2>7
    <3>2. Total(r \cup {c}) = Total(r) + Amount[c]
      BY <2>7, <3>1, TotalAdd
    <3>3. Total((S \cup r) \cup {c}) = Total(S \cup r) + Amount[c]
      BY <2>7, TotalAdd
    <3>4. Total(r) \in Nat /\ Amount[c] \in Nat
      BY <2>7, <3>1, TotalType, AmountAssumption
    <3> QED BY <2>7, <3>2, <3>3, <3>4
  <2> HIDE DEF r, c
  <2> QED BY <2>2, <2>3, <2>6, <2>8
<1>2. T \in SUBSET (Payments \ S) /\ Cardinality(T) \in Nat
  BY PaymentsAssumption, FS_Subset, FS_CardinalityType
<1> QED BY <1>1, <1>2

LEMMA TotalMonotone ==
  ASSUME NEW T \in SUBSET Payments, NEW S \in SUBSET T
  PROVE  Total(S) <= Total(T)
<1>1. S \in SUBSET Payments /\ T \ S \in SUBSET Payments /\ S \cap (T \ S) = {}
      /\ S \cup (T \ S) = T
  OBVIOUS
<1>2. Total(T) = Total(S) + Total(T \ S)
  BY <1>1, TotalUnion
<1>3. Total(S) \in Nat /\ Total(T \ S) \in Nat
  BY <1>1, TotalType
<1> QED BY <1>2, <1>3

LEMMA TotalEmpty == Total({}) = 0
BY FS_EmptySet, TotalIs

-----------------------------------------------------------------------------
(* Out, what payments take from one side of a channel.                     *)
Share(p, c, side) ==
  IF [channel |-> c, from |-> side] \in Hops[p] THEN Amount[p] ELSE 0

LEMMA OutType ==
  ASSUME NEW ps \in SUBSET Payments, NEW c, NEW side
  PROVE  Out(ps, c, side) \in Nat
<1>1. {p \in ps : [channel |-> c, from |-> side] \in Hops[p]} \in SUBSET Payments
  OBVIOUS
<1> QED BY <1>1, TotalType DEF Out

LEMMA OutAdd ==
  ASSUME NEW ps \in SUBSET Payments, NEW p \in Payments, p \notin ps, NEW c, NEW side
  PROVE  Out(ps \cup {p}, c, side) = Out(ps, c, side) + Share(p, c, side)
<1> DEFINE hop == [channel |-> c, from |-> side]
<1> DEFINE of(qs) == {q \in qs : hop \in Hops[q]}
<1>1. of(ps) \in SUBSET Payments /\ p \notin of(ps)
  OBVIOUS
<1>2. CASE hop \in Hops[p]
  <2>1. of(ps \cup {p}) = of(ps) \cup {p}
    BY <1>2
  <2>2. Total(of(ps) \cup {p}) = Total(of(ps)) + Amount[p]
    <3> HIDE DEF of
    <3> QED BY <1>1, TotalAdd
  <2> QED BY <1>2, <2>1, <2>2 DEF Out, Share
<1>3. CASE hop \notin Hops[p]
  <2>1. of(ps \cup {p}) = of(ps)
    BY <1>3
  <2>2. Total(of(ps)) \in Nat
    <3> HIDE DEF of
    <3> QED BY <1>1, TotalType
  <2>3. Out(ps \cup {p}, c, side) = Total(of(ps \cup {p})) /\ Out(ps, c, side) = Total(of(ps))
    BY DEF Out
  <2>4. Share(p, c, side) = 0
    BY <1>3 DEF Share
  <2> HIDE DEF of
  <2> QED BY <2>1, <2>2, <2>3, <2>4
<1> QED BY <1>2, <1>3

LEMMA OutUnion ==
  ASSUME NEW ps \in SUBSET Payments, NEW qs \in SUBSET Payments, ps \cap qs = {},
         NEW c, NEW side
  PROVE  Out(ps \cup qs, c, side) = Out(ps, c, side) + Out(qs, c, side)
<1> DEFINE of(rs) == {r \in rs : [channel |-> c, from |-> side] \in Hops[r]}
<1>1. /\ of(ps) \in SUBSET Payments /\ of(qs) \in SUBSET Payments
      /\ of(ps) \cap of(qs) = {} /\ of(ps \cup qs) = of(ps) \cup of(qs)
  OBVIOUS
<1>2. Total(of(ps) \cup of(qs)) = Total(of(ps)) + Total(of(qs))
  <2> HIDE DEF of
  <2> QED BY <1>1, TotalUnion
<1> QED BY <1>1, <1>2 DEF Out

LEMMA OutMonotone ==
  ASSUME NEW qs \in SUBSET Payments, NEW ps \in SUBSET qs, NEW c, NEW side
  PROVE  Out(ps, c, side) <= Out(qs, c, side)
<1> DEFINE of(rs) == {r \in rs : [channel |-> c, from |-> side] \in Hops[r]}
<1>1. of(qs) \in SUBSET Payments /\ of(ps) \in SUBSET of(qs)
  OBVIOUS
<1>2. Total(of(ps)) <= Total(of(qs))
  <2> HIDE DEF of
  <2> QED BY <1>1, TotalMonotone
<1> QED BY <1>2 DEF Out

LEMMA OutEmpty ==
  ASSUME NEW c, NEW side
  PROVE  Out({}, c, side) = 0
<1>1. {p \in {} : [channel |-> c, from |-> side] \in Hops[p]} = {}
  OBVIOUS
<1> QED BY <1>1, TotalEmpty DEF Out

-----------------------------------------------------------------------------
(* The operations of the ledger keep it sound.                             *)
LEMMA HeldIs ==
  ASSUME NEW l, NEW c, NEW side
  PROVE  Held(l, [channel |-> c, from |-> side]) = Out(l.reserved, c, side)
BY DEF Held, Out

LEMMA SidesOpposite ==
  ASSUME NEW side \in Sides
  PROVE  /\ Opposite(side) \in Sides /\ Opposite(side) # side
         /\ Opposite(Opposite(side)) = side
BY DEF Sides, Opposite

(* What a sound ledger says of one side of one channel. *)
LEMMA LedgerSide ==
  ASSUME NEW l, LedgerInv(l), NEW c \in Channels, NEW side \in Sides
  PROVE  /\ l.balance[c][side] \in Nat /\ Opening[c][side] \in Nat
         /\ Out(l.reserved, c, side) \in Nat /\ Out(l.applied, c, side) \in Nat
         /\ Out(l.applied, c, Opposite(side)) \in Nat
         /\ Out(l.reserved, c, side) <= l.balance[c][side]
         /\ l.balance[c][side] + Out(l.applied, c, side)
              = Opening[c][side] + Out(l.applied, c, Opposite(side))
<1>1. /\ l.balance \in Balances /\ l.reserved \in SUBSET Payments /\ l.applied \in SUBSET Payments
  BY DEF LedgerInv, Ledgers
<1>2. /\ Out(l.reserved, c, side) \in Nat /\ Out(l.applied, c, side) \in Nat
      /\ Out(l.applied, c, Opposite(side)) \in Nat
  BY <1>1, OutType
<1>3. l.balance[c][side] \in Nat /\ Opening[c][side] \in Nat
  BY <1>1, OpeningAssumption DEF Balances
<1>4. Out(l.reserved, c, side) <= l.balance[c][side]
  BY HeldIs DEF LedgerInv, Covered
<1> QED BY <1>2, <1>3, <1>4 DEF LedgerInv, Explained

LEMMA FewerReserved ==
  ASSUME NEW l, LedgerInv(l), NEW rs \in SUBSET l.reserved
  PROVE  LedgerInv([l EXCEPT !.reserved = rs])
<1> DEFINE m == [l EXCEPT !.reserved = rs]
<1>1. /\ l \in Ledgers /\ m \in Ledgers /\ m.reserved = rs
      /\ m.balance = l.balance /\ m.applied = l.applied
  BY DEF LedgerInv, Ledgers
<1> HIDE DEF m
<1>2. Covered(m)
  <2> SUFFICES ASSUME NEW c \in Channels, NEW side \in Sides
               PROVE  Out(m.reserved, c, side) <= m.balance[c][side]
    BY HeldIs DEF Covered
  <2>1. Out(rs, c, side) <= Out(l.reserved, c, side)
    BY <1>1, OutMonotone DEF Ledgers
  <2>2. Out(rs, c, side) \in Nat
    BY <1>1, OutType DEF Ledgers
  <2> QED BY <1>1, <2>1, <2>2, LedgerSide
<1>3. Explained(m)
  BY <1>1 DEF LedgerInv, Explained
<1>4. m.reserved \cap m.applied = {}
  BY <1>1 DEF LedgerInv
<1>5. LedgerInv(m)
  BY <1>1, <1>2, <1>3, <1>4 DEF LedgerInv
<1> QED BY <1>5 DEF m

LEMMA ReleaseSound ==
  ASSUME NEW l, LedgerInv(l), NEW p
  PROVE  LedgerInv(Release(l, p)) /\ p \notin Release(l, p).reserved
         /\ Release(l, p).applied = l.applied
         /\ Release(l, p).reserved = l.reserved \ {p}
<1>1. l \in Ledgers /\ l.reserved \cap l.applied = {}
  BY DEF LedgerInv
<1>2. CASE p \in l.applied
  <2>1. Release(l, p) = l
    BY <1>2 DEF Release
  <2> QED BY <1>1, <1>2, <2>1
<1>3. CASE p \notin l.applied
  <2>1. Release(l, p) = [l EXCEPT !.reserved = l.reserved \ {p}]
    BY <1>3 DEF Release
  <2>2. LedgerInv([l EXCEPT !.reserved = l.reserved \ {p}])
    BY FewerReserved
  <2> QED BY <1>1, <2>1, <2>2 DEF Ledgers
<1> QED BY <1>2, <1>3

LEMMA ReserveSound ==
  ASSUME NEW l, LedgerInv(l), NEW p \in Payments, p \notin l.applied,
         p \in l.reserved \/ Reservable(l, p)
  PROVE  /\ LedgerInv(Reserve(l, p))
         /\ Reserve(l, p).reserved = l.reserved \cup {p}
         /\ Reserve(l, p).applied = l.applied
<1> DEFINE m == Reserve(l, p)
<1>1. /\ l \in Ledgers /\ m \in Ledgers /\ m.reserved = l.reserved \cup {p}
      /\ m.balance = l.balance /\ m.applied = l.applied
  BY DEF LedgerInv, Ledgers, Reserve
<1> HIDE DEF m
<1>2. Covered(m)
  <2> SUFFICES ASSUME NEW c \in Channels, NEW side \in Sides
               PROVE  Out(m.reserved, c, side) <= m.balance[c][side]
    BY HeldIs DEF Covered
  <2>1. CASE p \in l.reserved
    <3>1. m.reserved = l.reserved
      BY <1>1, <2>1
    <3> QED BY <1>1, <3>1, LedgerSide
  <2>2. CASE p \notin l.reserved
    <3> DEFINE hop == [channel |-> c, from |-> side]
    <3>1. Out(m.reserved, c, side) =
            Out(l.reserved, c, side) + (IF hop \in Hops[p] THEN Amount[p] ELSE 0)
      <4>1. l.reserved \in SUBSET Payments
        BY <1>1 DEF Ledgers
      <4>2. Out(l.reserved \cup {p}, c, side) = Out(l.reserved, c, side) + Share(p, c, side)
        BY <2>2, <4>1, OutAdd
      <4> QED BY <1>1, <4>2 DEF Share
    <3>2. hop \in Hops[p] => Out(l.reserved, c, side) + Amount[p] <= l.balance[c][side]
      <4>1. HAVE hop \in Hops[p]
      <4>2. Held(l, hop) + Amount[p] <= BalanceOf(l, hop)
        BY <2>2, <4>1 DEF Reservable
      <4>3. Held(l, hop) = Out(l.reserved, c, side)
        BY HeldIs
      <4> QED BY <4>2, <4>3 DEF BalanceOf
    <3>3. /\ Out(l.reserved, c, side) \in Nat
          /\ Out(l.reserved, c, side) <= l.balance[c][side]
      BY LedgerSide
    <3> HIDE DEF hop
    <3> QED BY <1>1, <3>1, <3>2, <3>3
  <2> QED BY <2>1, <2>2
<1>3. Explained(m)
  BY <1>1 DEF LedgerInv, Explained
<1>4. m.reserved \cap m.applied = {}
  BY <1>1 DEF LedgerInv
<1>5. LedgerInv(m)
  BY <1>1, <1>2, <1>3, <1>4 DEF LedgerInv
<1> QED BY <1>1, <1>5 DEF m

LEMMA PrepareSound ==
  ASSUME NEW l, LedgerInv(l), NEW p \in Payments, Preparable(l, p)
  PROVE  /\ LedgerInv(Prepare(l, p)) /\ Prepare(l, p).applied = l.applied
         /\ p \in l.applied => Prepare(l, p) = l
         /\ p \notin l.applied => Prepare(l, p).reserved = l.reserved \cup {p}
<1>1. CASE p \in l.applied
  BY <1>1 DEF Prepare
<1>2. CASE p \notin l.applied
  <2>1. Prepare(l, p) = Reserve(l, p)
    BY <1>2 DEF Prepare
  <2>2. p \in l.reserved \/ Reservable(l, p)
    BY <1>2 DEF Preparable
  <2> QED BY <1>2, <2>1, <2>2, ReserveSound
<1> QED BY <1>1, <1>2

(* One side of a channel before and after a settlement. *)
LEMMA MovedSide ==
  ASSUME NEW l, LedgerInv(l), NEW p \in Payments, p \notin l.applied, p \in l.reserved,
         \A hop \in Hops[p] : Amount[p] <= BalanceOf(l, hop),
         NEW c \in Channels, NEW side \in Sides
  PROVE  /\ Moved(l, p, c, side) \in Nat
         /\ Out(l.reserved \ {p}, c, side) <= Moved(l, p, c, side)
         /\ Moved(l, p, c, side) + Out(l.applied \cup {p}, c, side)
              = Opening[c][side] + Out(l.applied \cup {p}, c, Opposite(side))
<1> DEFINE hop == [channel |-> c, from |-> side]
<1> DEFINE back == [channel |-> c, from |-> Opposite(side)]
<1>1. l.reserved \in SUBSET Payments /\ l.applied \in SUBSET Payments
  BY DEF LedgerInv, Ledgers
<1>2. Amount[p] \in Nat
  BY AmountAssumption
<1>3. ~ (hop \in Hops[p] /\ back \in Hops[p])
  <2>1. hop # back /\ hop.channel = back.channel
    <3>1. hop.from # back.from
      BY SidesOpposite
    <3> QED BY <3>1
  <2> HIDE DEF hop, back
  <2> QED BY <2>1, HopsAssumption
<1>4. hop \in Hops[p] => Amount[p] <= l.balance[c][side]
  BY DEF BalanceOf
<1>5. Out(l.reserved, c, side) =
        Out(l.reserved \ {p}, c, side) + (IF hop \in Hops[p] THEN Amount[p] ELSE 0)
  <2>1. l.reserved \ {p} \in SUBSET Payments /\ p \notin l.reserved \ {p}
        /\ (l.reserved \ {p}) \cup {p} = l.reserved
    BY <1>1
  <2>2. Out((l.reserved \ {p}) \cup {p}, c, side) =
          Out(l.reserved \ {p}, c, side) + Share(p, c, side)
    BY <2>1, OutAdd
  <2> QED BY <2>1, <2>2 DEF Share
<1>6. /\ Out(l.applied \cup {p}, c, side) =
           Out(l.applied, c, side) + (IF hop \in Hops[p] THEN Amount[p] ELSE 0)
      /\ Out(l.applied \cup {p}, c, Opposite(side)) =
           Out(l.applied, c, Opposite(side)) + (IF back \in Hops[p] THEN Amount[p] ELSE 0)
  <2>1. /\ Out(l.applied \cup {p}, c, side) = Out(l.applied, c, side) + Share(p, c, side)
        /\ Out(l.applied \cup {p}, c, Opposite(side)) =
             Out(l.applied, c, Opposite(side)) + Share(p, c, Opposite(side))
    BY <1>1, OutAdd
  <2> QED BY <2>1 DEF Share
<1>7. Moved(l, p, c, side) = IF hop \in Hops[p] THEN l.balance[c][side] - Amount[p]
                             ELSE IF back \in Hops[p] THEN l.balance[c][side] + Amount[p]
                                  ELSE l.balance[c][side]
  BY DEF Moved
<1>8. Out(l.reserved \ {p}, c, side) \in Nat
  BY <1>1, OutType
<1> DEFINE b == l.balance[c][side]
<1> DEFINE o == Opening[c][side]
<1> DEFINE out == Out(l.applied, c, side)
<1> DEFINE in == Out(l.applied, c, Opposite(side))
<1> DEFINE rest == Out(l.reserved \ {p}, c, side)
<1>9. /\ b \in Nat /\ o \in Nat /\ out \in Nat /\ in \in Nat
      /\ Out(l.reserved, c, side) <= b /\ b + out = o + in
  BY LedgerSide
<1> HIDE DEF hop, back, b, o, out, in, rest
<1>10. CASE hop \in Hops[p]
  <2>1. back \notin Hops[p] /\ Amount[p] <= b /\ rest + Amount[p] <= b
    BY <1>3, <1>4, <1>5, <1>9, <1>10 DEF b, rest
  <2>2. Moved(l, p, c, side) = b - Amount[p] /\ rest \in Nat
    BY <1>7, <1>8, <1>10 DEF b, rest
  <2>3. /\ Out(l.applied \cup {p}, c, side) = out + Amount[p]
        /\ Out(l.applied \cup {p}, c, Opposite(side)) = in + 0
    BY <1>6, <1>10, <2>1 DEF out, in
  <2>4. /\ b - Amount[p] \in Nat /\ rest <= b - Amount[p]
        /\ b - Amount[p] + (out + Amount[p]) = o + (in + 0)
    BY <1>2, <1>9, <2>1, <2>2
  <2> QED BY <2>2, <2>3, <2>4 DEF o, rest
<1>11. CASE hop \notin Hops[p]
  <2> DEFINE gain == IF back \in Hops[p] THEN Amount[p] ELSE 0
  <2>1. rest <= b /\ rest \in Nat /\ gain \in Nat
    BY <1>2, <1>5, <1>8, <1>9, <1>11 DEF rest
  <2>2. Moved(l, p, c, side) = b + gain
    BY <1>7, <1>9, <1>11 DEF b
  <2>3. /\ Out(l.applied \cup {p}, c, side) = out + 0
        /\ Out(l.applied \cup {p}, c, Opposite(side)) = in + gain
    BY <1>6, <1>11 DEF out, in
  <2> HIDE DEF gain
  <2>4. /\ b + gain \in Nat /\ rest <= b + gain
        /\ b + gain + (out + 0) = o + (in + gain)
    BY <1>9, <2>1
  <2> QED BY <2>2, <2>3, <2>4 DEF o, rest
<1> QED BY <1>10, <1>11

LEMMA ApplySound ==
  ASSUME NEW l, LedgerInv(l), NEW p \in Payments, Applicable(l, p)
  PROVE  /\ LedgerInv(Apply(l, p))
         /\ Apply(l, p).applied = l.applied \cup {p}
         /\ Apply(l, p).reserved = l.reserved \ {p}
<1> DEFINE m == Apply(l, p)
<1>1. /\ l \in Ledgers /\ m.applied = l.applied \cup {p} /\ m.reserved = l.reserved \ {p}
      /\ l.reserved \cap l.applied = {}
  BY DEF LedgerInv, Apply
<1>2. CASE p \in l.applied
  <2>1. m.balance = l.balance /\ m.applied = l.applied /\ m.reserved = l.reserved
    BY <1>1, <1>2 DEF Apply
  <2>2. m = l
    BY <1>1, <2>1 DEF Ledgers, Apply
  <2> QED BY <1>1, <2>2
<1>3. CASE p \notin l.applied
  <2>1. p \in l.reserved /\ \A hop \in Hops[p] : Amount[p] <= BalanceOf(l, hop)
    BY <1>3 DEF Applicable
  <2>2. m.balance = [c \in Channels |-> [side \in Sides |-> Moved(l, p, c, side)]]
    BY <1>3 DEF Apply
  <2>3. m \in Ledgers
    <3>1. m = [balance |-> m.balance, reserved |-> m.reserved, applied |-> m.applied]
      BY DEF Apply
    <3>2. m.balance \in Balances
      <4>1. \A c \in Channels, side \in Sides : Moved(l, p, c, side) \in Nat
        BY <1>3, <2>1, MovedSide
      <4> HIDE DEF m
      <4> QED BY <2>2, <4>1 DEF Balances
    <3>3. m.reserved \in SUBSET Payments /\ m.applied \in SUBSET Payments
      BY <1>1 DEF Ledgers
    <3> HIDE DEF m
    <3> QED BY <3>1, <3>2, <3>3 DEF Ledgers
  <2> HIDE DEF m
  <2>4. Covered(m)
    <3> SUFFICES ASSUME NEW c \in Channels, NEW side \in Sides
                 PROVE  Out(m.reserved, c, side) <= m.balance[c][side]
      BY HeldIs DEF Covered
    <3>1. Out(l.reserved \ {p}, c, side) <= Moved(l, p, c, side)
      BY <1>3, <2>1, MovedSide
    <3> QED BY <1>1, <2>2, <3>1
  <2>5. Explained(m)
    <3> SUFFICES ASSUME NEW c \in Channels, NEW side \in Sides
                 PROVE  m.balance[c][side] + Out(m.applied, c, side)
                          = Opening[c][side] + Out(m.applied, c, Opposite(side))
      BY DEF Explained
    <3>1. Moved(l, p, c, side) + Out(l.applied \cup {p}, c, side)
            = Opening[c][side] + Out(l.applied \cup {p}, c, Opposite(side))
      BY <1>3, <2>1, MovedSide
    <3> QED BY <1>1, <2>2, <3>1
  <2>6. m.reserved \cap m.applied = {}
    BY <1>1
  <2>7. LedgerInv(m)
    BY <2>3, <2>4, <2>5, <2>6 DEF LedgerInv
  <2> QED BY <1>1, <2>7 DEF m
<1> QED BY <1>2, <1>3

-----------------------------------------------------------------------------
(* Sequences without repetition: the two orders of the journal.            *)
LEMMA AppendDistinct ==
  ASSUME NEW S, NEW s \in Seq(S), IsInjective(s), NEW e \in S, e \notin ToSet(s)
  PROVE  /\ Append(s, e) \in Seq(S) /\ IsInjective(Append(s, e))
         /\ ToSet(Append(s, e)) = ToSet(s) \cup {e}
<1> DEFINE t == Append(s, e)
<1>1. /\ t \in Seq(S) /\ Len(t) = Len(s) + 1 /\ Len(s) \in Nat
      /\ DOMAIN t = 1..(Len(s) + 1) /\ DOMAIN s = 1..Len(s)
      /\ t[Len(s) + 1] = e /\ \A i \in 1..Len(s) : t[i] = s[i]
  OBVIOUS
<1> HIDE DEF t
<1>2. \A i \in 1..Len(s) : s[i] # e
  BY <1>1 DEF ToSet
<1>3. IsInjective(t)
  <2> SUFFICES ASSUME NEW i \in 1..(Len(s) + 1), NEW j \in 1..(Len(s) + 1), t[i] = t[j]
               PROVE  i = j
    BY <1>1 DEF IsInjective
  <2>1. i \in 1..Len(s) \/ i = Len(s) + 1
    BY <1>1
  <2>2. j \in 1..Len(s) \/ j = Len(s) + 1
    BY <1>1
  <2> QED BY <1>1, <1>2, <2>1, <2>2 DEF IsInjective
<1>4. ToSet(t) = ToSet(s) \cup {e}
  <2>1. \A i \in 1..(Len(s) + 1) : i \in 1..Len(s) \/ i = Len(s) + 1
    BY <1>1
  <2>2. \A i \in 1..Len(s) : i \in 1..(Len(s) + 1)
    BY <1>1
  <2>3. Len(s) + 1 \in 1..(Len(s) + 1)
    BY <1>1
  <2> QED BY <1>1, <2>1, <2>2, <2>3 DEF ToSet
<1> QED BY <1>1, <1>3, <1>4 DEF t

LEMMA RemoveDistinct ==
  ASSUME NEW S, NEW s \in Seq(S), IsInjective(s), NEW e
  PROVE  /\ RemoveFirst(s, e) \in Seq(S) /\ IsInjective(RemoveFirst(s, e))
         /\ ToSet(RemoveFirst(s, e)) = ToSet(s) \ {e}
<1>0. DOMAIN s = 1..Len(s) /\ Len(s) \in Nat
  OBVIOUS
<1>1. CASE ~ \E i \in 1..Len(s) : s[i] = e
  <2>1. RemoveFirst(s, e) = s
    BY <1>1 DEF RemoveFirst
  <2>2. e \notin ToSet(s)
    BY <1>0, <1>1 DEF ToSet
  <2> QED BY <2>1, <2>2
<1>2. CASE \E i \in 1..Len(s) : s[i] = e
  <2>1. PICK k \in 1..Len(s) : s[k] = e
    BY <1>2
  <2>2. {i \in 1..Len(s) : s[i] = e} = {k}
    BY <1>0, <2>1 DEF IsInjective
  <2>3. Min({k}) = k
    <3>1. \E x \in {k} : \A y \in {k} : x <= y
      BY <2>1
    <3> QED BY <3>1 DEF Min
  <2>4. RemoveFirst(s, e) = RemoveAt(s, k)
    BY <1>2, <2>2, <2>3 DEF RemoveFirst, SelectInSeq
  <2> DEFINE t == RemoveAt(s, k)
  <2>5. /\ t \in Seq(S) /\ Len(t) = Len(s) - 1 /\ DOMAIN t = 1..(Len(s) - 1)
        /\ \A i \in 1..(Len(s) - 1) : t[i] = IF i < k THEN s[i] ELSE s[i + 1]
    <3> DEFINE a == SubSeq(s, 1, k - 1)
    <3> DEFINE b == SubSeq(s, k + 1, Len(s))
    <3>1. /\ a \in Seq(S) /\ Len(a) = k - 1 /\ \A i \in 1..(k - 1) : a[i] = s[i]
      <4>1. \A i \in 1..(k - 1) : s[i] \in S
        BY <1>0, <2>1
      <4>2. /\ a \in Seq(S) /\ Len(a) = IF 1 <= k - 1 THEN (k - 1) - 1 + 1 ELSE 0
            /\ \A i \in 1..((k - 1) - 1 + 1) : a[i] = s[1 + i - 1]
        BY <1>0, <2>1, <4>1, SubSeqProperties
      <4>3. Len(a) = k - 1 /\ (k - 1) - 1 + 1 = k - 1 /\ \A i \in 1..(k - 1) : 1 + i - 1 = i
        BY <1>0, <2>1, <4>2
      <4> QED BY <4>2, <4>3
    <3>2. /\ b \in Seq(S) /\ Len(b) = Len(s) - k /\ \A i \in 1..(Len(s) - k) : b[i] = s[k + i]
      <4>1. \A i \in (k + 1)..Len(s) : s[i] \in S
        BY <1>0, <2>1
      <4>2. /\ b \in Seq(S) /\ Len(b) = IF k + 1 <= Len(s) THEN Len(s) - (k + 1) + 1 ELSE 0
            /\ \A i \in 1..(Len(s) - (k + 1) + 1) : b[i] = s[(k + 1) + i - 1]
        BY <1>0, <2>1, <4>1, SubSeqProperties
      <4>3. /\ Len(b) = Len(s) - k /\ Len(s) - (k + 1) + 1 = Len(s) - k
            /\ \A i \in 1..(Len(s) - k) : (k + 1) + i - 1 = k + i
        <5> HIDE DEF b
        <5>1. k \in Nat /\ Len(s) \in Nat /\ k <= Len(s)
          BY <1>0, <2>1
        <5>2. Len(b) = IF k + 1 <= Len(s) THEN Len(s) - (k + 1) + 1 ELSE 0
          BY <4>2
        <5>3. Len(b) = Len(s) - k
          BY <5>1, <5>2
        <5> QED BY <5>1, <5>3
      <4> QED BY <4>2, <4>3
    <3>3. t = a \o b
      BY DEF RemoveAt
    <3> HIDE DEF a, b, t
    <3>4. /\ t \in Seq(S) /\ Len(t) = (k - 1) + (Len(s) - k)
          /\ \A i \in 1..Len(t) : t[i] = IF i <= k - 1 THEN a[i] ELSE b[i - (k - 1)]
      <4>1. /\ t \in Seq(S) /\ Len(t) = Len(a) + Len(b)
            /\ \A i \in 1..(Len(a) + Len(b)) : t[i] = IF i <= Len(a) THEN a[i] ELSE b[i - Len(a)]
        BY <3>1, <3>2, <3>3, ConcatProperties
      <4> QED BY <3>1, <3>2, <4>1
    <3>5. Len(t) = Len(s) - 1 /\ DOMAIN t = 1..(Len(s) - 1)
      BY <1>0, <2>1, <3>4
    <3>6. ASSUME NEW i \in 1..(Len(s) - 1) PROVE t[i] = IF i < k THEN s[i] ELSE s[i + 1]
      <4>1. CASE i < k
        <5>1. i \in 1..(k - 1) /\ i <= k - 1
          BY <1>0, <2>1, <4>1
        <5> QED BY <3>1, <3>4, <3>5, <4>1, <5>1
      <4>2. CASE ~ (i < k)
        <5>1. i - (k - 1) \in 1..(Len(s) - k) /\ ~ (i <= k - 1) /\ k + (i - (k - 1)) = i + 1
          BY <1>0, <2>1, <4>2
        <5>2. t[i] = b[i - (k - 1)]
          BY <3>4, <3>5, <5>1
        <5>3. b[i - (k - 1)] = s[k + (i - (k - 1))]
          BY <3>2, <5>1
        <5> QED BY <4>2, <5>1, <5>2, <5>3
      <4> QED BY <4>1, <4>2
    <3> QED BY <3>4, <3>5, <3>6
  <2> HIDE DEF t
  <2>6. IsInjective(t)
    <3> SUFFICES ASSUME NEW i \in 1..(Len(s) - 1), NEW j \in 1..(Len(s) - 1), t[i] = t[j]
                 PROVE  i = j
      BY <2>5 DEF IsInjective
    <3>1. /\ (IF i < k THEN i ELSE i + 1) \in 1..Len(s)
          /\ (IF j < k THEN j ELSE j + 1) \in 1..Len(s)
      BY <1>0, <2>1
    <3>2. s[IF i < k THEN i ELSE i + 1] = s[IF j < k THEN j ELSE j + 1]
      BY <2>5
    <3>3. (IF i < k THEN i ELSE i + 1) = (IF j < k THEN j ELSE j + 1)
      BY <1>0, <3>1, <3>2 DEF IsInjective
    <3> QED BY <1>0, <2>1, <3>3
  <2>7. ToSet(t) \subseteq ToSet(s) \ {e}
    <3> SUFFICES ASSUME NEW i \in 1..(Len(s) - 1) PROVE t[i] \in ToSet(s) \ {e}
      BY <2>5 DEF ToSet
    <3>1. (IF i < k THEN i ELSE i + 1) \in 1..Len(s) /\ (IF i < k THEN i ELSE i + 1) # k
      BY <1>0, <2>1
    <3>2. t[i] = s[IF i < k THEN i ELSE i + 1]
      BY <2>5
    <3>3. s[IF i < k THEN i ELSE i + 1] # e
      BY <1>0, <2>1, <3>1 DEF IsInjective
    <3> QED BY <1>0, <3>1, <3>2, <3>3 DEF ToSet
  <2>8. ToSet(s) \ {e} \subseteq ToSet(t)
    <3> SUFFICES ASSUME NEW i \in 1..Len(s), s[i] # e PROVE s[i] \in ToSet(t)
      BY <1>0 DEF ToSet
    <3>1. i # k
      BY <2>1
    <3>2. CASE i < k
      <4>1. i \in 1..(Len(s) - 1)
        BY <1>0, <2>1, <3>2
      <4> QED BY <2>5, <3>2, <4>1 DEF ToSet
    <3>3. CASE i > k
      <4>1. i - 1 \in 1..(Len(s) - 1) /\ ~ (i - 1 < k) /\ i - 1 + 1 = i
        BY <1>0, <2>1, <3>3
      <4> QED BY <2>5, <4>1 DEF ToSet
    <3> QED BY <1>0, <2>1, <3>1, <3>2, <3>3
  <2> QED BY <2>4, <2>5, <2>6, <2>7, <2>8 DEF t
<1> QED BY <1>1, <1>2

LEMMA JoinedDistinct ==
  ASSUME NEW S, NEW d \in Seq(S), NEW r \in Seq(S)
  PROVE  /\ IsInjective(d \o r) <=>
              IsInjective(d) /\ IsInjective(r) /\ ToSet(d) \cap ToSet(r) = {}
         /\ d \o r \in Seq(S) /\ ToSet(d \o r) = ToSet(d) \cup ToSet(r)
<1> DEFINE t == d \o r
<1>1. /\ Len(d) \in Nat /\ Len(r) \in Nat /\ t \in Seq(S) /\ DOMAIN t = 1..(Len(d) + Len(r))
      /\ DOMAIN d = 1..Len(d) /\ DOMAIN r = 1..Len(r)
  OBVIOUS
<1>2. \A i \in 1..Len(d) : i \in DOMAIN t /\ t[i] = d[i]
  BY <1>1
<1>3. \A i \in 1..Len(r) : Len(d) + i \in DOMAIN t /\ t[Len(d) + i] = r[i]
  BY <1>1
<1>4. \A i \in DOMAIN t : \/ i \in 1..Len(d)
                          \/ i - Len(d) \in 1..Len(r) /\ Len(d) + (i - Len(d)) = i
  BY <1>1
<1> HIDE DEF t
<1>5. ToSet(t) = ToSet(d) \cup ToSet(r)
  <2>1. ASSUME NEW x \in ToSet(t) PROVE x \in ToSet(d) \cup ToSet(r)
    <3>1. PICK i \in DOMAIN t : x = t[i]
      BY DEF ToSet
    <3>2. CASE i \in 1..Len(d)
      BY <1>1, <1>2, <3>1, <3>2 DEF ToSet
    <3>3. CASE i - Len(d) \in 1..Len(r) /\ Len(d) + (i - Len(d)) = i
      <4>1. x = r[i - Len(d)]
        BY <1>3, <3>1, <3>3
      <4> QED BY <1>1, <3>3, <4>1 DEF ToSet
    <3> QED BY <1>4, <3>2, <3>3
  <2>2. ToSet(d) \subseteq ToSet(t)
    BY <1>1, <1>2 DEF ToSet
  <2>3. ToSet(r) \subseteq ToSet(t)
    BY <1>1, <1>3 DEF ToSet
  <2> QED BY <2>1, <2>2, <2>3
<1>6. ASSUME IsInjective(t)
      PROVE  IsInjective(d) /\ IsInjective(r) /\ ToSet(d) \cap ToSet(r) = {}
  <2>1. IsInjective(d)
    BY <1>1, <1>2, <1>6 DEF IsInjective
  <2>2. IsInjective(r)
    <3> SUFFICES ASSUME NEW i \in 1..Len(r), NEW j \in 1..Len(r), r[i] = r[j] PROVE i = j
      BY <1>1 DEF IsInjective
    <3>1. Len(d) + i = Len(d) + j
      BY <1>3, <1>6 DEF IsInjective
    <3> QED BY <1>1, <3>1
  <2>3. ASSUME NEW i \in 1..Len(d), NEW j \in 1..Len(r), d[i] = r[j] PROVE FALSE
    <3>1. i = Len(d) + j
      BY <1>2, <1>3, <1>6, <2>3 DEF IsInjective
    <3> QED BY <1>1, <3>1
  <2>4. ToSet(d) \cap ToSet(r) = {}
    BY <1>1, <2>3 DEF ToSet
  <2> QED BY <2>1, <2>2, <2>4
<1>7. ASSUME IsInjective(d), IsInjective(r), ToSet(d) \cap ToSet(r) = {}
      PROVE  IsInjective(t)
  <2>0. \A i \in 1..Len(d), j \in 1..Len(r) : d[i] # r[j]
    BY <1>1, <1>7 DEF ToSet
  <2> SUFFICES ASSUME NEW i \in DOMAIN t, NEW j \in DOMAIN t, t[i] = t[j] PROVE i = j
    BY DEF IsInjective
  <2>1. CASE i \in 1..Len(d) /\ j \in 1..Len(d)
    BY <1>1, <1>2, <1>7, <2>1 DEF IsInjective
  <2>2. CASE i \in 1..Len(d) /\ j \notin 1..Len(d)
    BY <1>2, <1>3, <1>4, <2>0, <2>2
  <2>3. CASE i \notin 1..Len(d) /\ j \in 1..Len(d)
    BY <1>2, <1>3, <1>4, <2>0, <2>3
  <2>4. CASE i \notin 1..Len(d) /\ j \notin 1..Len(d)
    <3>1. /\ i - Len(d) \in 1..Len(r) /\ Len(d) + (i - Len(d)) = i
          /\ j - Len(d) \in 1..Len(r) /\ Len(d) + (j - Len(d)) = j
      BY <1>4, <2>4
    <3>2. r[i - Len(d)] = r[j - Len(d)]
      BY <1>3, <3>1
    <3>3. i - Len(d) = j - Len(d)
      BY <1>1, <1>7, <3>1, <3>2 DEF IsInjective
    <3> QED BY <3>1, <3>3
  <2> QED BY <2>1, <2>2, <2>3, <2>4
<1> QED BY <1>1, <1>5, <1>6, <1>7 DEF t

-----------------------------------------------------------------------------
(* The journal.                                                            *)
JournalShape(j) ==
  /\ j \in Journals
  /\ IsInjective(j.decided \o j.recent)
  /\ ToSet(j.decided) = {p \in Payments : j.state[p] \in CommitSide}
  /\ ToSet(j.recent) = {p \in Payments : j.state[p] \notin CommitSide \cup {"none"}}

(***************************************************************************)
(* A record keeps the two orders of the journal apart and free of          *)
(* repetition, as long as a decision is neither taken twice nor taken back.*)
(***************************************************************************)
LEMMA RecordSound ==
  ASSUME JournalShape(journal), NEW p \in Payments, NEW state \in States \ {"none"},
         Record(p, state),
         state = "CommitDecided" => journal.state[p] \notin CommitSide,
         state = "Committed" => journal.state[p] \in CommitSide,
         state \notin CommitSide => journal.state[p] \notin CommitSide
  PROVE  /\ JournalShape(journal')
         /\ journal'.state = [journal.state EXCEPT ![p] = state]
         /\ journal'.decided = IF state = "CommitDecided" THEN Append(journal.decided, p)
                                                          ELSE journal.decided
<1> DEFINE d == journal.decided
<1> DEFINE r == journal.recent
<1> DEFINE others == RemoveFirst(r, p)
<1> DEFINE e == journal'.decided
<1> DEFINE q == journal'.recent
<1>1. /\ journal.state \in [Payments -> States] /\ d \in Seq(Payments) /\ r \in Seq(Payments)
      /\ ToSet(d) = {x \in Payments : journal.state[x] \in CommitSide}
      /\ ToSet(r) = {x \in Payments : journal.state[x] \notin CommitSide \cup {"none"}}
  BY DEF JournalShape, Journals
<1>2. /\ journal' = [state |-> journal'.state, decided |-> e, recent |-> q]
      /\ journal'.state = [journal.state EXCEPT ![p] = state]
      /\ e = IF state = "CommitDecided" THEN Append(d, p) ELSE d
      /\ q = IF state \in CommitSide THEN others ELSE Append(others, p)
  BY DEF Record
<1>3. IsInjective(d) /\ IsInjective(r)
  <2>1. IsInjective(d \o r)
    BY DEF JournalShape
  <2> HIDE DEF d, r
  <2> QED BY <1>1, <2>1, JoinedDistinct
<1>4. /\ others \in Seq(Payments) /\ IsInjective(others) /\ ToSet(others) = ToSet(r) \ {p}
  <2> HIDE DEF r
  <2> QED BY <1>1, <1>3, RemoveDistinct
<1> HIDE DEF d, r, others, e, q
<1>5. /\ e \in Seq(Payments) /\ IsInjective(e)
      /\ ToSet(e) = ToSet(d) \cup (IF state = "CommitDecided" THEN {p} ELSE {})
  <2>1. CASE state = "CommitDecided"
    <3>1. p \notin ToSet(d)
      BY <1>1, <2>1
    <3>2. /\ Append(d, p) \in Seq(Payments) /\ IsInjective(Append(d, p))
          /\ ToSet(Append(d, p)) = ToSet(d) \cup {p}
      BY <1>1, <1>3, <3>1, AppendDistinct
    <3> QED BY <1>2, <2>1, <3>2
  <2>2. CASE state # "CommitDecided"
    BY <1>1, <1>2, <1>3, <2>2
  <2> QED BY <2>1, <2>2
<1>6. /\ q \in Seq(Payments) /\ IsInjective(q)
      /\ ToSet(q) = (ToSet(r) \ {p}) \cup (IF state \in CommitSide THEN {} ELSE {p})
  <2>1. CASE state \in CommitSide
    BY <1>2, <1>4, <2>1
  <2>2. CASE state \notin CommitSide
    <3>1. /\ Append(others, p) \in Seq(Payments) /\ IsInjective(Append(others, p))
          /\ ToSet(Append(others, p)) = ToSet(others) \cup {p}
      BY <1>4, AppendDistinct
    <3> QED BY <1>2, <1>4, <2>2, <3>1
  <2> QED BY <2>1, <2>2
<1>7. ToSet(e) = {x \in Payments : journal'.state[x] \in CommitSide}
  BY <1>1, <1>2, <1>5 DEF CommitSide
<1>8. ToSet(q) = {x \in Payments : journal'.state[x] \notin CommitSide \cup {"none"}}
  BY <1>1, <1>2, <1>6 DEF CommitSide
<1>9. IsInjective(e \o q)
  <2>1. ToSet(e) \cap ToSet(q) = {}
    BY <1>7, <1>8
  <2> QED BY <1>5, <1>6, <2>1, JoinedDistinct
<1>10. journal' \in Journals
  <2>1. journal'.state \in [Payments -> States]
    BY <1>1, <1>2
  <2>2. \A a \in [Payments -> States], b \in Seq(Payments), c \in Seq(Payments) :
          [state |-> a, decided |-> b, recent |-> c] \in Journals
    BY DEF Journals
  <2>3. [state |-> journal'.state, decided |-> e, recent |-> q] \in Journals
    BY <1>5, <1>6, <2>1, <2>2
  <2> QED BY <1>2, <2>3
<1> QED BY <1>2, <1>7, <1>8, <1>9, <1>10 DEF JournalShape, d, e, q

(* What list() returns: the decided transactions in their order, the rest. *)
LEMMA ListingFacts ==
  ASSUME JournalShape(journal)
  PROVE  /\ Len(Listing) \in Nat /\ DOMAIN Listing = 1..Len(Listing) /\ IsInjective(Listing)
         /\ ToSet(Listing) = {p \in Payments : journal.state[p] # "none"}
         /\ \A i \in 1..Len(Listing) : Listing[i] \in Payments
         /\ Len(journal.decided) \in Nat /\ Len(journal.decided) <= Len(Listing)
         /\ \A i \in 1..Len(journal.decided) : /\ i \in 1..Len(Listing)
                                               /\ Listing[i] = journal.decided[i]
                                               /\ journal.state[Listing[i]] \in CommitSide
         /\ \A i \in 1..Len(Listing) :
              journal.state[Listing[i]] \in CommitSide <=> i <= Len(journal.decided)
<1> DEFINE d == journal.decided
<1> DEFINE r == journal.recent
<1>1. /\ d \in Seq(Payments) /\ r \in Seq(Payments) /\ IsInjective(Listing) /\ Listing = d \o r
      /\ ToSet(d) = {x \in Payments : journal.state[x] \in CommitSide}
      /\ ToSet(r) = {x \in Payments : journal.state[x] \notin CommitSide \cup {"none"}}
  BY DEF JournalShape, Journals, Listing
<1> HIDE DEF d, r
<1>2. Listing \in Seq(Payments) /\ ToSet(Listing) = ToSet(d) \cup ToSet(r)
  BY <1>1, JoinedDistinct
<1>3. /\ Len(Listing) \in Nat /\ DOMAIN Listing = 1..Len(Listing) /\ Len(d) \in Nat /\ Len(r) \in Nat
      /\ Len(Listing) = Len(d) + Len(r) /\ DOMAIN d = 1..Len(d) /\ DOMAIN r = 1..Len(r)
      /\ \A i \in 1..Len(Listing) : Listing[i] \in Payments
  BY <1>1, <1>2
<1>4. ToSet(Listing) = {p \in Payments : journal.state[p] # "none"}
  BY <1>1, <1>2 DEF CommitSide
<1>5. ASSUME NEW i \in 1..Len(d)
      PROVE  i \in 1..Len(Listing) /\ Listing[i] = d[i] /\ journal.state[Listing[i]] \in CommitSide
  <2>1. i \in 1..Len(Listing)
    BY <1>3
  <2>2. Listing[i] = d[i]
    BY <1>1, <1>3
  <2>3. d[i] \in ToSet(d)
    BY <1>3 DEF ToSet
  <2> QED BY <1>1, <2>1, <2>2, <2>3
<1>6. ASSUME NEW i \in 1..Len(Listing), ~ (i <= Len(d))
      PROVE  journal.state[Listing[i]] \notin CommitSide
  <2>1. i - Len(d) \in 1..Len(r) /\ Len(d) + (i - Len(d)) = i
    BY <1>3, <1>6
  <2>2. Listing[i] = r[i - Len(d)]
    BY <1>1, <1>3, <1>6, <2>1
  <2>3. r[i - Len(d)] \in ToSet(r)
    BY <1>3, <2>1 DEF ToSet
  <2> QED BY <1>1, <2>2, <2>3
<1>7. \A i \in 1..Len(Listing) : i <= Len(d) => i \in 1..Len(d)
  BY <1>3
<1>8. Len(d) <= Len(Listing)
  BY <1>3
<1> QED BY <1>1, <1>3, <1>4, <1>5, <1>6, <1>7, <1>8 DEF d

-----------------------------------------------------------------------------
(* Recovered, the fold of recover_local over the listing, step by step.    *)
Replayed(n, ledgers) == UNION {RecoveredLedger(Listing[n], l) : l \in ledgers}

(* f is, on the sets of D, the function with which the fold is defined.    *)
Folds(f, D) ==
  f = [s \in D |-> IF s = {} THEN {snap.ledger} ELSE Replayed(Max(s), f[s \ {Max(s)}])]

(* The ledgers after the first k transactions of the listing. *)
After(k) == (CHOOSE f : Folds(f, SUBSET (DOMAIN Listing)))[1..k]

LEMMA MaxOf ==
  ASSUME NEW n \in Nat, NEW S \in SUBSET (1..n), S # {}
  PROVE  Max(S) \in S /\ \A y \in S : y <= Max(S)
<1> DEFINE T == {n - x : x \in S}
<1>1. \A x \in S : x \in Nat /\ x <= n
  OBVIOUS
<1>2. T \in SUBSET Nat /\ T # {}
  <2>1. \A x \in S : n - x \in Nat
    BY <1>1
  <2> QED BY <2>1
<1>3. PICK m \in T : m \in Nat /\ \A y \in T : m <= y
  <2> HIDE DEF T
  <2> QED BY <1>2, LeastOf
<1>4. PICK x \in S : m = n - x
  BY <1>3
<1>5. \A y \in S : x >= y
  <2> TAKE y \in S
  <2>1. n - y \in T
    OBVIOUS
  <2>2. m <= n - y
    BY <1>3, <2>1
  <2> QED BY <1>1, <1>4, <2>2
<1>6. PICK z : z = Max(S)
  OBVIOUS
<1>7. z \in S /\ \A y \in S : z >= y
  BY <1>5, <1>6 DEF Max
<1> QED BY <1>1, <1>6, <1>7

LEMMA WithoutMax ==
  ASSUME NEW n \in Nat, NEW s \in SUBSET (1..n), s # {}
  PROVE  /\ Max(s) \in s /\ s \ {Max(s)} \in SUBSET (1..n)
         /\ IsFiniteSet(s) /\ Cardinality(s) \in Nat /\ Cardinality(s) # 0
         /\ Cardinality(s \ {Max(s)}) = Cardinality(s) - 1
<1>1. Max(s) \in s
  BY MaxOf
<1>2. IsFiniteSet(s)
  <2>1. IsFiniteSet(1..n)
    BY FS_Interval
  <2> QED BY <2>1, FS_Subset
<1>3. Cardinality(s) \in Nat /\ Cardinality(s) # 0
  BY <1>2, FS_CardinalityType, FS_EmptySet
<1>4. Cardinality(s \ {Max(s)}) = Cardinality(s) - 1
  BY <1>1, <1>2, FS_RemoveElement
<1> QED BY <1>1, <1>2, <1>3, <1>4

LEMMA FoldsExtend ==
  ASSUME NEW N \in Nat, NEW n \in Nat,
         \E f : Folds(f, Small(1..N, n))
  PROVE  \E f : Folds(f, Small(1..N, n + 1))
<1>1. PICK f : Folds(f, Small(1..N, n))
  OBVIOUS
<1> DEFINE g == [s \in Small(1..N, n + 1) |-> IF s = {} THEN {snap.ledger}
                                              ELSE Replayed(Max(s), f[s \ {Max(s)}])]
<1>2. \A s \in Small(1..N, n) : s \in Small(1..N, n + 1)
  <2> TAKE s \in Small(1..N, n)
  <2>1. s \in SUBSET (1..N) /\ Cardinality(s) \in Nat /\ Cardinality(s) <= n
    <3>1. IsFiniteSet(1..N)
      BY FS_Interval
    <3> QED BY <3>1, FS_Subset, FS_CardinalityType DEF Small
  <2> QED BY <2>1 DEF Small
<1>3. \A s \in Small(1..N, n) : f[s] = g[s]
  BY <1>1, <1>2 DEF Folds
<1>4. \A s \in Small(1..N, n + 1) : s # {} => s \ {Max(s)} \in Small(1..N, n)
  <2> TAKE s \in Small(1..N, n + 1)
  <2> HAVE s # {}
  <2>1. s \in SUBSET (1..N) /\ Cardinality(s) <= n + 1
    BY DEF Small
  <2>2. /\ s \ {Max(s)} \in SUBSET (1..N) /\ Cardinality(s) \in Nat
        /\ Cardinality(s \ {Max(s)}) = Cardinality(s) - 1
    BY <2>1, WithoutMax
  <2> QED BY <2>1, <2>2 DEF Small
<1>5. \A s \in Small(1..N, n + 1) : s # {} => f[s \ {Max(s)}] = g[s \ {Max(s)}]
  BY <1>3, <1>4
<1>6. g = [s \in Small(1..N, n + 1) |-> IF s = {} THEN {snap.ledger}
                                        ELSE Replayed(Max(s), g[s \ {Max(s)}])]
  BY <1>5
<1>7. Folds(g, Small(1..N, n + 1))
  BY <1>6 DEF Folds
<1> QED BY <1>7

LEMMA FoldsExist ==
  ASSUME NEW N \in Nat
  PROVE  \E f : Folds(f, SUBSET (1..N))
<1> DEFINE Missing == {n \in Nat : ~ \E f : Folds(f, Small(1..N, n))}
<1>0. IsFiniteSet(1..N)
  BY FS_Interval
<1>1. Missing = {}
  <2> SUFFICES ASSUME Missing # {} PROVE FALSE
    OBVIOUS
  <2>1. PICK m \in Missing : \A y \in Missing : m <= y
    BY LeastOf
  <2>2. CASE m = 0
    <3>1. \A s \in SUBSET (1..N) : Cardinality(s) <= 0 => s = {}
      <4> TAKE s \in SUBSET (1..N)
      <4>1. IsFiniteSet(s) /\ Cardinality(s) \in Nat
        BY <1>0, FS_Subset, FS_CardinalityType
      <4> QED BY <4>1, FS_EmptySet
    <3> DEFINE f == [s \in Small(1..N, 0) |-> {snap.ledger}]
    <3>2. Folds(f, Small(1..N, 0))
      BY <3>1 DEF Folds, Small
    <3> QED BY <2>1, <2>2, <3>2
  <2>3. CASE m # 0
    <3>1. m - 1 \in Nat /\ m - 1 + 1 = m /\ ~ (m <= m - 1)
      BY <2>3
    <3>2. \E f : Folds(f, Small(1..N, m - 1))
      BY <2>1, <3>1
    <3>3. \E f : Folds(f, Small(1..N, m - 1 + 1))
      <4> HIDE DEF Missing
      <4> QED BY <3>1, <3>2, FoldsExtend
    <3> QED BY <2>1, <3>1, <3>3
  <2> QED BY <2>2, <2>3
<1>2. Cardinality(1..N) \in Nat
  BY <1>0, FS_CardinalityType
<1>3. Small(1..N, Cardinality(1..N)) = SUBSET (1..N)
  BY <1>0, FS_Subset DEF Small
<1>4. \E f : Folds(f, Small(1..N, Cardinality(1..N)))
  BY <1>1, <1>2
<1> QED BY <1>3, <1>4

LEMMA AfterIs ==
  ASSUME JournalShape(journal)
  PROVE  /\ Recovered = After(Len(Listing))
         /\ After(0) = {snap.ledger}
         /\ \A k \in 1..Len(Listing) : After(k) = Replayed(k, After(k - 1))
<1> DEFINE N == Len(Listing)
<1> DEFINE f == CHOOSE g : Folds(g, SUBSET (DOMAIN Listing))
<1>1. N \in Nat /\ DOMAIN Listing = 1..N
  BY ListingFacts
<1>2. Folds(f, SUBSET (1..N))
  <2> HIDE DEF N
  <2> QED BY <1>1, FoldsExist
<1>3. Recovered = f[DOMAIN Listing]
  BY DEF Recovered, FoldLeft, MapThenFoldSet, Folds, Replayed
<1>4. \A k : After(k) = f[1..k]
  BY DEF After
<1> HIDE DEF f, N
<1>5. Recovered = After(N)
  BY <1>1, <1>3, <1>4
<1>6. After(0) = {snap.ledger}
  <2>1. 1..0 = {} /\ {} \in SUBSET (1..N)
    OBVIOUS
  <2> QED BY <1>2, <1>4, <2>1 DEF Folds
<1>7. ASSUME NEW k \in 1..N PROVE After(k) = Replayed(k, After(k - 1))
  <2>1. /\ 1..k \in SUBSET (1..N) /\ 1..k # {} /\ k \in 1..k /\ k \in Nat
        /\ (1..k) \ {k} = 1..(k - 1)
    BY <1>1
  <2>2. Max(1..k) = k
    <3>1. Max(1..k) \in 1..k /\ k <= Max(1..k)
      BY <2>1, MaxOf
    <3> QED BY <2>1, <3>1
  <2>3. f[1..k] = Replayed(Max(1..k), f[(1..k) \ {Max(1..k)}])
    BY <1>2, <2>1 DEF Folds
  <2> QED BY <1>4, <2>1, <2>2, <2>3
<1> QED BY <1>5, <1>6, <1>7 DEF N

-----------------------------------------------------------------------------
(* What every ledger that recover_local arrives at has.                    *)
CommitsUpTo(k) == {p \in Payments : journal.state[p] \in CommitSide /\ \E i \in 1..k : p = Listing[i]}

ReplayInv(k, l) ==
  /\ LedgerInv(l)
  /\ l.applied = snap.ledger.applied \cup CommitsUpTo(k)
  /\ \A i \in 1..k : journal.state[Listing[i]] = "Prepared" =>
       Listing[i] \in l.applied \cup l.reserved
  /\ \A p \in l.reserved : \/ \E i \in 1..k : p = Listing[i] /\ journal.state[p] = "Prepared"
                           \/ p \in snap.ledger.reserved /\ \A i \in 1..k : p # Listing[i]

LEMMA ReplayStep ==
  ASSUME JournalShape(journal), NEW k \in 1..Len(Listing), NEW l, ReplayInv(k - 1, l),
         NEW m \in RecoveredLedger(Listing[k], l)
  PROVE  ReplayInv(k, m)
<1> DEFINE p == Listing[k]
<1>1. /\ p \in Payments /\ k \in Nat /\ k \in 1..k
      /\ 1..k = (1..(k - 1)) \cup {k}
      /\ \A i \in 1..(k - 1) : Listing[i] # p /\ i \in 1..k
  <2>1. \A i \in 1..(k - 1) : i \in 1..Len(Listing) /\ i # k /\ i \in 1..k
    BY ListingFacts
  <2>2. k \in Nat /\ k \in 1..k /\ 1..k = (1..(k - 1)) \cup {k}
    BY ListingFacts
  <2>3. \A i \in 1..(k - 1) : Listing[i] # p
    BY <2>1, ListingFacts DEF IsInjective
  <2> QED BY <2>1, <2>2, <2>3, ListingFacts
<1> HIDE DEF p
<1>2. m \in RecoveredLedger(p, l)
  BY DEF p
<1>3. /\ LedgerInv(l) /\ l.reserved \cap l.applied = {}
      /\ l.applied = snap.ledger.applied \cup CommitsUpTo(k - 1)
  BY DEF ReplayInv, LedgerInv
<1>4. Listing[k] = p
  BY DEF p
<1>5. CASE journal.state[p] \in CommitSide
  <2> DEFINE prepared == IF Preparable(l, p) THEN Prepare(l, p) ELSE l
  <2>0. journal.state[p] # "Prepared"
    BY <1>5 DEF CommitSide
  <2>1. m = Apply(prepared, p) /\ Applicable(prepared, p)
    BY <1>2, <1>5, <2>0 DEF RecoveredLedger
  <2>2. /\ LedgerInv(prepared) /\ prepared.applied = l.applied
        /\ prepared.reserved \ {p} = l.reserved \ {p}
    BY <1>1, <1>3, PrepareSound
  <2> HIDE DEF prepared
  <2>3. LedgerInv(m) /\ m.applied = l.applied \cup {p} /\ m.reserved = l.reserved \ {p}
    BY <1>1, <2>1, <2>2, ApplySound
  <2>4. CommitsUpTo(k) = CommitsUpTo(k - 1) \cup {p}
    BY <1>1, <1>4, <1>5 DEF CommitsUpTo
  <2>5. \A i \in 1..k : journal.state[Listing[i]] = "Prepared" =>
          i \in 1..(k - 1) /\ Listing[i] # p
    BY <1>1, <1>4, <1>5 DEF CommitSide
  <2>6. \A i \in 1..k : journal.state[Listing[i]] = "Prepared" =>
          Listing[i] \in m.applied \cup m.reserved
    BY <2>3, <2>5 DEF ReplayInv
  <2>7. \A q \in m.reserved : \/ \E i \in 1..k : q = Listing[i] /\ journal.state[q] = "Prepared"
                              \/ q \in snap.ledger.reserved /\ \A i \in 1..k : q # Listing[i]
    BY <1>1, <1>4, <2>3 DEF ReplayInv
  <2> QED BY <1>3, <2>3, <2>4, <2>6, <2>7 DEF ReplayInv
<1>6. CASE journal.state[p] = "Prepared"
  <2>0. journal.state[p] \notin CommitSide
    BY <1>6 DEF CommitSide
  <2>1. m = Prepare(l, p) /\ Preparable(l, p)
    BY <1>2, <1>6, <2>0 DEF RecoveredLedger
  <2>2. /\ LedgerInv(m) /\ m.applied = l.applied
        /\ p \in l.applied => m.reserved = l.reserved
        /\ p \notin l.applied => m.reserved = l.reserved \cup {p}
    BY <1>1, <1>3, <2>1, PrepareSound
  <2>3. CommitsUpTo(k) = CommitsUpTo(k - 1)
    BY <1>1, <1>4, <2>0 DEF CommitsUpTo
  <2>4. p \in m.applied \cup m.reserved /\ l.reserved \subseteq m.reserved
        /\ m.reserved \subseteq l.reserved \cup {p}
    BY <2>2
  <2>5. \A i \in 1..k : journal.state[Listing[i]] = "Prepared" =>
          Listing[i] \in m.applied \cup m.reserved
    <3> TAKE i \in 1..k
    <3>1. CASE i = k
      BY <1>4, <2>4, <3>1
    <3>2. CASE i \in 1..(k - 1)
      BY <2>2, <2>4, <3>2 DEF ReplayInv
    <3> QED BY <1>1, <3>1, <3>2
  <2>6. \A q \in m.reserved : \/ \E i \in 1..k : q = Listing[i] /\ journal.state[q] = "Prepared"
                              \/ q \in snap.ledger.reserved /\ \A i \in 1..k : q # Listing[i]
    <3> TAKE q \in m.reserved
    <3>1. CASE q = p
      BY <1>1, <1>4, <1>6, <3>1
    <3>2. CASE q # p /\ q \in l.reserved
      BY <1>1, <1>4, <3>2 DEF ReplayInv
    <3> QED BY <2>4, <3>1, <3>2
  <2> QED BY <1>3, <2>2, <2>3, <2>5, <2>6 DEF ReplayInv
<1>7. CASE journal.state[p] \notin CommitSide \cup {"Prepared"}
  <2>1. m = Release(l, p)
    BY <1>2, <1>7 DEF RecoveredLedger
  <2>2. LedgerInv(m) /\ m.applied = l.applied /\ m.reserved = l.reserved \ {p}
    BY <1>3, <2>1, ReleaseSound
  <2>3. CommitsUpTo(k) = CommitsUpTo(k - 1)
    BY <1>1, <1>4, <1>7 DEF CommitsUpTo
  <2>4. \A i \in 1..k : journal.state[Listing[i]] = "Prepared" =>
          Listing[i] \in m.applied \cup m.reserved
    BY <1>1, <1>4, <1>7, <2>2 DEF ReplayInv
  <2>5. \A q \in m.reserved : \/ \E i \in 1..k : q = Listing[i] /\ journal.state[q] = "Prepared"
                              \/ q \in snap.ledger.reserved /\ \A i \in 1..k : q # Listing[i]
    BY <1>1, <1>4, <2>2 DEF ReplayInv
  <2> QED BY <1>3, <2>2, <2>3, <2>4, <2>5 DEF ReplayInv
<1> QED BY <1>5, <1>6, <1>7

LEMMA ReplaySound ==
  ASSUME JournalShape(journal), LedgerInv(snap.ledger), NEW k \in 0..Len(Listing), NEW l \in After(k)
  PROVE  ReplayInv(k, l)
<1> DEFINE N == Len(Listing)
<1> DEFINE Wrong == {n \in 0..N : \E m \in After(n) : ~ ReplayInv(n, m)}
<1>0. N \in Nat
  BY ListingFacts
<1>1. Wrong = {}
  <2> SUFFICES ASSUME Wrong # {} PROVE FALSE
    OBVIOUS
  <2>1. PICK n \in Wrong : \A y \in Wrong : n <= y
    <3>1. Wrong \in SUBSET Nat
      OBVIOUS
    <3> HIDE DEF Wrong
    <3> QED BY <3>1, LeastOf
  <2>2. n \in 0..N /\ \E m \in After(n) : ~ ReplayInv(n, m)
    OBVIOUS
  <2>3. PICK m \in After(n) : ~ ReplayInv(n, m)
    BY <2>2
  <2>4. CASE n = 0
    <3>1. m = snap.ledger
      BY <2>3, <2>4, AfterIs
    <3>2. 1..0 = {} /\ CommitsUpTo(0) = {}
      BY DEF CommitsUpTo
    <3>3. ReplayInv(0, snap.ledger)
      BY <3>2 DEF ReplayInv
    <3> QED BY <2>3, <2>4, <3>1, <3>3
  <2>5. CASE n # 0
    <3>1. n \in 1..N /\ n - 1 \in 0..N /\ ~ (n <= n - 1)
      BY <1>0, <2>2, <2>5
    <3>2. After(n) = Replayed(n, After(n - 1))
      <4> HIDE DEF Wrong
      <4> QED BY <3>1, AfterIs
    <3>3. PICK q \in After(n - 1) : m \in RecoveredLedger(Listing[n], q)
      <4> HIDE DEF Wrong
      <4> QED BY <2>3, <3>2 DEF Replayed
    <3>4. ReplayInv(n - 1, q)
      <4>1. n - 1 \notin Wrong
        BY <2>1, <3>1
      <4> QED BY <3>1, <3>3, <4>1
    <3>5. ReplayInv(n, m)
      <4> HIDE DEF Wrong
      <4> QED BY <3>1, <3>3, <3>4, ReplayStep
    <3> QED BY <2>3, <3>5
  <2> QED BY <2>4, <2>5
<1> QED BY <1>1

LEMMA RecoverySound ==
  ASSUME JournalShape(journal), LedgerInv(snap.ledger), NEW l \in Recovered
  PROVE  /\ LedgerInv(l)
         /\ l.applied = snap.ledger.applied \cup Decided
         /\ \A p \in Payments : journal.state[p] = "Prepared" => p \in l.applied \cup l.reserved
         /\ \A p \in l.reserved : \/ journal.state[p] = "Prepared"
                                  \/ p \in snap.ledger.reserved /\ journal.state[p] = "none"
<1> DEFINE N == Len(Listing)
<1>1. /\ N \in Nat /\ DOMAIN Listing = 1..N
      /\ ToSet(Listing) = {p \in Payments : journal.state[p] # "none"}
  BY ListingFacts
<1>2. N \in 0..N /\ l \in After(N)
  BY <1>1, AfterIs
<1>3. ReplayInv(N, l)
  <2> HIDE DEF N
  <2> QED BY <1>2, ReplaySound DEF N
<1>4. \A p \in Payments : journal.state[p] # "none" => \E i \in 1..N : p = Listing[i]
  BY <1>1 DEF ToSet
<1> HIDE DEF N
<1>5. CommitsUpTo(N) = Decided
  BY <1>4 DEF CommitsUpTo, Decided, CommitSide
<1>6. l.reserved \in SUBSET Payments
  BY <1>3 DEF ReplayInv, LedgerInv, Ledgers
<1>7. \A p \in Payments : journal.state[p] = "Prepared" => p \in l.applied \cup l.reserved
  BY <1>3, <1>4 DEF ReplayInv
<1>8. \A p \in l.reserved : \/ journal.state[p] = "Prepared"
                            \/ p \in snap.ledger.reserved /\ journal.state[p] = "none"
  BY <1>3, <1>4, <1>6 DEF ReplayInv
<1> QED BY <1>3, <1>5, <1>7, <1>8 DEF ReplayInv

-----------------------------------------------------------------------------
(* When money suffices.                                                    *)
LEMMA RoomMonotone ==
  ASSUME NEW t \in SUBSET Payments, NEW s \in SUBSET t, NEW b \in SUBSET Payments,
         NEW a \in SUBSET b, Room(t, a)
  PROVE  Room(s, b)
<1> SUFFICES ASSUME NEW c \in Channels, NEW side \in Sides
             PROVE  Out(s, c, side) <= Opening[c][side] + Out(b, c, Opposite(side))
  BY DEF Room
<1>1. Out(s, c, side) <= Out(t, c, side)
  BY OutMonotone
<1>2. Out(a, c, Opposite(side)) <= Out(b, c, Opposite(side))
  BY OutMonotone
<1>3. Out(t, c, side) <= Opening[c][side] + Out(a, c, Opposite(side))
  BY DEF Room
<1>4. s \in SUBSET Payments /\ a \in SUBSET Payments
  OBVIOUS
<1>5. /\ Out(s, c, side) \in Nat /\ Out(t, c, side) \in Nat
      /\ Out(a, c, Opposite(side)) \in Nat /\ Out(b, c, Opposite(side)) \in Nat
  BY <1>4, OutType
<1>6. Opening[c][side] \in Nat
  BY OpeningAssumption DEF Balances
<1> QED BY <1>1, <1>2, <1>3, <1>5, <1>6

(* A sound ledger has room for all it holds and has applied. *)
LEMMA RoomOfLedger ==
  ASSUME NEW l, LedgerInv(l)
  PROVE  Room(l.applied \cup l.reserved, l.applied)
<1> SUFFICES ASSUME NEW c \in Channels, NEW side \in Sides
             PROVE  Out(l.applied \cup l.reserved, c, side)
                      <= Opening[c][side] + Out(l.applied, c, Opposite(side))
  BY DEF Room
<1>1. /\ l.applied \in SUBSET Payments /\ l.reserved \in SUBSET Payments
      /\ l.applied \cap l.reserved = {}
  BY DEF LedgerInv, Ledgers
<1>2. Out(l.applied \cup l.reserved, c, side) = Out(l.applied, c, side) + Out(l.reserved, c, side)
  BY <1>1, OutUnion
<1> QED BY <1>2, LedgerSide

(* Conversely, where there is room a payment can be reserved. *)
LEMMA RoomFits ==
  ASSUME NEW l, LedgerInv(l), NEW p \in Payments, NEW t \in SUBSET Payments,
         l.applied \cup l.reserved \cup {p} \subseteq t, Room(t, l.applied)
  PROVE  Preparable(l, p)
<1> SUFFICES ASSUME p \notin l.applied \cup l.reserved PROVE Reservable(l, p)
  BY DEF Preparable
<1> SUFFICES ASSUME NEW hop \in Hops[p] PROVE Held(l, hop) + Amount[p] <= BalanceOf(l, hop)
  BY DEF Reservable
<1> DEFINE c == hop.channel
<1> DEFINE side == hop.from
<1>1. c \in Channels /\ side \in Sides /\ hop = [channel |-> c, from |-> side]
  BY HopsAssumption
<1>2. /\ l.applied \in SUBSET Payments /\ l.reserved \in SUBSET Payments
      /\ l.applied \cap l.reserved = {}
  BY DEF LedgerInv, Ledgers
<1> DEFINE all == (l.applied \cup l.reserved) \cup {p}
<1>3. Held(l, hop) = Out(l.reserved, c, side) /\ BalanceOf(l, hop) = l.balance[c][side]
  <2> HIDE DEF c, side
  <2>1. Held(l, [channel |-> c, from |-> side]) = Out(l.reserved, c, side)
    BY HeldIs
  <2> QED BY <1>1, <2>1 DEF BalanceOf, c, side
<1>4. Share(p, c, side) = Amount[p] /\ Amount[p] \in Nat
  BY <1>1, AmountAssumption DEF Share
<1> HIDE DEF c, side
<1>5. Out(all, c, side) = Out(l.applied \cup l.reserved, c, side) + Share(p, c, side)
  <2>1. l.applied \cup l.reserved \in SUBSET Payments
    BY <1>2
  <2> QED BY <2>1, OutAdd
<1>6. Out(l.applied \cup l.reserved, c, side) = Out(l.applied, c, side) + Out(l.reserved, c, side)
  BY <1>2, OutUnion
<1>7. Room(all, l.applied)
  <2>1. all \in SUBSET t
    BY <1>2
  <2> HIDE DEF all
  <2> QED BY <1>2, <2>1, RoomMonotone
<1>8. Out(all, c, side) <= Opening[c][side] + Out(l.applied, c, Opposite(side))
  BY <1>1, <1>7 DEF Room
<1>9. /\ l.balance[c][side] \in Nat /\ Opening[c][side] \in Nat
      /\ Out(l.reserved, c, side) \in Nat /\ Out(l.applied, c, side) \in Nat
      /\ Out(l.applied, c, Opposite(side)) \in Nat
      /\ l.balance[c][side] + Out(l.applied, c, side)
           = Opening[c][side] + Out(l.applied, c, Opposite(side))
  BY <1>1, LedgerSide
<1> HIDE DEF all
<1> QED BY <1>3, <1>4, <1>5, <1>6, <1>8, <1>9

(***************************************************************************)
(* The settlement of what is reserved never fails: with a sound ledger the *)
(* balance check before the hops move always passes.                       *)
(***************************************************************************)
LEMMA ReservedApplicable ==
  ASSUME NEW l, LedgerInv(l), NEW p \in l.reserved
  PROVE  Applicable(l, p)
<1> SUFFICES ASSUME NEW hop \in Hops[p] PROVE Amount[p] <= BalanceOf(l, hop)
  BY DEF Applicable
<1>1. l.reserved \in SUBSET Payments /\ p \in Payments
  BY DEF LedgerInv, Ledgers
<1> DEFINE c == hop.channel
<1> DEFINE side == hop.from
<1>2. c \in Channels /\ side \in Sides /\ hop = [channel |-> c, from |-> side]
  BY <1>1, HopsAssumption
<1>3. Share(p, c, side) = Amount[p] /\ Amount[p] \in Nat /\ BalanceOf(l, hop) = l.balance[c][side]
  BY <1>1, <1>2, AmountAssumption DEF Share, BalanceOf
<1> HIDE DEF c, side
<1> DEFINE rest == l.reserved \ {p}
<1>4. rest \in SUBSET Payments /\ p \notin rest /\ l.reserved = rest \cup {p}
  BY <1>1
<1> HIDE DEF rest
<1>5. Out(rest \cup {p}, c, side) = Out(rest, c, side) + Share(p, c, side)
  BY <1>1, <1>4, OutAdd
<1>6. Out(rest, c, side) \in Nat
  BY <1>4, OutType
<1>7. Out(l.reserved, c, side) <= l.balance[c][side] /\ l.balance[c][side] \in Nat
  BY <1>2, LedgerSide
<1>8. Out(l.reserved, c, side) = Out(rest, c, side) + Amount[p]
  BY <1>3, <1>4, <1>5
<1> QED BY <1>3, <1>6, <1>7, <1>8

(***************************************************************************)
(* A replay that has room for each decision, and in the end for what is    *)
(* prepared, does not fail.                                                *)
(***************************************************************************)
LEMMA ReplayContinues ==
  ASSUME JournalShape(journal), LedgerInv(snap.ledger), snap.ledger.reserved = {},
         Replays(snap.ledger.applied, journal.decided), Room(Decided \cup PreparedOnes, Decided),
         NEW k \in 1..Len(Listing), NEW l, ReplayInv(k - 1, l)
  PROVE  RecoveredLedger(Listing[k], l) # {}
<1> DEFINE p == Listing[k]
<1> DEFINE A == snap.ledger.applied
<1> DEFINE D == Len(journal.decided)
<1>1. /\ p \in Payments /\ k \in Nat /\ D \in Nat /\ D <= Len(Listing) /\ Len(Listing) \in Nat
      /\ LedgerInv(l) /\ l.applied = A \cup CommitsUpTo(k - 1)
  BY ListingFacts DEF ReplayInv
<1>2. A \in SUBSET Payments /\ l.applied \in SUBSET Payments /\ l.reserved \in SUBSET Payments
  BY <1>1 DEF LedgerInv, Ledgers
<1>3. \A q \in l.reserved : journal.state[q] = "Prepared" /\ \E i \in 1..(k - 1) : q = Listing[i]
  BY DEF ReplayInv
<1>4. journal.state[p] \in CommitSide <=> k <= D
  BY ListingFacts
<1>5. CASE journal.state[p] \in CommitSide
  <2>0. journal.state[p] # "Prepared"
    BY <1>5 DEF CommitSide
  <2>1. k <= D /\ k \in 1..D
    BY <1>1, <1>4, <1>5
  <2>2. CommitsUpTo(k - 1) = FirstOf(journal.decided, k - 1)
    <3>1. \A i \in 1..(k - 1) : i \in 1..D
      BY <1>1, <2>1
    <3>2. \A i \in 1..(k - 1) : /\ Listing[i] = journal.decided[i] /\ Listing[i] \in Payments
                                /\ journal.state[Listing[i]] \in CommitSide
      BY <3>1, ListingFacts
    <3> QED BY <3>2 DEF CommitsUpTo, FirstOf
  <2>3. FirstOf(journal.decided, k) = FirstOf(journal.decided, k - 1) \cup {p} /\ FirstOf(journal.decided, k) \in SUBSET Payments
    <3>1. 1..k = (1..(k - 1)) \cup {k}
      BY <1>1, <2>1
    <3>2. \A i \in 1..k : i \in 1..D
      BY <1>1, <2>1
    <3>3. \A i \in 1..k : Listing[i] = journal.decided[i] /\ Listing[i] \in Payments
      BY <3>2, ListingFacts
    <3> QED BY <3>1, <3>3 DEF FirstOf
  <2>4. l.reserved = {}
    <3>1. \A i \in 1..(k - 1) : i \in 1..D
      BY <1>1, <2>1
    <3>2. \A i \in 1..(k - 1) : journal.state[Listing[i]] \in CommitSide
      BY <3>1, ListingFacts
    <3> QED BY <1>3, <3>2 DEF CommitSide
  <2>5. Room(A \cup FirstOf(journal.decided, k), l.applied)
    BY <1>1, <2>1, <2>2 DEF Replays
  <2>6. Preparable(l, p)
    <3>1. A \cup FirstOf(journal.decided, k) \in SUBSET Payments
      BY <1>2, <2>3
    <3>2. l.applied \cup l.reserved \cup {p} \subseteq A \cup FirstOf(journal.decided, k)
      BY <1>1, <2>2, <2>3, <2>4
    <3> HIDE DEF p, A
    <3> QED BY <1>1, <2>5, <3>1, <3>2, RoomFits
  <2>7. Applicable(Prepare(l, p), p)
    <3>1. CASE p \in l.applied
      <4>1. Prepare(l, p) = l
        BY <3>1 DEF Prepare
      <4> QED BY <3>1, <4>1 DEF Applicable
    <3>2. CASE p \notin l.applied
      <4> HIDE DEF p
      <4>1. LedgerInv(Prepare(l, p)) /\ Prepare(l, p).reserved = l.reserved \cup {p}
        BY <1>1, <2>6, <3>2, PrepareSound
      <4> QED BY <4>1, ReservedApplicable
    <3> QED BY <3>1, <3>2
  <2>8. RecoveredLedger(p, l) = {Apply(Prepare(l, p), p)}
    BY <1>5, <2>0, <2>6, <2>7 DEF RecoveredLedger
  <2> QED BY <2>8
<1>6. CASE journal.state[p] = "Prepared"
  <2>0. journal.state[p] \notin CommitSide
    BY <1>6 DEF CommitSide
  <2>1. D <= k - 1
    BY <1>1, <1>4, <2>0
  <2>2. CommitsUpTo(k - 1) = Decided
    <3>1. ASSUME NEW q \in Decided PROVE \E i \in 1..(k - 1) : q = Listing[i]
      <4>1. q \in Payments /\ journal.state[q] \in CommitSide
        BY <3>1 DEF Decided
      <4>2. q \in ToSet(Listing)
        BY <4>1, ListingFacts DEF CommitSide
      <4>3. PICK i \in 1..Len(Listing) : q = Listing[i]
        BY <4>2, ListingFacts DEF ToSet
      <4>4. i <= D
        BY <4>1, <4>3, ListingFacts
      <4>5. i \in 1..(k - 1)
        BY <1>1, <2>1, <4>4
      <4> QED BY <4>3, <4>5
    <3> QED BY <3>1 DEF CommitsUpTo, Decided
  <2>3. l.applied = Decided
    <3>1. ToSet(journal.decided) = Decided
      BY DEF JournalShape, Decided
    <3> QED BY <1>1, <2>2, <3>1 DEF Replays
  <2>4. Preparable(l, p)
    <3>1. Decided \cup PreparedOnes \in SUBSET Payments
      BY DEF Decided, PreparedOnes
    <3>2. l.applied \cup l.reserved \cup {p} \subseteq Decided \cup PreparedOnes
      BY <1>1, <1>2, <1>3, <1>6, <2>3 DEF PreparedOnes
    <3> HIDE DEF p
    <3> QED BY <1>1, <2>3, <3>1, <3>2, RoomFits
  <2>5. RecoveredLedger(p, l) = {Prepare(l, p)}
    BY <1>6, <2>0, <2>4 DEF RecoveredLedger
  <2> QED BY <2>5
<1>7. CASE journal.state[p] \notin CommitSide \cup {"Prepared"}
  <2>1. RecoveredLedger(p, l) = {Release(l, p)}
    BY <1>7 DEF RecoveredLedger
  <2> QED BY <2>1
<1> QED BY <1>5, <1>6, <1>7

LEMMA RecoverySucceeds ==
  ASSUME JournalShape(journal), LedgerInv(snap.ledger), snap.ledger.reserved = {},
         Replays(snap.ledger.applied, journal.decided), Room(Decided \cup PreparedOnes, Decided)
  PROVE  Recovered # {}
<1> DEFINE N == Len(Listing)
<1> DEFINE Wrong == {n \in 0..N : After(n) = {}}
<1>0. N \in Nat
  BY ListingFacts
<1>1. Wrong = {}
  <2> SUFFICES ASSUME Wrong # {} PROVE FALSE
    OBVIOUS
  <2>1. PICK n \in Wrong : \A y \in Wrong : n <= y
    <3>1. Wrong \in SUBSET Nat
      OBVIOUS
    <3> HIDE DEF Wrong
    <3> QED BY <3>1, LeastOf
  <2>2. n \in 0..N /\ After(n) = {}
    OBVIOUS
  <2>3. n # 0
    BY <2>2, AfterIs
  <2>4. n \in 1..N /\ n - 1 \in 0..N /\ ~ (n <= n - 1)
    BY <1>0, <2>2, <2>3
  <2>5. n - 1 \notin Wrong
    BY <2>1, <2>4
  <2>6. PICK l \in After(n - 1) : TRUE
    BY <2>4, <2>5
  <2> HIDE DEF Wrong
  <2>7. ReplayInv(n - 1, l)
    BY <2>4, ReplaySound
  <2>8. RecoveredLedger(Listing[n], l) # {}
    BY <2>4, <2>7, ReplayContinues
  <2>9. After(n) = Replayed(n, After(n - 1))
    BY <2>4, AfterIs
  <2> QED BY <2>2, <2>6, <2>8, <2>9 DEF Replayed
<1>2. Recovered = After(N) /\ N \in 0..N
  BY <1>0, AfterIs
<1> QED BY <1>1, <1>2

-----------------------------------------------------------------------------
(* The initial state and the pieces of a step.                             *)
LEMMA TypeParts ==
  TypeOK <=> /\ ledger \in Ledgers /\ session \in [Payments -> Statuses]
             /\ preparing \in SUBSET Coordinated
             /\ saving \in [image : Images, for : SUBSET Local, active : BOOLEAN]
             /\ JournalShape(journal) /\ snap \in Images
             /\ status \in {"up", "down", "refused"}
             /\ acked \in SUBSET Local /\ created \in SUBSET Payments /\ crashes \in Nat
BY DEF TypeOK, JournalShape

LEMMA RoomEmpty == Room({}, {})
<1> SUFFICES ASSUME NEW c \in Channels, NEW side \in Sides
             PROVE  Out({}, c, side) <= Opening[c][side] + Out({}, c, Opposite(side))
  BY DEF Room
<1>1. Out({}, c, side) = 0 /\ Out({}, c, Opposite(side)) = 0
  BY OutEmpty
<1>2. Opening[c][side] \in Nat
  BY OpeningAssumption DEF Balances
<1> QED BY <1>1, <1>2

LEMMA NotSavingFacts ==
  /\ NotSaving \in [image : Images, for : SUBSET Local, active : BOOLEAN]
  /\ NotSaving.image \in Images /\ NotSaving.image.ledger \in Ledgers
  /\ NotSaving.image.session = [p \in Payments |-> "none"]
  /\ NotSaving.image.ledger.applied = {} /\ NotSaving.image.ledger.reserved = {}
  /\ ~ NotSaving.active /\ NotSaving.for = {}
  /\ LedgerInv(NotSaving.image.ledger)
<1> DEFINE l == [balance |-> Opening, reserved |-> {}, applied |-> {}]
<1> DEFINE s == [p \in Payments |-> "none"]
<1>1. l \in Ledgers /\ s \in [Payments -> Statuses]
  BY OpeningAssumption DEF Ledgers, Statuses
<1>2. NotSaving = [image |-> [ledger |-> l, session |-> s], for |-> {}, active |-> FALSE]
  BY DEF NotSaving
<1>3. l.applied = {} /\ l.reserved = {} /\ l.balance = Opening
  OBVIOUS
<1> HIDE DEF l, s
<1>4. Covered(l)
  <2> SUFFICES ASSUME NEW c \in Channels, NEW side \in Sides
               PROVE  Out({}, c, side) <= Opening[c][side]
    BY <1>3, HeldIs DEF Covered
  <2>1. Opening[c][side] \in Nat
    BY OpeningAssumption DEF Balances
  <2> QED BY <2>1, OutEmpty
<1>5. Explained(l)
  BY <1>3, OutEmpty DEF Explained
<1>6. LedgerInv(l)
  BY <1>1, <1>4, <1>5, <1>3 DEF LedgerInv
<1>7. /\ NotSaving.image = [ledger |-> l, session |-> s]
      /\ ~ NotSaving.active /\ NotSaving.for = {}
  BY <1>2
<1>8. NotSaving.image.ledger = l /\ NotSaving.image.session = s
  BY <1>7
<1>9. NotSaving.image \in Images
  BY <1>1, <1>7 DEF Images
<1> QED BY <1>1, <1>6, <1>2, <1>3, <1>7, <1>8, <1>9 DEF s

LEMMA InitInv == Init => InductiveInv
<1> SUFFICES ASSUME Init PROVE InductiveInv
  OBVIOUS
<1>1. /\ ledger = NotSaving.image.ledger /\ session = [p \in Payments |-> "none"]
      /\ preparing = {} /\ saving = NotSaving /\ snap = NotSaving.image
      /\ journal = [state |-> [p \in Payments |-> "none"], decided |-> <<>>, recent |-> <<>>]
      /\ status = "up" /\ acked = {} /\ created = {} /\ crashes = 0
  BY NotSavingFacts DEF Init
<1>2. JournalShape(journal)
  <2>1. /\ journal.state = [p \in Payments |-> "none"]
        /\ journal.decided = <<>> /\ journal.recent = <<>>
    BY <1>1
  <2>2. journal \in Journals
    BY <1>1 DEF Journals, States
  <2>3. /\ ToSet(<<>>) = {} /\ <<>> \o <<>> = <<>> /\ IsInjective(<<>>)
    BY DEF ToSet, IsInjective
  <2> QED BY <2>1, <2>2, <2>3 DEF JournalShape, CommitSide
<1>3. TypeOK
  BY <1>1, <1>2, NotSavingFacts, TypeParts DEF Statuses
<1>4. \A p \in Payments : EntryInv(p)
  BY <1>1 DEF EntryInv
<1>5. MemoryInv
  BY <1>1, NotSavingFacts DEF MemoryInv, PaymentInv, CommitSide
<1>6. Decided = {} /\ PreparedOnes = {}
  BY <1>1 DEF Decided, PreparedOnes, CommitSide
<1>7. FilesInv
  BY <1>1, NotSavingFacts DEF FilesInv, ImageInv
<1>8. Replays({}, <<>>)
  BY DEF Replays
<1>9. ReplayableInv
  BY <1>1, <1>6, <1>8, RoomEmpty, NotSavingFacts DEF ReplayableInv
<1> QED BY <1>1, <1>3, <1>4, <1>5, <1>7, <1>9 DEF InductiveInv, ParticipantRestarts

LEMMA ImageKept ==
  ASSUME NEW image, NEW decided, NEW later, decided \subseteq later,
         NEW known, NEW wider, known \subseteq wider, ImageInv(image, decided, known)
  PROVE  ImageInv(image, later, wider)
BY DEF ImageInv

(* A hub without payments of its own: what it applies or holds it has been *)
(* asked to, and its money suffices for what is decided or prepared.       *)
LEMMA ParticipantMemory ==
  ASSUME TypeOK, \A p \in Payments : EntryInv(p), MemoryInv, created = {}
  PROVE  /\ ledger.applied \subseteq Decided
         /\ Decided \cup PreparedOnes \subseteq ledger.applied \cup ledger.reserved
         /\ Room(ledger.applied \cup ledger.reserved, ledger.applied)
<1>1. ledger.applied \in SUBSET Payments
  BY DEF TypeOK, Ledgers
<1>2. ledger.applied \subseteq Decided
  BY <1>1 DEF MemoryInv, PaymentInv, Decided
<1>3. \A p \in Payments : journal.state[p] # "none" => p \in Participated
  BY KindsAssumption DEF EntryInv
<1>4. Decided \cup PreparedOnes \subseteq ledger.applied \cup ledger.reserved
  BY <1>3 DEF MemoryInv, PaymentInv, Decided, PreparedOnes, CommitSide
<1> QED BY <1>2, <1>4, RoomOfLedger DEF MemoryInv

LEMMA ParticipantRoom ==
  ASSUME NEW l, LedgerInv(l), NEW decided \in SUBSET Payments, NEW prepared,
         l.applied \subseteq decided, decided \cup prepared \subseteq l.applied \cup l.reserved
  PROVE  Room(decided \cup prepared, decided)
<1>1. l.applied \cup l.reserved \in SUBSET Payments
  BY DEF LedgerInv, Ledgers
<1>2. /\ decided \cup prepared \in SUBSET (l.applied \cup l.reserved)
      /\ l.applied \in SUBSET decided
      /\ Room(l.applied \cup l.reserved, l.applied)
  BY RoomOfLedger
<1> QED BY <1>1, <1>2, RoomMonotone

(* An image taken now replays. *)
LEMMA ReplaysNow ==
  ASSUME TypeOK, \A p \in Payments : EntryInv(p), MemoryInv, created = {}
  PROVE  Replays(ledger.applied, journal.decided)
<1>1. /\ ledger.applied \cup ledger.reserved \in SUBSET Payments
      /\ Decided \in SUBSET Payments /\ journal.decided \in Seq(Payments)
      /\ ToSet(journal.decided) = Decided
  BY DEF TypeOK, Ledgers, Journals, Decided
<1>2. /\ ledger.applied \subseteq Decided
      /\ Decided \subseteq ledger.applied \cup ledger.reserved
      /\ Room(ledger.applied \cup ledger.reserved, ledger.applied)
  BY ParticipantMemory
<1>3. ASSUME NEW k \in 1..Len(journal.decided)
      PROVE  Room(ledger.applied \cup FirstOf(journal.decided, k),
                  ledger.applied \cup FirstOf(journal.decided, k - 1))
  <2>1. FirstOf(journal.decided, k) \subseteq Decided
        /\ FirstOf(journal.decided, k - 1) \subseteq Decided
    <3>1. /\ \A i \in 1..k : i \in DOMAIN journal.decided
          /\ \A i \in 1..(k - 1) : i \in DOMAIN journal.decided
      BY <1>1
    <3> QED BY <1>1, <3>1 DEF FirstOf, ToSet
  <2>2. /\ ledger.applied \cup FirstOf(journal.decided, k)
             \in SUBSET (ledger.applied \cup ledger.reserved)
        /\ ledger.applied \cup FirstOf(journal.decided, k - 1) \in SUBSET Payments
        /\ ledger.applied \in SUBSET (ledger.applied \cup FirstOf(journal.decided, k - 1))
    BY <1>1, <1>2, <2>1
  <2> QED BY <1>1, <1>2, <2>2, RoomMonotone
<1> QED BY <1>1, <1>2, <1>3 DEF Replays

(* One more decision, for which the hub still holds the money. *)
LEMMA ReplaysMore ==
  ASSUME NEW order \in Seq(Payments), NEW p \in Payments, NEW applied, Replays(applied, order),
         Room(ToSet(order) \cup {p}, ToSet(order))
  PROVE  Replays(applied, Append(order, p))
<1> DEFINE more == Append(order, p)
<1> DEFINE n == Len(order)
<1>1. /\ n \in Nat /\ Len(more) = n + 1 /\ DOMAIN order = 1..n /\ more[n + 1] = p
      /\ \A i \in 1..n : more[i] = order[i]
      /\ DOMAIN more = 1..(n + 1)
  OBVIOUS
<1> HIDE DEF more, n
<1>2. /\ \A k \in 1..n : FirstOf(more, k) = FirstOf(order, k)
                         /\ FirstOf(more, k - 1) = FirstOf(order, k - 1)
      /\ FirstOf(more, n) = ToSet(order) /\ FirstOf(more, n + 1) = ToSet(order) \cup {p}
  <2>1. ASSUME NEW k \in 1..n
        PROVE  FirstOf(more, k) = FirstOf(order, k) /\ FirstOf(more, k - 1) = FirstOf(order, k - 1)
    <3>1. (\A i \in 1..k : i \in 1..n) /\ (\A i \in 1..(k - 1) : i \in 1..n)
      BY <1>1
    <3> QED BY <1>1, <3>1 DEF FirstOf
  <2>2. FirstOf(more, n) = ToSet(order)
    BY <1>1 DEF FirstOf, ToSet
  <2>3. 1..(n + 1) = (1..n) \cup {n + 1}
    BY <1>1
  <2>4. FirstOf(more, n + 1) = ToSet(order) \cup {p}
    BY <1>1, <2>3 DEF FirstOf, ToSet
  <2> QED BY <2>1, <2>2, <2>4
<1>3. applied \subseteq ToSet(order) /\ applied \subseteq ToSet(more)
  <2>1. ToSet(more) = FirstOf(more, n + 1)
    BY <1>1 DEF ToSet, FirstOf
  <2> QED BY <1>2, <2>1 DEF Replays
<1>4. ASSUME NEW k \in 1..(n + 1)
      PROVE  Room(applied \cup FirstOf(more, k), applied \cup FirstOf(more, k - 1))
  <2>1. CASE k \in 1..n
    BY <1>1, <1>2, <2>1 DEF Replays, n
  <2>2. CASE k = n + 1
    <3>1. k - 1 = n
      BY <1>1, <2>2
    <3>2. /\ applied \cup FirstOf(more, k) = ToSet(order) \cup {p}
          /\ applied \cup FirstOf(more, k - 1) = ToSet(order)
      BY <1>2, <1>3, <2>2, <3>1
    <3> QED BY <3>2
  <2> QED BY <1>1, <2>1, <2>2
<1> QED BY <1>1, <1>3, <1>4 DEF Replays, more

-----------------------------------------------------------------------------
(* A step for one payment: what it may touch.                              *)
Touches(p) ==
  /\ status = "up" /\ UNCHANGED <<saving, snap, status, acked, crashes>>
  /\ session' \in [Payments -> Statuses]
  /\ \A q \in Payments \ {p} : session'[q] = session[q]
  /\ LedgerInv(ledger')
  /\ ledger.applied \subseteq ledger'.applied
  /\ ledger'.applied \subseteq ledger.applied \cup {p}
  /\ \A q \in Payments \ {p} : q \in ledger'.reserved <=> q \in ledger.reserved
  /\ JournalShape(journal')
  /\ \A q \in Payments \ {p} : journal'.state[q] = journal.state[q]
  /\ journal.state[p] \in CommitSide => journal'.state[p] \in CommitSide
  /\ \/ journal'.decided = journal.decided
     \/ journal'.decided = Append(journal.decided, p) /\ ledger' = ledger
  /\ created \subseteq created' /\ created' \subseteq Local \cup Coordinated
  /\ preparing' \subseteq preparing \cup {p} /\ preparing' \subseteq Coordinated

LEMMA PaymentStep ==
  ASSUME InductiveInv, NEW p \in Payments, Touches(p), EntryInv(p)', PaymentInv(p)'
  PROVE  InductiveInv'
<1>1. /\ TypeOK /\ MemoryInv /\ FilesInv /\ ReplayableInv /\ status = "up" /\ status' = "up"
      /\ created \subseteq Local \cup Coordinated
      /\ \A q \in Payments : EntryInv(q)
      /\ \A q \in Payments : PaymentInv(q)
  BY DEF InductiveInv, MemoryInv, Touches
<1>2. /\ saving' = saving /\ snap' = snap /\ acked' = acked /\ crashes' = crashes
      /\ created' \subseteq Payments
  BY KindsAssumption DEF Touches
<1>3. TypeOK'
  <2>1. /\ ledger' \in Ledgers /\ session' \in [Payments -> Statuses]
        /\ preparing' \in SUBSET Coordinated
        /\ JournalShape(journal') /\ created' \in SUBSET Payments
    BY <1>2 DEF Touches, LedgerInv
  <2>2. JournalShape(journal)' <=> JournalShape(journal')
    BY DEF JournalShape
  <2> QED BY <1>1, <1>2, <2>1, <2>2, TypeParts DEF TypeOK, JournalShape
<1>4. \A q \in Payments : EntryInv(q)'
  <2> TAKE q \in Payments
  <2>1. CASE q = p
    BY <2>1
  <2>2. CASE q # p
    <3>1. journal'.state[q] = journal.state[q] /\ created \subseteq created'
          /\ (q \in preparing' => q \in preparing)
      BY <2>2 DEF Touches
    <3> QED BY <1>1, <3>1 DEF EntryInv
  <2> QED BY <2>1, <2>2
<1>5. \A q \in Payments : PaymentInv(q)'
  <2> TAKE q \in Payments
  <2>1. CASE q = p
    BY <2>1
  <2>2. CASE q # p
    <3>1. /\ session'[q] = session[q] /\ journal'.state[q] = journal.state[q]
          /\ (q \in ledger'.applied <=> q \in ledger.applied)
          /\ (q \in ledger'.reserved <=> q \in ledger.reserved)
          /\ (q \in created => q \in created')
      BY <2>2 DEF Touches
    <3>2. PaymentInv(q)
      BY <1>1
    <3> QED BY <3>1, <3>2 DEF PaymentInv
  <2> QED BY <2>1, <2>2
<1>6. MemoryInv'
  <2>1. acked' \cup saving'.for \subseteq ledger'.applied
    BY <1>1, <1>2 DEF MemoryInv, Touches
  <2>2. LedgerInv(ledger')
    BY DEF Touches
  <2> QED BY <1>5, <2>1, <2>2 DEF MemoryInv
<1>7. Decided \subseteq Decided'
  BY DEF Touches, Decided
<1>8. FilesInv'
  <2>1. created \subseteq created'
    BY DEF Touches
  <2>2. ImageInv(snap, Decided', created')
    BY <1>1, <1>7, <2>1, ImageKept DEF FilesInv
  <2>3. saving.active => ImageInv(saving.image, Decided', created')
    BY <1>1, <1>7, <2>1, ImageKept DEF FilesInv
  <2> QED BY <1>1, <1>2, <2>2, <2>3 DEF FilesInv
<1>9. ReplayableInv'
  <2> SUFFICES ASSUME created' = {}
               PROVE  /\ Room(Decided' \cup PreparedOnes', Decided')
                      /\ Replays(snap.ledger.applied, journal'.decided)
                      /\ saving.active => Replays(saving.image.ledger.applied, journal'.decided)
    BY <1>2 DEF ReplayableInv
  <2>1. created = {}
    BY DEF Touches
  <2>2. \A q \in Payments : journal'.state[q] # "none" => q \in Participated
    BY <1>4, KindsAssumption DEF EntryInv
  <2>3. ledger'.applied \subseteq Decided'
    <3>1. ledger'.applied \in SUBSET Payments
      BY DEF Touches, LedgerInv, Ledgers
    <3> QED BY <1>5, <3>1 DEF PaymentInv, Decided
  <2>4. Decided' \cup PreparedOnes' \subseteq ledger'.applied \cup ledger'.reserved
    BY <1>5, <2>2 DEF PaymentInv, Decided, PreparedOnes, CommitSide
  <2>5. Room(Decided' \cup PreparedOnes', Decided')
    <3>1. LedgerInv(ledger') /\ Decided' \in SUBSET Payments
      BY DEF Touches, Decided
    <3> QED BY <2>3, <2>4, <3>1, ParticipantRoom
  <2>6. /\ Replays(snap.ledger.applied, journal.decided)
        /\ saving.active => Replays(saving.image.ledger.applied, journal.decided)
    BY <1>1, <2>1 DEF ReplayableInv
  <2>7. CASE journal'.decided = journal.decided
    BY <2>5, <2>6, <2>7
  <2>8. CASE journal'.decided = Append(journal.decided, p) /\ ledger' = ledger
    <3>1. /\ journal.decided \in Seq(Payments) /\ ToSet(journal.decided) = Decided
          /\ ToSet(journal'.decided) = Decided'
      BY <1>1 DEF TypeOK, Journals, Decided, Touches, JournalShape
    <3>2. p \in Decided'
      <4>1. /\ Len(journal.decided) + 1 \in DOMAIN journal'.decided
            /\ journal'.decided[Len(journal.decided) + 1] = p
        BY <2>8, <3>1
      <4>2. p \in ToSet(journal'.decided)
        BY <4>1 DEF ToSet
      <4> QED BY <3>1, <4>2
    <3>3. ledger.applied \subseteq Decided
      BY <1>1, <2>1, ParticipantMemory
    <3>4. /\ Decided \cup {p} \subseteq ledger.applied \cup ledger.reserved
          /\ Decided \in SUBSET Payments /\ LedgerInv(ledger)
      BY <1>1, <1>7, <2>4, <2>8, <3>2 DEF Decided, MemoryInv
    <3>5. Room(ToSet(journal.decided) \cup {p}, ToSet(journal.decided))
      BY <3>1, <3>3, <3>4, ParticipantRoom
    <3> QED BY <2>5, <2>6, <2>8, <3>1, <3>5, ReplaysMore
  <2> QED BY <2>7, <2>8 DEF Touches
<1>10. ParticipantRestarts'
  BY <1>1 DEF ParticipantRestarts
<1>11. created' \subseteq Local \cup Coordinated
  BY DEF Touches
<1> QED BY <1>3, <1>4, <1>6, <1>8, <1>9, <1>10, <1>11 DEF InductiveInv

-----------------------------------------------------------------------------
(* The operations, one by one.                                             *)
LEMMA Serving ==
  ASSUME InductiveInv, status = "up", NEW p \in Payments
  PROVE  /\ EntryInv(p) /\ PaymentInv(p) /\ LedgerInv(ledger) /\ JournalShape(journal)
         /\ created \subseteq Local \cup Coordinated /\ preparing \subseteq Coordinated
         /\ session \in [Payments -> Statuses] /\ journal.state \in [Payments -> States]
         /\ ledger \in Ledgers /\ ledger.reserved \cap ledger.applied = {}
         /\ p \in Local \cup Coordinated => p \notin Participated
         /\ p \in Local \/ p \in Coordinated \/ p \in Participated
         /\ p \in Local => p \notin Coordinated
BY KindsAssumption, TypeParts DEF InductiveInv, MemoryInv, LedgerInv, JournalShape, Journals

LEMMA CreateInv ==
  ASSUME InductiveInv, NEW p \in Payments, Create(p)
  PROVE  InductiveInv'
<1>1. /\ status = "up" /\ p \in Local \cup Coordinated /\ session[p] = "none"
      /\ journal.state[p] = "none" /\ p \notin ledger.applied /\ Reservable(ledger, p)
      /\ ledger' = Reserve(ledger, p) /\ session' = [session EXCEPT ![p] = "collecting"]
      /\ created' = created \cup {p}
      /\ UNCHANGED <<preparing, saving, journal, snap, status, acked, crashes>>
  BY DEF Create
<1>2. /\ LedgerInv(ledger') /\ ledger'.reserved = ledger.reserved \cup {p}
      /\ ledger'.applied = ledger.applied
  BY <1>1, Serving, ReserveSound
<1>3. Touches(p)
  BY <1>1, <1>2, Serving DEF Touches, Statuses
<1>4. EntryInv(p)'
  BY <1>1, Serving DEF EntryInv
<1>5. session'[p] = "collecting"
  BY <1>1, Serving
<1>6. PaymentInv(p)'
  BY <1>1, <1>2, <1>5, Serving DEF PaymentInv, CommitSide
<1> QED BY <1>3, <1>4, <1>6, PaymentStep

LEMMA SignLastInv ==
  ASSUME InductiveInv, NEW p \in Payments, SignLast(p)
  PROVE  InductiveInv'
<1>1. /\ status = "up" /\ session[p] = "collecting"
      /\ UNCHANGED <<preparing, saving, journal, snap, status, acked, created, crashes>>
  BY DEF SignLast
<1>2. p \in created /\ p \in Local \cup Coordinated /\ p \notin Participated
  BY <1>1, Serving DEF PaymentInv
<1>3. EntryInv(p)'
  BY <1>1, Serving DEF EntryInv
<1>4. CASE p \in Local
  <2>1. /\ Applicable(ledger, p) /\ ledger' = Apply(ledger, p)
        /\ session' = [session EXCEPT ![p] = "settled"]
    BY <1>4 DEF SignLast
  <2>2. /\ LedgerInv(ledger') /\ ledger'.reserved = ledger.reserved \ {p}
        /\ ledger'.applied = ledger.applied \cup {p}
    BY <1>1, <2>1, Serving, ApplySound
  <2>3. Touches(p)
    BY <1>1, <2>1, <2>2, Serving DEF Touches, Statuses
  <2>4. session'[p] = "settled"
    BY <1>1, <2>1, Serving
  <2>5. PaymentInv(p)'
    BY <1>1, <1>2, <1>4, <2>2, <2>4 DEF PaymentInv
  <2> QED BY <1>3, <2>3, <2>5, PaymentStep
<1>5. CASE p \notin Local
  <2>1. ledger' = ledger /\ session' = [session EXCEPT ![p] = "committing"]
    BY <1>5 DEF SignLast
  <2>2. Touches(p)
    BY <1>1, <2>1, Serving DEF Touches, Statuses
  <2>3. session'[p] = "committing"
    BY <1>1, <2>1, Serving
  <2>4. PaymentInv(p)'
    BY <1>1, <1>2, <2>1, <2>3, Serving DEF PaymentInv
  <2> QED BY <1>3, <2>2, <2>4, PaymentStep
<1> QED BY <1>4, <1>5

(* A session that is closed gives its reservation back. *)
LEMMA CloseKeeps ==
  ASSUME InductiveInv, status = "up", NEW p \in Payments, Close(p)
  PROVE  /\ LedgerInv(ledger') /\ ledger'.reserved = ledger.reserved \ {p}
         /\ ledger'.applied = ledger.applied
         /\ session' \in [Payments -> Statuses] /\ session'[p] = "failed"
         /\ \A q \in Payments \ {p} : session'[q] = session[q]
<1>1. ledger' = [ledger EXCEPT !.reserved = ledger.reserved \ {p}]
  BY DEF Close
<1>2. LedgerInv([ledger EXCEPT !.reserved = ledger.reserved \ {p}])
  BY Serving, FewerReserved
<1> QED BY <1>1, <1>2, Serving DEF Close, Ledgers, Statuses

LEMMA CloseSessionInv ==
  ASSUME InductiveInv, NEW p \in Payments, CloseSession(p)
  PROVE  InductiveInv'
<1>1. /\ status = "up" /\ session[p] = "collecting" /\ Close(p)
      /\ UNCHANGED <<preparing, saving, journal, snap, status, acked, created, crashes>>
  BY DEF CloseSession
<1>2. p \in created /\ p \notin Participated
  BY <1>1, Serving DEF PaymentInv
<1>3. EntryInv(p)'
  BY <1>1, Serving DEF EntryInv
<1>4. Touches(p)
  BY <1>1, CloseKeeps, Serving DEF Touches
<1>5. PaymentInv(p)'
  BY <1>1, <1>2, CloseKeeps, Serving DEF PaymentInv
<1> QED BY <1>3, <1>4, <1>5, PaymentStep

(* A step that only appends a record of p. *)
LEMMA RecordStep ==
  ASSUME InductiveInv, status = "up", NEW p \in Payments, NEW state \in States \ {"none"},
         Record(p, state),
         state = "CommitDecided" => journal.state[p] \notin CommitSide,
         state = "Committed" => journal.state[p] \in CommitSide,
         state \notin CommitSide => journal.state[p] \notin CommitSide,
         LedgerInv(ledger'), ledger'.applied = ledger.applied,
         \A q \in Payments \ {p} : q \in ledger'.reserved <=> q \in ledger.reserved,
         state = "CommitDecided" => ledger' = ledger,
         session' \in [Payments -> Statuses],
         \A q \in Payments \ {p} : session'[q] = session[q],
         preparing' \subseteq preparing \cup {p}, preparing' \subseteq Coordinated,
         UNCHANGED <<saving, snap, status, acked, created, crashes>>
  PROVE  Touches(p) /\ journal'.state[p] = state
<1>1. /\ JournalShape(journal')
      /\ journal'.state = [journal.state EXCEPT ![p] = state]
      /\ journal'.decided = IF state = "CommitDecided" THEN Append(journal.decided, p)
                                                       ELSE journal.decided
  BY Serving, RecordSound
<1>2. /\ journal'.state[p] = state
      /\ \A q \in Payments \ {p} : journal'.state[q] = journal.state[q]
      /\ journal.state[p] \in CommitSide => journal'.state[p] \in CommitSide
  BY <1>1, Serving
<1>3. \/ journal'.decided = journal.decided
      \/ journal'.decided = Append(journal.decided, p) /\ ledger' = ledger
  BY <1>1
<1>4. created' \subseteq Local \cup Coordinated /\ created \subseteq created'
  BY Serving
<1> QED BY <1>1, <1>2, <1>3, <1>4 DEF Touches

LEMMA JournalPreparingInv ==
  ASSUME InductiveInv, NEW p \in Payments, JournalPreparing(p)
  PROVE  InductiveInv'
<1>1. /\ status = "up" /\ p \in Coordinated /\ journal.state[p] = "none"
      /\ p \in ledger.reserved /\ Record(p, "Preparing") /\ preparing' = preparing \cup {p}
      /\ UNCHANGED <<ledger, session, saving, snap, status, acked, created, crashes>>
  BY DEF JournalPreparing
<1>2. Touches(p) /\ journal'.state[p] = "Preparing"
  BY <1>1, Serving, RecordStep DEF States, CommitSide
<1>3. p \in created
  BY <1>1, Serving DEF PaymentInv
<1>4. EntryInv(p)'
  BY <1>1, <1>2, <1>3, Serving DEF EntryInv
<1>5. PaymentInv(p)'
  BY <1>1, <1>2, Serving DEF PaymentInv, CommitSide
<1> QED BY <1>2, <1>4, <1>5, PaymentStep

LEMMA JournalPreparedInv ==
  ASSUME InductiveInv, NEW p \in Payments, JournalPrepared(p)
  PROVE  InductiveInv'
<1>1. /\ status = "up" /\ p \in preparing /\ Record(p, "Prepared")
      /\ preparing' = preparing \ {p}
      /\ UNCHANGED <<ledger, session, saving, snap, status, acked, created, crashes>>
  BY DEF JournalPrepared
<1>2. p \in Coordinated /\ journal.state[p] = "Preparing"
  BY <1>1, Serving DEF EntryInv
<1>3. Touches(p) /\ journal'.state[p] = "Prepared"
  BY <1>1, <1>2, Serving, RecordStep DEF States, CommitSide
<1>4. EntryInv(p)'
  BY <1>1, <1>2, <1>3, Serving DEF EntryInv
<1>5. PaymentInv(p)'
  BY <1>1, <1>2, <1>3, Serving DEF PaymentInv, CommitSide
<1> QED BY <1>3, <1>4, <1>5, PaymentStep

LEMMA AbortDecideInv ==
  ASSUME InductiveInv, NEW p \in Payments, AbortDecide(p)
  PROVE  InductiveInv'
<1>1. /\ status = "up" /\ p \in Coordinated /\ journal.state[p] \in {"Preparing", "Prepared"}
      /\ Record(p, "AbortDecided") /\ preparing' = preparing \ {p}
      /\ UNCHANGED <<ledger, session, saving, snap, status, acked, created, crashes>>
  BY DEF AbortDecide
<1>2. Touches(p) /\ journal'.state[p] = "AbortDecided"
  BY <1>1, Serving, RecordStep DEF States, CommitSide, AbortSide
<1>3. EntryInv(p)'
  BY <1>1, <1>2, Serving DEF EntryInv
<1>4. PaymentInv(p)'
  BY <1>1, <1>2, Serving DEF PaymentInv, CommitSide
<1> QED BY <1>2, <1>3, <1>4, PaymentStep

LEMMA AbortFinishInv ==
  ASSUME InductiveInv, NEW p \in Payments, AbortFinish(p)
  PROVE  InductiveInv'
<1>1. /\ status = "up" /\ journal.state[p] = "AbortDecided"
      /\ UNCHANGED <<preparing, saving, snap, status, acked, created, crashes>>
  BY DEF AbortFinish
<1>2. PICK state \in {"Aborted", "AbortDecided"} : Record(p, state)
  BY DEF AbortFinish
<1>3. p \in Coordinated /\ p \in created /\ p \notin preparing
  BY <1>1, Serving DEF EntryInv
<1>4. /\ LedgerInv(ledger') /\ ledger'.applied = ledger.applied
      /\ \A q \in Payments \ {p} : q \in ledger'.reserved <=> q \in ledger.reserved
      /\ p \in ledger'.reserved => p \in ledger.reserved /\ session'[p] = session[p]
      /\ session' \in [Payments -> Statuses]
      /\ \A q \in Payments \ {p} : session'[q] = session[q]
      /\ session'[p] = "settled" => session[p] = "settled"
  <2>1. CASE session[p] \in {"collecting", "failed"}
    <3>1. Close(p)
      BY <2>1 DEF AbortFinish
    <3> QED BY <1>1, <3>1, CloseKeeps
  <2>2. CASE session[p] \notin {"collecting", "failed"}
    <3>1. ledger' = ledger /\ session' = session
      BY <2>2 DEF AbortFinish
    <3> QED BY <1>1, <3>1, Serving
  <2> QED BY <2>1, <2>2
<1>5. Touches(p) /\ journal'.state[p] = state
  <2>1. state \in States \ {"none"} /\ state \notin CommitSide
        /\ journal.state[p] \notin CommitSide
    BY <1>1 DEF States, CommitSide, AbortSide
  <2>2. preparing' \subseteq preparing \cup {p} /\ preparing' \subseteq Coordinated
    BY <1>1, Serving
  <2> QED BY <1>1, <1>2, <1>4, <2>1, <2>2, RecordStep DEF CommitSide
<1>6. EntryInv(p)'
  BY <1>1, <1>3, <1>5, Serving DEF EntryInv
<1>7. PaymentInv(p)'
  BY <1>1, <1>3, <1>4, <1>5, Serving DEF PaymentInv, CommitSide
<1> QED BY <1>5, <1>6, <1>7, PaymentStep

LEMMA CommitDecideInv ==
  ASSUME InductiveInv, NEW p \in Payments, CommitDecide(p)
  PROVE  InductiveInv'
<1>1. /\ status = "up" /\ p \in Coordinated /\ journal.state[p] = "Prepared"
      /\ session[p] = "committing" /\ Record(p, "CommitDecided")
      /\ UNCHANGED <<ledger, session, preparing, saving, snap, status, acked, created, crashes>>
  BY DEF CommitDecide
<1>2. Touches(p) /\ journal'.state[p] = "CommitDecided"
  BY <1>1, Serving, RecordStep DEF States, CommitSide
<1>3. EntryInv(p)'
  BY <1>1, <1>2, Serving DEF EntryInv
<1>4. PaymentInv(p)'
  BY <1>1, <1>2, Serving DEF PaymentInv, CommitSide
<1> QED BY <1>2, <1>3, <1>4, PaymentStep

LEMMA HandlePrepareInv ==
  ASSUME InductiveInv, NEW p \in Payments, HandlePrepare(p)
  PROVE  InductiveInv'
<1>1. /\ status = "up" /\ p \in Participated /\ journal.state[p] = "none"
      /\ Preparable(ledger, p) /\ ledger' = Prepare(ledger, p) /\ Record(p, "Prepared")
      /\ UNCHANGED <<session, preparing, saving, snap, status, acked, created, crashes>>
  BY DEF HandlePrepare
<1>2. p \notin ledger.applied
  BY <1>1, Serving DEF PaymentInv, CommitSide
<1>3. /\ LedgerInv(ledger') /\ ledger'.applied = ledger.applied
      /\ ledger'.reserved = ledger.reserved \cup {p}
  BY <1>1, <1>2, Serving, PrepareSound
<1>4. Touches(p) /\ journal'.state[p] = "Prepared"
  BY <1>1, <1>3, Serving, RecordStep DEF States, CommitSide
<1>5. EntryInv(p)'
  BY <1>1, <1>4, Serving DEF EntryInv
<1>6. PaymentInv(p)'
  BY <1>1, <1>2, <1>3, <1>4, Serving DEF PaymentInv, CommitSide
<1> QED BY <1>4, <1>5, <1>6, PaymentStep

LEMMA HandleCommitInv ==
  ASSUME InductiveInv, NEW p \in Payments, HandleCommit(p)
  PROVE  InductiveInv'
<1>1. /\ status = "up" /\ p \in Participated /\ journal.state[p] = "Prepared"
      /\ Record(p, "CommitDecided")
      /\ UNCHANGED <<ledger, session, preparing, saving, snap, status, acked, created, crashes>>
  BY DEF HandleCommit
<1>2. Touches(p) /\ journal'.state[p] = "CommitDecided"
  BY <1>1, Serving, RecordStep DEF States, CommitSide
<1>3. EntryInv(p)'
  BY <1>1, <1>2, Serving DEF EntryInv
<1>4. PaymentInv(p)'
  BY <1>1, <1>2, Serving DEF PaymentInv, CommitSide
<1> QED BY <1>2, <1>3, <1>4, PaymentStep

LEMMA HandleAbortInv ==
  ASSUME InductiveInv, NEW p \in Payments, HandleAbort(p)
  PROVE  InductiveInv'
<1>1. /\ status = "up" /\ p \in Participated /\ journal.state[p] \in {"none", "Prepared"}
      /\ Record(p, "Aborted") /\ ledger' = Release(ledger, p)
      /\ UNCHANGED <<session, preparing, saving, snap, status, acked, created, crashes>>
  BY DEF HandleAbort
<1>2. p \notin ledger.applied
  BY <1>1, Serving DEF PaymentInv, CommitSide
<1>3. /\ LedgerInv(ledger') /\ ledger'.applied = ledger.applied
      /\ ledger'.reserved = ledger.reserved \ {p}
  BY <1>1, Serving, ReleaseSound
<1>4. Touches(p) /\ journal'.state[p] = "Aborted"
  BY <1>1, <1>3, Serving, RecordStep DEF States, CommitSide, AbortSide
<1>5. EntryInv(p)'
  BY <1>1, <1>4, Serving DEF EntryInv
<1>6. PaymentInv(p)'
  BY <1>1, <1>2, <1>3, <1>4, Serving DEF PaymentInv, CommitSide
<1> QED BY <1>4, <1>5, <1>6, PaymentStep

LEMMA ApplyDecidedInv ==
  ASSUME InductiveInv, NEW p \in Payments, ApplyDecided(p)
  PROVE  InductiveInv'
<1>1. /\ status = "up" /\ journal.state[p] = "CommitDecided" /\ Applicable(ledger, p)
      /\ p \notin ledger.applied /\ ledger' = Apply(ledger, p)
      /\ UNCHANGED <<session, preparing, saving, journal, snap, status, acked, created, crashes>>
  BY DEF ApplyDecided
<1>2. /\ LedgerInv(ledger') /\ ledger'.applied = ledger.applied \cup {p}
      /\ ledger'.reserved = ledger.reserved \ {p}
  BY <1>1, Serving, ApplySound
<1>3. Touches(p)
  BY <1>1, <1>2, Serving DEF Touches
<1>4. EntryInv(p)'
  BY <1>1, Serving DEF EntryInv
<1>5. PaymentInv(p)'
  BY <1>1, <1>2, <1>4, Serving DEF PaymentInv, EntryInv, CommitSide
<1> QED BY <1>3, <1>4, <1>5, PaymentStep

LEMMA RecordCommittedInv ==
  ASSUME InductiveInv, NEW p \in Payments, RecordCommitted(p)
  PROVE  InductiveInv'
<1>1. /\ status = "up" /\ journal.state[p] = "CommitDecided" /\ p \in ledger.applied
      /\ Record(p, "Committed")
      /\ UNCHANGED <<ledger, session, preparing, saving, snap, status, acked, created, crashes>>
  BY DEF RecordCommitted
<1>2. Touches(p) /\ journal'.state[p] = "Committed"
  BY <1>1, Serving, RecordStep DEF States, CommitSide
<1>3. EntryInv(p)'
  BY <1>1, <1>2, Serving DEF EntryInv
<1>4. PaymentInv(p)'
  BY <1>1, <1>2, Serving DEF PaymentInv, CommitSide
<1> QED BY <1>2, <1>3, <1>4, PaymentStep

LEMMA MarkSettledInv ==
  ASSUME InductiveInv, NEW p \in Payments, MarkSettled(p)
  PROVE  InductiveInv'
<1>1. /\ status = "up" /\ p \in Coordinated /\ journal.state[p] = "Committed"
      /\ p \in ledger.applied /\ session[p] \notin {"none", "settled"}
      /\ session' = [session EXCEPT ![p] = "settled"]
      /\ UNCHANGED <<ledger, preparing, saving, journal, snap, status, acked, created, crashes>>
  BY DEF MarkSettled
<1>2. Touches(p)
  BY <1>1, Serving DEF Touches, Statuses
<1>3. EntryInv(p)'
  BY <1>1, Serving DEF EntryInv
<1>4. session'[p] = "settled"
  BY <1>1, Serving
<1>5. PaymentInv(p)'
  BY <1>1, <1>4, Serving DEF PaymentInv, CommitSide
<1> QED BY <1>2, <1>3, <1>5, PaymentStep

-----------------------------------------------------------------------------
(* Snapshots, crashes and restarts.                                        *)
LEMMA ExportedImage ==
  ASSUME InductiveInv, status = "up"
  PROVE  /\ Exported \in Images /\ ImageInv(Exported, Decided, created)
         /\ Exported.ledger.applied = ledger.applied
<1> DEFINE kept == {p \in Payments : session[p] \in {"collecting", "committing", "settled"}}
<1> DEFINE l == [ledger EXCEPT !.reserved = ledger.reserved \cap kept]
<1> DEFINE s == [p \in Payments |-> IF p \in kept THEN session[p] ELSE "none"]
<1>1. MemoryInv /\ TypeOK
  BY DEF InductiveInv
<1>2. Exported = [ledger |-> l, session |-> s]
  BY DEF Exported
<1>3. /\ ledger \in Ledgers /\ ledger.reserved \cap ledger.applied = {} /\ LedgerInv(ledger)
      /\ session \in [Payments -> Statuses]
  BY <1>1 DEF MemoryInv, LedgerInv, TypeOK
<1>4. LedgerInv(l)
  BY <1>3, FewerReserved
<1>5. l \in Ledgers /\ l.applied = ledger.applied /\ l.reserved = ledger.reserved \cap kept
  BY <1>3 DEF Ledgers
<1>6. s \in [Payments -> Statuses]
  BY <1>3 DEF Statuses
<1>7. \A p \in Payments :
        /\ s[p] # "none" => s[p] = session[p] /\ p \in kept
        /\ p \in kept => s[p] = session[p] /\ s[p] \in {"collecting", "committing", "settled"}
  OBVIOUS
<1> HIDE DEF l, s, kept
<1>8. Exported.ledger = l /\ Exported.session = s
  BY <1>2
<1>9. ImageInv(Exported, Decided, created)
  <2> SUFFICES ASSUME NEW p \in Payments
               PROVE  /\ s[p] # "none" => p \in created
                      /\ s[p] # "failed"
                      /\ s[p] = "settled" => p \in l.applied
                      /\ p \in l.reserved => s[p] \in {"collecting", "committing"}
                      /\ p \in l.applied => p \in IF p \in Local THEN created ELSE Decided
    BY <1>4, <1>8 DEF ImageInv
  <2>1. PaymentInv(p)
    BY <1>1 DEF MemoryInv
  <2>2. s[p] # "none" => p \in created
    BY <1>7, <2>1 DEF PaymentInv
  <2>3. s[p] # "failed"
    BY <1>7
  <2>4. s[p] = "settled" => p \in l.applied
    BY <1>5, <1>7, <2>1 DEF PaymentInv
  <2>5. p \in l.reserved => s[p] \in {"collecting", "committing"}
    BY <1>3, <1>5, <1>7, <2>1 DEF PaymentInv
  <2>6. p \in l.applied => p \in IF p \in Local THEN created ELSE Decided
    BY <1>5, <2>1 DEF PaymentInv, Decided
  <2> QED BY <2>2, <2>3, <2>4, <2>5, <2>6
<1>10. Exported \in Images
  BY <1>2, <1>5, <1>6 DEF Images
<1> QED BY <1>5, <1>8, <1>9, <1>10

LEMMA BeginSaveInv ==
  ASSUME InductiveInv, BeginSave
  PROVE  InductiveInv'
<1>1. /\ status = "up" /\ ~ saving.active
      /\ UNCHANGED <<ledger, session, preparing, journal, snap, status, acked, created, crashes>>
  BY DEF BeginSave
<1>2. PICK waiting \in {{}} \cup {{p} : p \in {q \in Local : session[q] = "settled"}} :
        saving' = [image |-> Exported, for |-> waiting, active |-> TRUE]
  BY DEF BeginSave
<1>3. /\ TypeOK /\ MemoryInv /\ FilesInv /\ ReplayableInv
      /\ \A p \in Payments : EntryInv(p)
      /\ \A p \in Payments : PaymentInv(p)
      /\ created \subseteq Local \cup Coordinated /\ ParticipantRestarts
  BY <1>1 DEF InductiveInv, MemoryInv
<1>4. waiting \subseteq Local /\ waiting \subseteq ledger.applied
  <2>1. \A q \in Local : session[q] = "settled" => q \in ledger.applied
    BY <1>3, KindsAssumption DEF PaymentInv
  <2> QED BY <2>1
<1>5. /\ saving'.image = Exported /\ saving'.for = waiting /\ saving'.active
      /\ Exported \in Images /\ ImageInv(Exported, Decided, created)
      /\ Exported.ledger.applied = ledger.applied
  BY <1>1, <1>2, ExportedImage
<1>6. TypeOK'
  <2>1. saving' \in [image : Images, for : SUBSET Local, active : BOOLEAN]
    BY <1>2, <1>4, <1>5
  <2> QED BY <1>1, <1>3, <2>1 DEF TypeOK
<1>7. MemoryInv'
  <2>1. \A p \in Payments : PaymentInv(p)'
    BY <1>1, <1>3 DEF PaymentInv
  <2>2. acked' \cup saving'.for \subseteq ledger'.applied
    BY <1>1, <1>3, <1>4, <1>5 DEF MemoryInv
  <2> QED BY <1>1, <1>3, <2>1, <2>2 DEF MemoryInv
<1>8. Decided' = Decided /\ PreparedOnes' = PreparedOnes
  BY <1>1 DEF Decided, PreparedOnes
<1>9. FilesInv'
  <2>1. acked' \cup saving'.for \subseteq saving'.image.ledger.applied
    BY <1>1, <1>3, <1>4, <1>5 DEF MemoryInv
  <2>2. status' = "up" /\ ImageInv(saving'.image, Decided', created') /\ saving'.active
    BY <1>1, <1>5, <1>8
  <2>3. ImageInv(snap', Decided', created') /\ acked' \subseteq snap'.ledger.applied
    BY <1>1, <1>3, <1>8 DEF FilesInv
  <2> QED BY <2>1, <2>2, <2>3 DEF FilesInv
<1>10. ReplayableInv'
  <2> SUFFICES ASSUME created = {}
               PROVE  /\ Room(Decided \cup PreparedOnes, Decided)
                      /\ Replays(snap.ledger.applied, journal.decided)
                      /\ Replays(ledger.applied, journal.decided)
    BY <1>1, <1>5, <1>8 DEF ReplayableInv
  <2>1. Replays(ledger.applied, journal.decided)
    BY <1>3, ReplaysNow
  <2> QED BY <1>3, <2>1 DEF ReplayableInv
<1>11. \A p \in Payments : EntryInv(p)'
  BY <1>1, <1>3 DEF EntryInv
<1> QED BY <1>1, <1>3, <1>6, <1>7, <1>9, <1>10, <1>11 DEF InductiveInv, ParticipantRestarts

LEMMA EndSaveInv ==
  ASSUME InductiveInv, EndSave
  PROVE  InductiveInv'
<1>1. /\ status = "up" /\ saving.active /\ snap' = saving.image
      /\ acked' = acked \cup saving.for /\ saving' = NotSaving
      /\ UNCHANGED <<ledger, session, preparing, journal, status, created, crashes>>
  BY DEF EndSave
<1>2. /\ TypeOK /\ MemoryInv /\ FilesInv /\ ReplayableInv
      /\ \A p \in Payments : EntryInv(p)
      /\ \A p \in Payments : PaymentInv(p)
      /\ created \subseteq Local \cup Coordinated /\ ParticipantRestarts
  BY <1>1 DEF InductiveInv, MemoryInv
<1>3. ~ saving'.active /\ saving'.for = {}
      /\ saving' \in [image : Images, for : SUBSET Local, active : BOOLEAN]
  BY <1>1, NotSavingFacts
<1>4. TypeOK'
  BY <1>1, <1>2, <1>3 DEF TypeOK
<1>5. MemoryInv'
  <2>1. \A p \in Payments : PaymentInv(p)'
    BY <1>1, <1>2 DEF PaymentInv
  <2>2. acked' \cup saving'.for \subseteq ledger'.applied
    BY <1>1, <1>2, <1>3 DEF MemoryInv
  <2> QED BY <1>1, <1>2, <2>1, <2>2 DEF MemoryInv
<1>6. Decided' = Decided /\ PreparedOnes' = PreparedOnes
  BY <1>1 DEF Decided, PreparedOnes
<1>7. FilesInv'
  BY <1>1, <1>2, <1>3, <1>6 DEF FilesInv
<1>8. ReplayableInv'
  BY <1>1, <1>2, <1>3, <1>6 DEF ReplayableInv
<1>9. \A p \in Payments : EntryInv(p)'
  BY <1>1, <1>2 DEF EntryInv
<1> QED BY <1>1, <1>2, <1>4, <1>5, <1>7, <1>8, <1>9 DEF InductiveInv, ParticipantRestarts

LEMMA CrashInv ==
  ASSUME InductiveInv, Crash
  PROVE  InductiveInv'
<1>1. /\ status = "up" /\ crashes' = crashes + 1 /\ status' = "down"
      /\ ledger' = NotSaving.image.ledger /\ session' = NotSaving.image.session
      /\ preparing' = {} /\ saving' = NotSaving
      /\ UNCHANGED <<journal, snap, acked, created>>
  BY DEF Crash
<1>2. /\ TypeOK /\ FilesInv /\ ReplayableInv
      /\ \A p \in Payments : EntryInv(p)
      /\ created \subseteq Local \cup Coordinated
  BY DEF InductiveInv
<1>3. ~ saving'.active /\ saving'.for = {}
      /\ saving' \in [image : Images, for : SUBSET Local, active : BOOLEAN]
      /\ ledger' \in Ledgers /\ session' \in [Payments -> Statuses]
  BY <1>1, NotSavingFacts DEF Statuses
<1>4. TypeOK'
  BY <1>1, <1>2, <1>3 DEF TypeOK
<1>5. Decided' = Decided /\ PreparedOnes' = PreparedOnes
  BY <1>1 DEF Decided, PreparedOnes
<1>6. FilesInv'
  BY <1>1, <1>2, <1>3, <1>5 DEF FilesInv
<1>7. ReplayableInv'
  BY <1>1, <1>2, <1>3, <1>5 DEF ReplayableInv
<1>8. \A p \in Payments : EntryInv(p)'
  BY <1>1, <1>2 DEF EntryInv
<1> QED BY <1>1, <1>2, <1>4, <1>6, <1>7, <1>8 DEF InductiveInv, ParticipantRestarts

(* A payment after recover_local, from the snapshot and the journal. *)
LEMMA RecoveredPayment ==
  ASSUME TypeOK, FilesInv, created \subseteq Local \cup Coordinated,
         NEW p \in Payments, EntryInv(p), NEW l \in Recovered, ledger' = l,
         session' = [q \in Payments |-> IF journal.state[q] = "none" THEN snap.session[q]
                                        ELSE RecoveredSession(q, snap.session[q])],
         UNCHANGED <<journal, created>>
  PROVE  PaymentInv(p)' /\ session'[p] \in Statuses
<1> DEFINE state == journal.state[p]
<1> DEFINE known == snap.session[p]
<1>1. /\ LedgerInv(snap.ledger) /\ JournalShape(journal) /\ known \in Statuses
      /\ state \in States
      /\ known # "none" => p \in created
      /\ known # "failed"
      /\ known = "settled" => p \in snap.ledger.applied
      /\ p \in snap.ledger.reserved => known \in {"collecting", "committing"}
      /\ p \in snap.ledger.applied => p \in IF p \in Local THEN created ELSE Decided
  BY TypeParts DEF FilesInv, ImageInv, Images, JournalShape, Journals
<1>2. /\ l.reserved \cap l.applied = {}
      /\ l.applied = snap.ledger.applied \cup Decided
      /\ state = "Prepared" => p \in l.applied \cup l.reserved
      /\ p \in l.reserved => \/ state = "Prepared"
                             \/ p \in snap.ledger.reserved /\ state = "none"
  BY <1>1, RecoverySound DEF LedgerInv
<1>3. /\ session'[p] = IF state = "none" THEN known ELSE RecoveredSession(p, known)
      /\ (p \in Decided <=> state \in CommitSide)
  BY DEF Decided
<1>4. /\ p \in Local \/ p \in Coordinated \/ p \in Participated
      /\ p \in Local => p \notin Coordinated /\ p \notin Participated
      /\ p \in Coordinated => p \notin Participated
  BY KindsAssumption
<1> HIDE DEF state, known
<1>5. /\ p \in Local => state = "none"
      /\ p \in Coordinated /\ state # "none" => p \in created
      /\ p \in Participated => p \notin created
  BY <1>4 DEF EntryInv, state
<1>6. PaymentInv(p)' <=>
        /\ session'[p] # "none" => p \in created
        /\ session'[p] = "settled" => p \in l.applied
        /\ p \in l.reserved =>
             \/ session'[p] \in {"collecting", "committing"}
             \/ p \in Participated /\ state \in {"Prepared", "CommitDecided"}
        /\ p \in l.applied => IF p \in Local THEN p \in created ELSE state \in CommitSide
        /\ state = "Committed" => p \in l.applied
        /\ p \in Participated /\ state = "Prepared" => p \in l.reserved
        /\ p \in Participated /\ state \in CommitSide => p \in l.applied \cup l.reserved
  BY DEF PaymentInv, state
<1>7. CASE state = "none"
  <2>1. session'[p] = known
    BY <1>3, <1>7
  <2> QED BY <1>1, <1>2, <1>3, <1>4, <1>5, <1>6, <1>7, <2>1 DEF CommitSide
<1>8. CASE state # "none" /\ p \in Participated
  <2>1. session'[p] = known
    BY <1>3, <1>4, <1>8 DEF RecoveredSession
  <2> QED BY <1>1, <1>2, <1>3, <1>4, <1>5, <1>6, <1>8, <2>1 DEF CommitSide
<1>9. CASE state # "none" /\ p \in Coordinated
  <2>1. session'[p] = RecoveredSession(p, known)
    BY <1>3, <1>9
  <2>2. /\ state = "Committed" => session'[p] = "settled"
        /\ state = "CommitDecided" => session'[p] = "committing"
        /\ state \notin CommitSide =>
             \/ session'[p] \in {"collecting", "failed"}
             \/ session'[p] = known
        /\ state \notin CommitSide \cup AbortSide =>
             session'[p] = IF known = "none" THEN "collecting" ELSE known
    BY <1>9, <2>1 DEF RecoveredSession, CommitSide, AbortSide, state
  <2>3. state = "Prepared" => state \notin CommitSide \cup AbortSide
    BY DEF CommitSide, AbortSide
  <2>4. session'[p] \in Statuses
    BY <1>1, <2>2 DEF Statuses, CommitSide
  <2>5. p \in l.reserved => session'[p] \in {"collecting", "committing"}
    <3> SUFFICES ASSUME p \in l.reserved PROVE session'[p] \in {"collecting", "committing"}
      OBVIOUS
    <3>1. state = "Prepared"
      BY <1>2, <1>9
    <3>2. known # "settled"
      BY <1>1, <1>2
    <3> QED BY <1>1, <2>2, <2>3, <3>1, <3>2 DEF Statuses
  <2>6. session'[p] = "settled" => p \in l.applied
    BY <1>1, <1>2, <1>3, <2>2 DEF CommitSide
  <2>7. p \in l.applied => state \in CommitSide
    BY <1>1, <1>2, <1>3, <1>4, <1>9
  <2>8. state = "Committed" => p \in l.applied
    BY <1>2, <1>3 DEF CommitSide
  <2> QED BY <1>4, <1>5, <1>6, <1>9, <2>4, <2>5, <2>6, <2>7, <2>8
<1> QED BY <1>4, <1>5, <1>7, <1>8, <1>9

LEMMA RestartInv ==
  ASSUME InductiveInv, Restart
  PROVE  InductiveInv'
<1>1. /\ status = "down"
      /\ UNCHANGED <<preparing, saving, journal, snap, acked, created, crashes>>
  BY DEF Restart
<1>2. /\ TypeOK /\ FilesInv /\ ReplayableInv
      /\ \A p \in Payments : EntryInv(p)
      /\ created \subseteq Local \cup Coordinated
  BY DEF InductiveInv
<1>3. ~ saving.active /\ saving.for = {}
  BY <1>1, <1>2 DEF FilesInv
<1>4. /\ LedgerInv(snap.ledger) /\ JournalShape(journal)
  BY <1>2, TypeParts DEF FilesInv, ImageInv
<1>5. Decided' = Decided /\ PreparedOnes' = PreparedOnes
  BY <1>1 DEF Decided, PreparedOnes
<1>6. ReplayableInv' /\ \A p \in Payments : EntryInv(p)'
  BY <1>1, <1>2, <1>5 DEF ReplayableInv, EntryInv
<1>7. FilesInv'
  BY <1>1, <1>2, <1>3, <1>5 DEF FilesInv
<1>8. CASE Recovered = {}
  <2>1. status' = "refused" /\ ledger' = ledger /\ session' = session
    BY <1>8 DEF Restart
  <2>2. created # {}
    <3> SUFFICES ASSUME created = {} PROVE FALSE
      OBVIOUS
    <3>1. snap.ledger.reserved = {}
      <4>1. snap.ledger.reserved \in SUBSET Payments
        BY <1>4 DEF LedgerInv, Ledgers
      <4> QED BY <1>2, <4>1 DEF FilesInv, ImageInv
    <3>2. Replays(snap.ledger.applied, journal.decided) /\ Room(Decided \cup PreparedOnes, Decided)
      BY <1>2 DEF ReplayableInv
    <3> QED BY <1>4, <1>8, <3>1, <3>2, RecoverySucceeds
  <2>3. TypeOK'
    BY <1>1, <1>2, <2>1 DEF TypeOK
  <2> QED BY <1>1, <1>2, <1>6, <1>7, <2>1, <2>2, <2>3 DEF InductiveInv, ParticipantRestarts
<1>9. CASE Recovered # {}
  <2>1. /\ status' = "up" /\ ledger' \in Recovered
        /\ session' = [q \in Payments |-> IF journal.state[q] = "none" THEN snap.session[q]
                                          ELSE RecoveredSession(q, snap.session[q])]
    BY <1>9 DEF Restart
  <2>2. PICK l \in Recovered : ledger' = l
    BY <2>1
  <2>3. \A p \in Payments : PaymentInv(p)' /\ session'[p] \in Statuses
    BY <1>1, <1>2, <2>1, <2>2, RecoveredPayment
  <2>4. LedgerInv(l) /\ l.applied = snap.ledger.applied \cup Decided
    BY <1>4, RecoverySound
  <2>5. TypeOK'
    <3>1. ledger' \in Ledgers
      BY <2>2, <2>4 DEF LedgerInv
    <3>2. session' \in [Payments -> Statuses]
      BY <2>1, <2>3
    <3> QED BY <1>1, <1>2, <2>1, <3>1, <3>2 DEF TypeOK
  <2>6. MemoryInv'
    <3>1. acked' \cup saving'.for \subseteq ledger'.applied
      BY <1>1, <1>2, <1>3, <2>2, <2>4 DEF FilesInv
    <3> QED BY <2>2, <2>3, <2>4, <3>1 DEF MemoryInv
  <2> QED BY <1>1, <1>2, <1>6, <1>7, <2>1, <2>5, <2>6 DEF InductiveInv, ParticipantRestarts
<1> QED BY <1>8, <1>9

LEMMA StutterInv ==
  ASSUME InductiveInv, UNCHANGED vars
  PROVE  InductiveInv'
<1>1. /\ ledger' = ledger /\ session' = session /\ preparing' = preparing /\ saving' = saving
      /\ journal' = journal /\ snap' = snap /\ status' = status /\ acked' = acked
      /\ created' = created /\ crashes' = crashes
  BY DEF vars
<1>2. TypeOK' <=> TypeOK
  BY <1>1 DEF TypeOK
<1>3. \A p \in Payments : (EntryInv(p)' <=> EntryInv(p)) /\ (PaymentInv(p)' <=> PaymentInv(p))
  BY <1>1 DEF EntryInv, PaymentInv
<1>4. MemoryInv' <=> MemoryInv
  BY <1>1, <1>3 DEF MemoryInv
<1>5. Decided' = Decided /\ PreparedOnes' = PreparedOnes
  BY <1>1 DEF Decided, PreparedOnes
<1>6. (FilesInv' <=> FilesInv) /\ (ReplayableInv' <=> ReplayableInv)
  BY <1>1, <1>5 DEF FilesInv, ReplayableInv
<1>7. ParticipantRestarts' <=> ParticipantRestarts
  BY <1>1 DEF ParticipantRestarts
<1> QED BY <1>1, <1>2, <1>3, <1>4, <1>6, <1>7 DEF InductiveInv

LEMMA NextInv == InductiveInv /\ [Next]_vars => InductiveInv'
<1> SUFFICES ASSUME InductiveInv, [Next]_vars PROVE InductiveInv'
  OBVIOUS
<1>1. ASSUME NEW p \in Payments,
             \/ Create(p) \/ SignLast(p) \/ CloseSession(p)
             \/ JournalPreparing(p) \/ JournalPrepared(p) \/ AbortDecide(p) \/ AbortFinish(p)
             \/ CommitDecide(p) \/ HandlePrepare(p) \/ HandleCommit(p) \/ HandleAbort(p)
             \/ ApplyDecided(p) \/ RecordCommitted(p) \/ MarkSettled(p)
      PROVE  InductiveInv'
  <2>1. ASSUME Create(p) \/ SignLast(p) \/ CloseSession(p) PROVE InductiveInv'
    BY <2>1, CreateInv, SignLastInv, CloseSessionInv
  <2>2. ASSUME \/ JournalPreparing(p) \/ JournalPrepared(p) \/ AbortDecide(p)
               \/ AbortFinish(p) \/ CommitDecide(p)
        PROVE  InductiveInv'
    BY <2>2, JournalPreparingInv, JournalPreparedInv, AbortDecideInv, AbortFinishInv,
       CommitDecideInv
  <2>3. ASSUME HandlePrepare(p) \/ HandleCommit(p) \/ HandleAbort(p) PROVE InductiveInv'
    BY <2>3, HandlePrepareInv, HandleCommitInv, HandleAbortInv
  <2>4. ASSUME ApplyDecided(p) \/ RecordCommitted(p) \/ MarkSettled(p) PROVE InductiveInv'
    BY <2>4, ApplyDecidedInv, RecordCommittedInv, MarkSettledInv
  <2> QED BY <1>1, <2>1, <2>2, <2>3, <2>4
<1>2. CASE BeginSave
  BY <1>2, BeginSaveInv
<1>3. CASE EndSave
  BY <1>3, EndSaveInv
<1>4. CASE Crash
  BY <1>4, CrashInv
<1>5. CASE Restart
  BY <1>5, RestartInv
<1>6. CASE UNCHANGED vars
  BY <1>6, StutterInv
<1> QED BY <1>1, <1>2, <1>3, <1>4, <1>5, <1>6 DEF Next

-----------------------------------------------------------------------------
(* What follows for the hub.                                               *)
LEMMA InductiveHolds == Spec => []InductiveInv
BY InitInv, NextInv, PTL DEF Spec

(***************************************************************************)
(* The ledger of a serving hub, whatever it has been through, is well      *)
(* formed, its reservations are covered by the balances they are made on,  *)
(* and the balances are the registered ones moved once by every applied    *)
(* payment: the reservations and settlements of state.rs and the replay of *)
(* recover_local, for any channels, routes and amounts.                    *)
(***************************************************************************)
THEOREM LedgerStaysSound == Spec => []LedgerSound
<1>1. InductiveInv => LedgerSound
  <2> SUFFICES ASSUME InductiveInv PROVE LedgerSound
    OBVIOUS
  <2>1. TypeOK /\ (status = "up" => LedgerInv(ledger))
    BY DEF InductiveInv, MemoryInv
  <2>2. ReservedCovered
    BY <2>1 DEF ReservedCovered, LedgerInv
  <2>3. BalancesExplained
    BY <2>1 DEF BalancesExplained, LedgerInv, Explained, Out
  <2> QED BY <2>1, <2>2, <2>3 DEF LedgerSound
<1> QED BY <1>1, InductiveHolds, PTL

(***************************************************************************)
(* What the journal says and what the ledger holds agree in a serving hub, *)
(* also right after recover_local: done commits are applied, prepared      *)
(* participations hold their liquidity, aborted ones do not.               *)
(***************************************************************************)
THEOREM JournalStaysHonoured == Spec => []JournalHonoured
<1>1. InductiveInv => JournalHonoured
  <2> SUFFICES ASSUME InductiveInv, status = "up", NEW p \in Cross
               PROVE  /\ journal.state[p] = "Committed" => p \in ledger.applied
                      /\ journal.state[p] = "Prepared" /\ p \in Participated =>
                           p \in ledger.reserved
                      /\ journal.state[p] = "Aborted" /\ p \in Participated =>
                           p \notin ledger.reserved
    BY DEF JournalHonoured
  <2>1. p \in Payments
    BY KindsAssumption DEF Cross
  <2>2. p \in Participated => session[p] = "none"
    BY <2>1, Serving DEF PaymentInv
  <2> QED BY <2>1, <2>2, Serving DEF PaymentInv
<1> QED BY <1>1, InductiveHolds, PTL

(***************************************************************************)
(* A local settlement that was acknowledged after its checkpoint is applied*)
(* in every serving hub afterwards: the checkpoint of sign_payment precedes*)
(* the answer, and snapshots only grow in what they have applied.          *)
(***************************************************************************)
THEOREM AcknowledgedSurvives == Spec => []AckedSurvives
<1>1. InductiveInv => AckedSurvives
  BY DEF InductiveInv, MemoryInv, AckedSurvives
<1> QED BY <1>1, InductiveHolds, PTL

(***************************************************************************)
(* No liquidity stays reserved for nothing, neither after an abort, a      *)
(* failure or an expiry, nor after recover_local.                          *)
(***************************************************************************)
THEOREM NothingLeaks == Spec => []NoLeakedReservation
<1>1. InductiveInv => NoLeakedReservation
  <2> SUFFICES ASSUME InductiveInv, status = "up", NEW p \in ledger.reserved
               PROVE  \/ session[p] \in {"collecting", "committing"}
                      \/ journal.state[p] \in {"Prepared", "CommitDecided"}
    BY DEF NoLeakedReservation
  <2>1. p \in Payments
    BY TypeParts DEF InductiveInv, Ledgers
  <2>2. PaymentInv(p)
    BY <2>1, Serving
  <2> QED BY <2>2 DEF PaymentInv
<1> QED BY <1>1, InductiveHolds, PTL

(***************************************************************************)
(* A hub that has created no payment of its own always starts again: the   *)
(* order of list(), decisions first, lets the replay of recover_local find *)
(* the money for every transaction it once accepted.                       *)
(***************************************************************************)
THEOREM ParticipantsRestart == Spec => []ParticipantRestarts
<1>1. InductiveInv => ParticipantRestarts
  BY DEF InductiveInv
<1> QED BY <1>1, InductiveHolds, PTL
=============================================================================
