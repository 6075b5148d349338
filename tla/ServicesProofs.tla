---------------------------- MODULE ServicesProofs ----------------------------
(***************************************************************************)
(* Services of a hub that share no state: its peer table (PeerTable), its  *)
(* scheduled payments (DeferredPayments), its micro streams (MicroStreams) *)
(* its amounts (Amounts) and the routes of its payments (Routing).         *)
(*                                                                         *)
(* The peer table keeps its pins, for any number of hubs, keys, hellos and *)
(* restarts.  PeersInv is the inductive invariant: the pinned key of a     *)
(* provider whose pin was never lost is the only one it ever had, the      *)
(* snapshot has no pin that the table does not have, and an open           *)
(* transaction was opened under that key.                                  *)
(*                                                                         *)
(* An order of a deferred payment is paid once, for any number of orders,  *)
(* promoters and restarts.  DeferredInv is the inductive invariant:        *)
(* PromotedNamesPayment holds of the snapshot as well, and an order that   *)
(* was never promoted twice at once, reopened or restarted has at most one *)
(* promotion in progress, which has its one payment or none exists yet.    *)
(*                                                                         *)
(* A micro stream accounts for its pushes, for any requests, pushes at     *)
(* once, caps and restarts.  StreamInv is the inductive invariant: it says *)
(* of the snapshot what StreamCovered says of the memory, and that there   *)
(* is room for the payments that are still to be made (Unpaid).            *)
(*                                                                         *)
(* Parsing and formatting an amount lose nothing, for any widths of the    *)
(* words, any units and any texts.  AmountInv is the inductive invariant:  *)
(* the text in hand is worth what the text of the request was worth.       *)
(*                                                                         *)
(* A route is found when there is one, accepted by each hub on it, and     *)
(* funded, for any channels, requests and limits.  RoutingInv is the       *)
(* inductive invariant: the queue is ordered by distance, each path to an  *)
(* address is a shortest one (SearchOk), and the plan is that of the path. *)
(***************************************************************************)
EXTENDS PeerTable, DeferredPayments, MicroStreams, Amounts, Routing,
        FiniteSetTheorems, SequenceTheorems, NaturalsInduction, WellFoundedInduction, TLAPS

-----------------------------------------------------------------------------
(* The peer table.                                                         *)

(* What PeersTypeOK says of the table also holds of the snapshot. *)
SnapshotOK ==
  /\ Cardinality(Known(snapshot)) <= MaxPeers
  /\ \A p \in Providers : snapshot[p].verified => snapshot[p].known /\ snapshot[p].key # NoKey

(* The pin is the one key there has been, and is gone only when lost. *)
OnlyPin(p) ==
  /\ table[p].verified => table[p].key \in pins[p]
  /\ p \notin unpinned /\ pins[p] # {} => table[p].verified /\ pins[p] = {table[p].key}

OpenedUnderPin(p) ==
  p \notin unpinned /\ opened[p] # NoKey => opened[p] \in pins[p] /\ heard[p] \subseteq {opened[p]}

PinsInv ==
  /\ \A p \in Providers : OnlyPin(p) /\ OpenedUnderPin(p)
  /\ SavedPinsStand

PeersInv == PeersTypeOK /\ SnapshotOK /\ PinsInv

-----------------------------------------------------------------------------
(* Types of the records, so that the steps need not expand their sets.     *)
LEMMA EntryFields ==
  ASSUME NEW e \in Entry
  PROVE  /\ e.known \in BOOLEAN /\ e.verified \in BOOLEAN /\ e.reachable \in BOOLEAN
         /\ e.key \in PeerKeys \cup {NoKey}
BY DEF Entry

LEMMA HelloFields ==
  ASSUME NEW h \in Hello
  PROVE  h.from \in Providers /\ h.key \in PeerKeys \cup {NoKey}
         /\ h.seed \in Providers \cup {NoSeed} /\ h.stamp \in 0 .. MaxMoment
BY DEF Hello

LEMMA NewEntries ==
  /\ Absent \in Entry /\ Unverified \in Entry
  /\ ~ Absent.verified /\ ~ Absent.known
  /\ ~ Unverified.verified /\ Unverified.known
BY DEF Absent, Unverified, Entry

LEMMA EntryOfHello ==
  ASSUME NEW h \in Hello
  PROVE  /\ EntryOf(h) \in Entry /\ EntryOf(h).known
         /\ EntryOf(h).key = h.key /\ (EntryOf(h).verified <=> h.key # NoKey)
BY HelloFields DEF EntryOf, Entry

(* Entries that were there stay: one more entry fits if there is room.     *)
LEMMA OneMoreFits ==
  ASSUME NEW old \in [Providers -> Entry], NEW new \in [Providers -> Entry], NEW p \in Providers,
         Cardinality(Known(old)) <= MaxPeers,
         old[p].known \/ Cardinality(Known(old)) < MaxPeers,
         \A q \in Providers \ {p} : new[q].known => old[q].known
  PROVE  Cardinality(Known(new)) <= MaxPeers
<1>1. IsFiniteSet(Known(old)) /\ IsFiniteSet(Known(new))
  BY PeersAssumption, FS_Subset DEF Known
<1>2. Cardinality(Known(old)) \in Nat /\ Cardinality(Known(new)) \in Nat /\ MaxPeers \in Nat
  BY <1>1, FS_CardinalityType, PeersAssumption
<1>3. Known(new) \subseteq Known(old) \cup {p}
  BY DEF Known
<1>4. CASE old[p].known
  <2>1. Known(new) \subseteq Known(old)
    BY <1>3, <1>4 DEF Known
  <2> QED BY <1>1, <1>2, <2>1, FS_Subset
<1>5. CASE ~ old[p].known
  <2>1. p \notin Known(old)
    BY <1>5 DEF Known
  <2>2. /\ IsFiniteSet(Known(old) \cup {p})
        /\ Cardinality(Known(old) \cup {p}) = Cardinality(Known(old)) + 1
    BY <1>1, <2>1, FS_AddElement
  <2>3. Cardinality(Known(new)) <= Cardinality(Known(old) \cup {p})
    BY <1>3, <2>2, FS_Subset
  <2> QED BY <1>2, <1>5, <2>2, <2>3
<1> QED BY <1>4, <1>5

-----------------------------------------------------------------------------
LEMMA PeersInitInv == PeersInit => PeersInv
<1> SUFFICES ASSUME PeersInit PROVE PeersInv
  OBVIOUS
<1> USE DEF PeersInit
<1>1. Known(table) = {} /\ Known(snapshot) = {}
  BY NewEntries DEF Known
<1>2. Cardinality({}) <= MaxPeers
  BY FS_EmptySet, PeersAssumption
<1>3. PeersTypeOK
  <2>1. table \in [Providers -> Entry] /\ snapshot \in [Providers -> Entry]
    BY NewEntries
  <2>2. \A p \in Providers : ~ table[p].verified
    BY NewEntries
  <2>3. used \in [hellos : 0 .. MaxHellos, changes : 0 .. MaxChanges, rounds : 0 .. MaxRounds,
                  snapshots : 0 .. MaxSnapshots, returns : 0 .. MaxReturns]
    BY PeersAssumption
  <2>4. asking.peer = NoPeer /\ asking.hello = NoSeed
    BY DEF NotAsking
  <2>5. moment \in 0 .. MaxMoment
    BY PeersAssumption
  <2>6. /\ hubs \in [Providers -> PeerKeys \cup {NoKey}] /\ opened \in [Providers -> PeerKeys \cup {NoKey}]
        /\ heard \in [Providers -> SUBSET PeerKeys] /\ pins \in [Providers -> SUBSET PeerKeys]
        /\ hellos = {} /\ seeds = {} /\ round = {} /\ unpinned = {}
    OBVIOUS
  <2> HIDE DEF PeersInit
  <2> QED BY <1>1, <1>2, <2>1, <2>2, <2>3, <2>4, <2>5, <2>6 DEF PeersTypeOK
<1>4. SnapshotOK
  BY <1>1, <1>2, NewEntries DEF SnapshotOK
<1>5. PinsInv
  BY NewEntries DEF PinsInv, OnlyPin, OpenedUnderPin, SavedPinsStand, Pinned
<1> QED BY <1>3, <1>4, <1>5 DEF PeersInv

(* A step that leaves table, snapshot, pins and transactions alone. *)
LEMMA PinsUnchanged ==
  ASSUME PinsInv, SnapshotOK, UNCHANGED <<table, opened, heard, snapshot, pins, unpinned>>
  PROVE  PinsInv' /\ SnapshotOK'
BY DEF PinsInv, SnapshotOK, OnlyPin, OpenedUnderPin, SavedPinsStand, Pinned, Known

(* upsert_peer_from_hello, from either of its callers. *)
LEMMA UpsertInv ==
  ASSUME PeersInv, NEW h \in Hello, Accepted(h), Upsert(h),
         UNCHANGED <<opened, heard, snapshot, unpinned>>
  PROVE  /\ PinsInv' /\ SnapshotOK'
         /\ table' \in [Providers -> Entry] /\ Cardinality(Known(table')) <= MaxPeers
         /\ \A p \in Providers : table'[p].verified => table'[p].known /\ table'[p].key # NoKey
         /\ pins' \in [Providers -> SUBSET PeerKeys]
<1> DEFINE q == h.from
<1>1. q \in Providers /\ h.key \in PeerKeys \cup {NoKey}
  BY HelloFields
<1>2. /\ table \in [Providers -> Entry] /\ pins \in [Providers -> SUBSET PeerKeys]
      /\ Cardinality(Known(table)) <= MaxPeers
      /\ \A p \in Providers : table[p].verified => table[p].known /\ table[p].key # NoKey
  BY DEF PeersInv, PeersTypeOK
<1>3. table' = [table EXCEPT ![q] = EntryOf(h)]
  BY DEF Upsert
<1>4. /\ table' \in [Providers -> Entry] /\ table'[q] = EntryOf(h)
      /\ \A p \in Providers \ {q} : table'[p] = table[p]
  BY <1>1, <1>2, <1>3, EntryOfHello
<1>5. /\ pins' \in [Providers -> SUBSET PeerKeys]
      /\ pins'[q] = IF h.key = NoKey THEN pins[q] ELSE pins[q] \cup {h.key}
      /\ \A p \in Providers \ {q} : pins'[p] = pins[p]
  BY <1>1, <1>2 DEF Upsert
<1>6. Cardinality(Known(table')) <= MaxPeers
  <2>1. table[q].known \/ Cardinality(Known(table)) < MaxPeers
    BY DEF Accepted, RoomFor
  <2> QED BY <1>1, <1>2, <1>4, <2>1, OneMoreFits
<1>7. \A p \in Providers : table'[p].verified => table'[p].known /\ table'[p].key # NoKey
  BY <1>2, <1>4, EntryOfHello
<1>8. table[q].verified => h.key = table[q].key
  BY DEF Accepted, Replaces
<1>9. ASSUME NEW p \in Providers PROVE OnlyPin(p)' /\ OpenedUnderPin(p)'
  <2>1. OnlyPin(p) /\ OpenedUnderPin(p)
    BY DEF PeersInv, PinsInv
  <2>2. CASE p # q
    BY <1>4, <1>5, <2>1, <2>2 DEF OnlyPin, OpenedUnderPin
  <2>3. CASE p = q
    <3>1. OnlyPin(p)'
      BY <1>2, <1>4, <1>5, <1>8, <2>1, <2>3, EntryOfHello DEF OnlyPin
    <3>2. OpenedUnderPin(p)'
      BY <1>5, <2>1, <2>3 DEF OpenedUnderPin
    <3> QED BY <3>1, <3>2
  <2> QED BY <2>2, <2>3
<1>10. SavedPinsStand'
  <2> SUFFICES ASSUME NEW p \in Providers, snapshot[p].verified
               PROVE  table'[p].verified /\ table'[p].key = snapshot[p].key
    BY DEF SavedPinsStand, Pinned
  <2>1. table[p].verified /\ table[p].key = snapshot[p].key
    BY DEF PeersInv, PinsInv, SavedPinsStand, Pinned
  <2> QED BY <1>2, <1>4, <1>8, <2>1, EntryOfHello
<1>11. SnapshotOK'
  BY DEF PeersInv, SnapshotOK, Known
<1> QED BY <1>4, <1>5, <1>6, <1>7, <1>9, <1>10, <1>11 DEF PinsInv

(* remember_seed, AskFailed: what they write is not verified before or     *)
(* keeps its key.                                                          *)
LEMMA SameKeysInv ==
  ASSUME PeersInv, table' \in [Providers -> Entry],
         \A p \in Providers : /\ table'[p].verified <=> table[p].verified
                              /\ table[p].verified => table'[p].key = table[p].key,
         UNCHANGED <<opened, heard, snapshot, pins, unpinned>>
  PROVE  PinsInv' /\ SnapshotOK'
<1>1. ASSUME NEW p \in Providers PROVE OnlyPin(p)' /\ OpenedUnderPin(p)'
  <2>1. OnlyPin(p) /\ OpenedUnderPin(p)
    BY DEF PeersInv, PinsInv
  <2> QED BY <2>1 DEF OnlyPin, OpenedUnderPin
<1>2. SavedPinsStand'
  BY DEF PeersInv, PinsInv, SavedPinsStand, Pinned
<1>3. SnapshotOK'
  BY DEF PeersInv, SnapshotOK, Known
<1> QED BY <1>1, <1>2, <1>3 DEF PinsInv

LEMMA SendHelloInv == ASSUME PeersInv, NEW p \in Providers, SendHello(p) PROVE PeersInv'
<1> USE DEF SendHello
<1>1. PinsInv' /\ SnapshotOK'
  BY PinsUnchanged DEF PeersInv
<1>2. hellos' \subseteq Hello
  <2>1. PICK seed \in Providers \cup {NoSeed} : hellos' = hellos \cup {HelloOf(p, seed)}
    OBVIOUS
  <2>2. HelloOf(p, seed) \in Hello
    BY DEF HelloOf, Hello, PeersInv, PeersTypeOK
  <2> QED BY <2>1, <2>2 DEF PeersInv, PeersTypeOK
<1>3. used' \in [hellos : 0 .. MaxHellos, changes : 0 .. MaxChanges, rounds : 0 .. MaxRounds,
                 snapshots : 0 .. MaxSnapshots, returns : 0 .. MaxReturns]
  BY PeersAssumption DEF PeersInv, PeersTypeOK
<1>4. PeersTypeOK'
  BY <1>2, <1>3 DEF PeersInv, PeersTypeOK, Known
<1> QED BY <1>1, <1>4 DEF PeersInv

LEMMA ChangeHubInv == ASSUME PeersInv, NEW p \in Providers, ChangeHub(p) PROVE PeersInv'
<1> USE DEF ChangeHub
<1>1. PinsInv' /\ SnapshotOK'
  BY PinsUnchanged DEF PeersInv
<1>2. hubs' \in [Providers -> PeerKeys \cup {NoKey}]
  BY DEF PeersInv, PeersTypeOK
<1>3. used' \in [hellos : 0 .. MaxHellos, changes : 0 .. MaxChanges, rounds : 0 .. MaxRounds,
                 snapshots : 0 .. MaxSnapshots, returns : 0 .. MaxReturns]
  BY PeersAssumption DEF PeersInv, PeersTypeOK
<1>4. PeersTypeOK'
  BY <1>2, <1>3 DEF PeersInv, PeersTypeOK, Known
<1> QED BY <1>1, <1>4 DEF PeersInv

LEMMA PeerTickInv == ASSUME PeersInv, PeerTick PROVE PeersInv'
<1> USE DEF PeerTick
<1>1. PinsInv' /\ SnapshotOK'
  BY PinsUnchanged DEF PeersInv
<1>2. moment' \in 0 .. MaxMoment
  BY PeersAssumption DEF PeersInv, PeersTypeOK
<1>3. PeersTypeOK'
  BY <1>2 DEF PeersInv, PeersTypeOK, Known
<1> QED BY <1>1, <1>3 DEF PeersInv

LEMMA ReceiveHelloInv == ASSUME PeersInv, NEW h \in hellos, ReceiveHello(h) PROVE PeersInv'
<1>1. h \in Hello
  BY DEF PeersInv, PeersTypeOK
<1>2. /\ PinsInv' /\ SnapshotOK'
      /\ table' \in [Providers -> Entry] /\ Cardinality(Known(table')) <= MaxPeers
      /\ \A p \in Providers : table'[p].verified => table'[p].known /\ table'[p].key # NoKey
      /\ pins' \in [Providers -> SUBSET PeerKeys]
  BY <1>1, UpsertInv DEF ReceiveHello
<1>3. seeds' \subseteq Providers
  BY <1>1, HelloFields DEF ReceiveHello, SeedsOf, PeersInv, PeersTypeOK
<1>4. PeersTypeOK'
  BY <1>2, <1>3 DEF ReceiveHello, PeersInv, PeersTypeOK, Known
<1> QED BY <1>2, <1>4 DEF PeersInv

LEMMA RememberSeedInv == ASSUME PeersInv, NEW p \in seeds, RememberSeed(p) PROVE PeersInv'
<1> DEFINE writes == RoomFor(p) /\ ~ table[p].known
<1>1. /\ p \in Providers /\ table \in [Providers -> Entry]
      /\ Cardinality(Known(table)) <= MaxPeers
      /\ \A q \in Providers : table[q].verified => table[q].known /\ table[q].key # NoKey
  BY DEF PeersInv, PeersTypeOK
<1>2. /\ table' = IF writes THEN [table EXCEPT ![p] = Unverified] ELSE table
      /\ seeds' \subseteq Providers
  BY DEF RememberSeed, PeersInv, PeersTypeOK
<1>3. /\ table' \in [Providers -> Entry]
      /\ \A q \in Providers \ {p} : table'[q] = table[q]
      /\ table'[p] = IF writes THEN Unverified ELSE table[p]
  BY <1>1, <1>2, NewEntries
<1>4. \A q \in Providers : /\ table'[q].verified <=> table[q].verified
                           /\ table[q].verified => table'[q].key = table[q].key
  BY <1>1, <1>3, NewEntries
<1>5. PinsInv' /\ SnapshotOK'
  BY <1>3, <1>4, SameKeysInv DEF RememberSeed
<1>6. Cardinality(Known(table')) <= MaxPeers
  <2>1. CASE writes
    BY <1>1, <1>3, <2>1, OneMoreFits DEF RoomFor
  <2>2. CASE ~ writes
    BY <1>1, <1>2, <2>2
  <2> QED BY <2>1, <2>2
<1>7. \A q \in Providers : table'[q].verified => table'[q].known /\ table'[q].key # NoKey
  BY <1>1, <1>3, NewEntries
<1>8. PeersTypeOK'
  BY <1>2, <1>3, <1>6, <1>7 DEF RememberSeed, PeersInv, PeersTypeOK, Known
<1> QED BY <1>5, <1>8 DEF PeersInv

LEMMA BeginRoundInv == ASSUME PeersInv, BeginRound PROVE PeersInv'
<1> USE DEF BeginRound
<1>1. PinsInv' /\ SnapshotOK'
  BY PinsUnchanged DEF PeersInv
<1>2. round' \subseteq Providers
  BY DEF Known
<1>3. used' \in [hellos : 0 .. MaxHellos, changes : 0 .. MaxChanges, rounds : 0 .. MaxRounds,
                 snapshots : 0 .. MaxSnapshots, returns : 0 .. MaxReturns]
  BY PeersAssumption DEF PeersInv, PeersTypeOK
<1>4. PeersTypeOK'
  BY <1>2, <1>3 DEF PeersInv, PeersTypeOK, Known
<1> QED BY <1>1, <1>4 DEF PeersInv

LEMMA AskPeerInv == ASSUME PeersInv, NEW p \in round, AskPeer(p) PROVE PeersInv'
<1>1. PinsInv' /\ SnapshotOK'
  BY PinsUnchanged DEF AskPeer, PeersInv
<1>2. asking'.peer \in Providers \cup {NoPeer} /\ asking'.hello \in Hello \cup {NoSeed}
  <2>1. p \in Providers
    BY DEF PeersInv, PeersTypeOK
  <2>2. ASSUME NEW q \in Providers, NEW seed \in Providers \cup {NoSeed} PROVE HelloOf(q, seed) \in Hello
    BY DEF HelloOf, Hello, PeersInv, PeersTypeOK
  <2>3. \/ asking' = [peer |-> p, hello |-> NoSeed]
        \/ \E q \in Providers, seed \in Providers \cup {NoSeed} :
             asking' = [peer |-> p, hello |-> HelloOf(q, seed)]
    BY DEF AskPeer
  <2> QED BY <2>1, <2>2, <2>3
<1>3. PeersTypeOK'
  BY <1>2 DEF AskPeer, PeersInv, PeersTypeOK, Known
<1> QED BY <1>1, <1>3 DEF PeersInv

LEMMA AskFailedInv == ASSUME PeersInv, AskFailed PROVE PeersInv'
<1> DEFINE p == asking.peer
           marked == p \in Providers /\ table[p].known
<1>1. /\ table \in [Providers -> Entry] /\ p \in Providers \cup {NoPeer}
      /\ Cardinality(Known(table)) <= MaxPeers
      /\ \A q \in Providers : table[q].verified => table[q].known /\ table[q].key # NoKey
  BY DEF PeersInv, PeersTypeOK
<1>2. table' = table \/ table' = [table EXCEPT ![p].reachable = FALSE]
  BY DEF AskFailed
<1>3. /\ table' \in [Providers -> Entry]
      /\ \A q \in Providers : /\ table'[q].known = table[q].known /\ table'[q].key = table[q].key
                              /\ table'[q].verified = table[q].verified
  <2>1. CASE marked
    <3> DEFINE mark == [table[p] EXCEPT !.reachable = FALSE]
    <3>1. /\ mark \in Entry /\ mark.known = table[p].known /\ mark.key = table[p].key
          /\ mark.verified = table[p].verified
      BY <1>1, <2>1 DEF Entry
    <3>2. table' = [table EXCEPT ![p] = mark]
      BY <2>1 DEF AskFailed
    <3> HIDE DEF mark
    <3> QED BY <1>1, <2>1, <3>1, <3>2
  <2>2. CASE table' = table
    BY <1>1, <2>2
  <2>3. CASE p \notin Providers
    BY <1>1, <1>2, <2>3
  <2>4. CASE p \in Providers /\ ~ table[p].known
    BY <2>2, <2>4 DEF AskFailed
  <2> QED BY <2>1, <2>2, <2>3, <2>4
<1>4. PinsInv' /\ SnapshotOK'
  BY <1>3, SameKeysInv DEF AskFailed
<1>5. Known(table') = Known(table)
  BY <1>3 DEF Known
<1>6. asking'.peer = NoPeer /\ asking'.hello = NoSeed
  BY DEF AskFailed, NotAsking
<1>7. \A q \in Providers : table'[q].verified => table'[q].known /\ table'[q].key # NoKey
  BY <1>1, <1>3
<1>8. PeersTypeOK'
  BY <1>1, <1>3, <1>5, <1>6, <1>7 DEF AskFailed, PeersInv, PeersTypeOK, Known
<1> QED BY <1>4, <1>8 DEF PeersInv

LEMMA AskAnsweredInv == ASSUME PeersInv, AskAnswered PROVE PeersInv'
<1> DEFINE h == asking.hello
<1>1. h \in Hello
  BY DEF AskAnswered, PeersInv, PeersTypeOK
<1>2. /\ PinsInv' /\ SnapshotOK'
      /\ table' \in [Providers -> Entry] /\ Cardinality(Known(table')) <= MaxPeers
      /\ \A p \in Providers : table'[p].verified => table'[p].known /\ table'[p].key # NoKey
      /\ pins' \in [Providers -> SUBSET PeerKeys]
  <2>1. CASE Accepted(h)
    BY <1>1, <2>1, UpsertInv DEF AskAnswered
  <2>2. CASE ~ Accepted(h)
    <3>1. UNCHANGED <<table, opened, heard, snapshot, pins, unpinned>>
      BY <2>2 DEF AskAnswered
    <3> QED BY <3>1, PinsUnchanged DEF PeersInv, PeersTypeOK
  <2> QED BY <2>1, <2>2
<1>3. seeds' \subseteq Providers
  BY <1>1, HelloFields DEF AskAnswered, SeedsOf, PeersInv, PeersTypeOK
<1>4. asking'.peer = NoPeer /\ asking'.hello = NoSeed
  BY DEF AskAnswered, NotAsking
<1>5. PeersTypeOK'
  BY <1>2, <1>3, <1>4 DEF AskAnswered, PeersInv, PeersTypeOK, Known
<1> QED BY <1>2, <1>5 DEF PeersInv

LEMMA OpenTransactionInv == ASSUME PeersInv, NEW p \in Providers, OpenTransaction(p) PROVE PeersInv'
<1>1. /\ table \in [Providers -> Entry] /\ opened \in [Providers -> PeerKeys \cup {NoKey}]
      /\ heard \in [Providers -> SUBSET PeerKeys]
  BY DEF PeersInv, PeersTypeOK
<1>2. opened' \in [Providers -> PeerKeys \cup {NoKey}] /\ heard' \in [Providers -> SUBSET PeerKeys]
  <2>1. table[p].key \in PeerKeys \cup {NoKey}
    BY <1>1, EntryFields
  <2> QED BY <1>1, <2>1 DEF OpenTransaction
<1>3. ASSUME NEW q \in Providers PROVE OnlyPin(q)' /\ OpenedUnderPin(q)'
  <2>1. OnlyPin(q) /\ OpenedUnderPin(q)
    BY DEF PeersInv, PinsInv
  <2>2. OnlyPin(q)'
    BY <2>1 DEF OnlyPin, OpenTransaction
  <2>3. OpenedUnderPin(q)'
    <3>1. CASE q = p
      <4>1. heard'[p] = {} /\ opened'[p] = table[p].key
        BY <1>1 DEF OpenTransaction
      <4> QED BY <2>1, <3>1, <4>1 DEF OnlyPin, OpenedUnderPin, OpenTransaction
    <3>2. CASE q # p
      BY <1>1, <2>1, <3>2 DEF OpenedUnderPin, OpenTransaction
    <3> QED BY <3>1, <3>2
  <2> QED BY <2>2, <2>3
<1>4. SavedPinsStand' /\ SnapshotOK'
  BY DEF OpenTransaction, PeersInv, PinsInv, SavedPinsStand, SnapshotOK, Pinned, Known
<1>5. PeersTypeOK'
  BY <1>2 DEF OpenTransaction, PeersInv, PeersTypeOK, Known
<1> QED BY <1>3, <1>4, <1>5 DEF PeersInv, PinsInv

LEMMA TakeAnswerInv == ASSUME PeersInv, NEW p \in Providers, TakeAnswer(p) PROVE PeersInv'
<1>1. /\ hubs \in [Providers -> PeerKeys \cup {NoKey}] /\ heard \in [Providers -> SUBSET PeerKeys]
  BY DEF PeersInv, PeersTypeOK
<1>2. heard' \in [Providers -> SUBSET PeerKeys]
  BY <1>1 DEF TakeAnswer
<1>3. ASSUME NEW q \in Providers PROVE OnlyPin(q)' /\ OpenedUnderPin(q)'
  <2>1. OnlyPin(q) /\ OpenedUnderPin(q)
    BY DEF PeersInv, PinsInv
  <2>2. OnlyPin(q)'
    BY <2>1 DEF OnlyPin, TakeAnswer
  <2>3. OpenedUnderPin(q)'
    <3>1. CASE q = p
      <4> SUFFICES ASSUME p \notin unpinned
                   PROVE  opened[p] \in pins[p] /\ heard'[p] \subseteq {opened[p]}
        BY <3>1 DEF OpenedUnderPin, TakeAnswer
      <4>1. opened[p] \in pins[p] /\ heard[p] \subseteq {opened[p]}
        BY <2>1, <3>1 DEF OpenedUnderPin, TakeAnswer
      <4>2. table[p].key = opened[p]
        BY <2>1, <3>1, <4>1 DEF OnlyPin
      <4>3. hubs[p] = opened[p]
        BY <4>2 DEF TakeAnswer, MayAnswer
      <4> QED BY <1>1, <4>1, <4>3 DEF TakeAnswer
    <3>2. CASE q # p
      BY <1>1, <2>1, <3>2 DEF OpenedUnderPin, TakeAnswer
    <3> QED BY <3>1, <3>2
  <2> QED BY <2>2, <2>3
<1>4. SavedPinsStand' /\ SnapshotOK'
  BY DEF TakeAnswer, PeersInv, PinsInv, SavedPinsStand, SnapshotOK, Pinned, Known
<1>5. PeersTypeOK'
  BY <1>2 DEF TakeAnswer, PeersInv, PeersTypeOK, Known
<1> QED BY <1>3, <1>4, <1>5 DEF PeersInv, PinsInv

LEMMA SaveSnapshotInv == ASSUME PeersInv, SaveSnapshot PROVE PeersInv'
<1> USE DEF SaveSnapshot
<1>1. used' \in [hellos : 0 .. MaxHellos, changes : 0 .. MaxChanges, rounds : 0 .. MaxRounds,
                 snapshots : 0 .. MaxSnapshots, returns : 0 .. MaxReturns]
  BY PeersAssumption DEF PeersInv, PeersTypeOK
<1>2. PeersTypeOK' /\ SnapshotOK'
  BY <1>1 DEF PeersInv, PeersTypeOK, SnapshotOK, Known
<1>3. PinsInv'
  BY DEF PeersInv, PinsInv, OnlyPin, OpenedUnderPin, SavedPinsStand, Pinned
<1> QED BY <1>2, <1>3 DEF PeersInv

LEMMA RestartTableInv == ASSUME PeersInv, RestartTable PROVE PeersInv'
<1>1. /\ table \in [Providers -> Entry] /\ snapshot \in [Providers -> Entry]
      /\ Cardinality(Known(snapshot)) <= MaxPeers
      /\ \A p \in Providers : snapshot[p].verified => snapshot[p].known /\ snapshot[p].key # NoKey
  BY DEF PeersInv, PeersTypeOK, SnapshotOK
<1>2. ASSUME NEW p \in Providers
      PROVE  /\ Reloaded(p) \in Entry /\ Reloaded(p).known = snapshot[p].known
             /\ Reloaded(p).verified = snapshot[p].verified
             /\ snapshot[p].verified => Reloaded(p).key = snapshot[p].key
  <2> DEFINE back == [snapshot[p] EXCEPT !.reachable = FALSE]
  <2>1. /\ back \in Entry /\ back.known = snapshot[p].known
        /\ back.verified = snapshot[p].verified /\ back.key = snapshot[p].key
    BY <1>1 DEF Entry
  <2>2. snapshot[p].known \in BOOLEAN /\ snapshot[p].verified \in BOOLEAN
    BY <1>1, EntryFields
  <2>3. CASE snapshot[p].verified
    BY <2>1, <2>3 DEF Reloaded
  <2>4. CASE ~ snapshot[p].verified
    BY <2>2, <2>4, NewEntries DEF Reloaded, Absent, Unverified
  <2> QED BY <2>3, <2>4
<1>3. /\ table' = [p \in Providers |-> Reloaded(p)]
      /\ unpinned' = unpinned \cup (Pinned(table) \ Pinned(snapshot))
      /\ UNCHANGED <<opened, heard, snapshot, pins>>
  BY DEF RestartTable
<1>4. table' \in [Providers -> Entry] /\ Known(table') = Known(snapshot)
  BY <1>2, <1>3 DEF Known
<1>5. \A p \in Providers : table'[p].verified => table'[p].known /\ table'[p].key # NoKey
  BY <1>1, <1>2, <1>3
<1>6. SavedPinsStand'
  BY <1>2, <1>3 DEF SavedPinsStand, Pinned
<1>7. ASSUME NEW p \in Providers PROVE OnlyPin(p)' /\ OpenedUnderPin(p)'
  <2>1. /\ OnlyPin(p) /\ OpenedUnderPin(p)
        /\ snapshot[p].verified => table[p].verified /\ table[p].key = snapshot[p].key
    BY DEF PeersInv, PinsInv, SavedPinsStand, Pinned
  <2>2. table'[p] = Reloaded(p)
    BY <1>3
  <2>3. table[p].verified /\ ~ snapshot[p].verified => p \in unpinned'
    BY <1>3 DEF Pinned
  <2>4. OnlyPin(p)'
    BY <1>2, <1>3, <2>1, <2>2, <2>3 DEF OnlyPin
  <2>5. OpenedUnderPin(p)'
    BY <1>3, <2>1 DEF OpenedUnderPin
  <2> QED BY <2>4, <2>5
<1>8. used' \in [hellos : 0 .. MaxHellos, changes : 0 .. MaxChanges, rounds : 0 .. MaxRounds,
                 snapshots : 0 .. MaxSnapshots, returns : 0 .. MaxReturns]
  BY PeersAssumption DEF RestartTable, PeersInv, PeersTypeOK
<1>9. PeersTypeOK'
  <2>1. asking'.peer = NoPeer /\ asking'.hello = NoSeed /\ seeds' = {} /\ round' = {}
    BY DEF RestartTable, NotAsking
  <2>2. unpinned' \subseteq Providers
    BY <1>3 DEF Pinned, PeersInv, PeersTypeOK
  <2>3. Cardinality(Known(table')) <= MaxPeers
    BY <1>1, <1>4
  <2> QED BY <1>4, <1>5, <1>8, <2>1, <2>2, <2>3 DEF RestartTable, PeersInv, PeersTypeOK, Known
<1>10. SnapshotOK'
  BY DEF RestartTable, PeersInv, SnapshotOK, Known
<1> QED BY <1>6, <1>7, <1>9, <1>10 DEF PeersInv, PinsInv

LEMMA PeersStepInv == PeersInv /\ [PeersStep]_peerVars => PeersInv'
<1> SUFFICES ASSUME PeersInv, [PeersStep]_peerVars PROVE PeersInv'
  OBVIOUS
<1>1. CASE PeersStep
  <2> USE SendHelloInv, ChangeHubInv, PeerTickInv, ReceiveHelloInv, RememberSeedInv, BeginRoundInv,
          AskPeerInv, AskFailedInv, AskAnsweredInv, OpenTransactionInv, TakeAnswerInv,
          SaveSnapshotInv, RestartTableInv
  <2> QED BY <1>1 DEF PeersStep
<1>2. CASE UNCHANGED peerVars
  BY <1>2 DEF peerVars, PeersInv, PeersTypeOK, SnapshotOK, PinsInv, OnlyPin, OpenedUnderPin,
              SavedPinsStand, Pinned, Known
<1> QED BY <1>1, <1>2

-----------------------------------------------------------------------------
(* The table never outgrows its limit, and what is verified has a key:     *)
(* the type invariant of remember_seed, upsert_peer_from_hello and         *)
(* restore_trusted_peer.                                                   *)
THEOREM PeersTypeCorrect == PeersSpec => []PeersTypeOK
<1>1. PeersInv => PeersTypeOK
  BY DEF PeersInv
<1> QED BY PeersInitInv, PeersStepInv, <1>1, PTL DEF PeersSpec

(* upsert_peer_from_hello never replaces a pin: a second key is pinned     *)
(* only after a restart lost the first.                                    *)
THEOREM PinsAreKept == PeersSpec => []PinnedOnce
<1>1. PeersInv => PinnedOnce
  BY DEF PeersInv, PeersTypeOK, PinsInv, OnlyPin, PinnedOnce
<1> QED BY PeersInitInv, PeersStepInv, <1>1, PTL DEF PeersSpec

(* restore_trusted_peer brings every pin of the snapshot back, and no      *)
(* later hello, seed or gossip answer takes it away.                       *)
THEOREM SavedPinsSurvive == PeersSpec => []SavedPinsStand
<1>1. PeersInv => SavedPinsStand
  BY DEF PeersInv, PinsInv
<1> QED BY PeersInitInv, PeersStepInv, <1>1, PTL DEF PeersSpec

(* verify_peer_protocol_hash takes the answers of an open transaction from *)
(* the identity it was opened with only.                                   *)
THEOREM OneIdentityAnswers == PeersSpec => []OpenPinKept
<1>1. PeersInv => OpenPinKept
  BY DEF PeersInv, PinsInv, OpenedUnderPin, OpenPinKept
<1> QED BY PeersInitInv, PeersStepInv, <1>1, PTL DEF PeersSpec

(* What verify_peer_protocol_hash, upsert_peer_from_hello and              *)
(* restore_trusted_peer keep together of a pinned identity.                *)
THEOREM PinsHold == PeersSpec => []PinsStand
<1>1. PeersInv => PinsStand
  BY DEF PeersInv, PeersTypeOK, PinsInv, OnlyPin, OpenedUnderPin, PinnedOnce, OpenPinKept, PinsStand
<1> QED BY PeersInitInv, PeersStepInv, <1>1, PTL DEF PeersSpec
-----------------------------------------------------------------------------
(* Deferred payments.                                                      *)

Promotions == [at : {"idle", "create", "mark", "fail"}, order : Orders \cup {NoOrder},
               payment : 0 .. MaxCreated]

KeptNamesPayment ==
  \A o \in Orders : /\ kept.orders[o].payment <= kept.created[o]
                    /\ kept.orders[o].status = "promoted" => kept.orders[o].payment # 0

(* The promotion of an order, if any, is one; it has the order's payment. *)
OnePromotion(o) ==
  o \notin raced \cup reopened /\ reboots = 0 =>
    /\ \A t, u \in InProgressFor(o) : t = u
    /\ created[o] \in {0, 1}
    /\ \A t \in InProgressFor(o) : promotions[t].at = "create" => created[o] = 0
    /\ created[o] = 1 /\ InProgressFor(o) = {} => orders[o].status = "promoted"

DeferredInv ==
  /\ DeferredTypeOK /\ PromotedNamesPayment /\ KeptNamesPayment
  /\ \A o \in Orders : OnePromotion(o)

-----------------------------------------------------------------------------
LEMMA PromotionFields ==
  ASSUME NEW m \in Promotions
  PROVE  /\ m.at \in {"idle", "create", "mark", "fail"} /\ m.order \in Orders \cup {NoOrder}
         /\ m.payment \in 0 .. MaxCreated
BY DEF Promotions

LEMMA OrderFields ==
  ASSUME NEW r \in OrderRecords
  PROVE  /\ r.status \in {"none", "scheduled", "ready", "failed", "promoted", "cancelled"}
         /\ r.after \in 0 .. MaxTime /\ r.payment \in 0 .. MaxCreated
BY DEF OrderRecords, Ended

LEMMA NewPromotions ==
  /\ NoTask \in Promotions /\ NoTask.at = "idle" /\ NoTask.order = NoOrder
  /\ \A o \in Orders, p \in 0 .. MaxCreated, a \in {"create", "mark", "fail"} :
       [at |-> a, order |-> o, payment |-> p] \in Promotions
BY OrdersAssumption DEF NoTask, Promotions

LEMMA ChangedOrder ==
  ASSUME NEW r \in OrderRecords,
         NEW s \in {"none", "scheduled", "ready", "failed", "promoted", "cancelled"},
         NEW p \in 0 .. MaxCreated
  PROVE  /\ [r EXCEPT !.status = s] \in OrderRecords
         /\ [r EXCEPT !.status = s].status = s
         /\ [r EXCEPT !.status = s].payment = r.payment
         /\ [r EXCEPT !.status = s].after = r.after
         /\ [r EXCEPT !.status = s, !.payment = p] \in OrderRecords
         /\ [r EXCEPT !.status = s, !.payment = p].status = s
         /\ [r EXCEPT !.status = s, !.payment = p].payment = p
BY DEF OrderRecords, Ended

LEMMA DeferredInitInv == DeferredInit => DeferredInv
<1> SUFFICES ASSUME DeferredInit PROVE DeferredInv
  OBVIOUS
<1>1. /\ orders \in [Orders -> OrderRecords]
      /\ \A o \in Orders : orders[o].status = "none" /\ orders[o].payment = 0
  BY OrdersAssumption DEF DeferredInit, OrderRecords, Ended
<1>2. /\ created \in [Orders -> 0 .. MaxCreated] /\ \A o \in Orders : created[o] = 0
  BY OrdersAssumption DEF DeferredInit
<1>3. /\ promotions \in [Tasks -> Promotions]
      /\ \A t \in Tasks : promotions[t].at = "idle" /\ promotions[t].order = NoOrder
  BY NewPromotions DEF DeferredInit
<1>4. kept.orders = orders /\ kept.created = created
  BY DEF DeferredInit
<1>5. /\ clock \in 0 .. MaxTime /\ due = {} /\ raced = {} /\ reopened = {} /\ reboots = 0
      /\ reboots \in 0 .. MaxReboots
  BY OrdersAssumption DEF DeferredInit
<1>6. DeferredTypeOK
  BY <1>1, <1>2, <1>3, <1>4, <1>5 DEF DeferredTypeOK, Promotions
<1>7. PromotedNamesPayment /\ KeptNamesPayment
  BY <1>1, <1>2, <1>3, <1>4 DEF PromotedNamesPayment, KeptNamesPayment
<1>8. \A o \in Orders : OnePromotion(o)
  BY <1>2, <1>3, OrdersAssumption DEF OnePromotion, InProgressFor
<1> QED BY <1>6, <1>7, <1>8 DEF DeferredInv

(* The types in the form that the steps use. *)
LEMMA Types ==
  ASSUME DeferredInv
  PROVE  /\ orders \in [Orders -> OrderRecords] /\ kept.orders \in [Orders -> OrderRecords]
         /\ created \in [Orders -> 0 .. MaxCreated] /\ kept.created \in [Orders -> 0 .. MaxCreated]
         /\ promotions \in [Tasks -> Promotions]
         /\ \A t \in Tasks : promotions[t].at = "idle" <=> promotions[t].order = NoOrder
         /\ clock \in 0 .. MaxTime /\ due \subseteq Orders
         /\ raced \subseteq Orders /\ reopened \subseteq Orders /\ reboots \in 0 .. MaxReboots
         /\ MaxCreated \in Nat /\ NoOrder \notin Orders
BY OrdersAssumption DEF DeferredInv, DeferredTypeOK, Promotions

(* A step that only changes the status of one order, with what it names.   *)
LEMMA StatusStep ==
  ASSUME DeferredInv, NEW o \in Orders, NEW r \in OrderRecords,
         orders' = [orders EXCEPT ![o] = r], r.payment <= created[o],
         r.status = "promoted" => r.payment # 0,
         created[o] = 1 /\ orders[o].status = "promoted" => r.status = "promoted",
         UNCHANGED <<clock, created, promotions, due, kept, raced, reopened, reboots>>
  PROVE  DeferredInv'
<1>1. orders' \in [Orders -> OrderRecords] /\ \A p \in Orders : orders'[p] = IF p = o THEN r ELSE orders[p]
  BY Types
<1>2. DeferredTypeOK'
  BY <1>1 DEF DeferredInv, DeferredTypeOK
<1>3. PromotedNamesPayment' /\ KeptNamesPayment'
  BY <1>1 DEF DeferredInv, PromotedNamesPayment, KeptNamesPayment
<1>4. ASSUME NEW p \in Orders PROVE OnePromotion(p)'
  <2>1. OnePromotion(p) /\ InProgressFor(p)' = InProgressFor(p)
    BY DEF DeferredInv, InProgressFor
  <2> QED BY <1>1, <2>1 DEF OnePromotion
<1> QED BY <1>2, <1>3, <1>4 DEF DeferredInv

LEMMA CreateDeferredInv ==
  ASSUME DeferredInv, NEW o \in Orders, NEW after \in 0 .. MaxTime, CreateDeferred(o, after)
  PROVE  DeferredInv'
<1> DEFINE r == [status |-> IF after <= clock THEN "ready" ELSE "scheduled",
                 after |-> after, payment |-> 0]
<1>1. /\ orders' = [orders EXCEPT ![o] = r] /\ r \in OrderRecords
      /\ r.status \in {"ready", "scheduled"} /\ r.payment = 0
  BY Types DEF CreateDeferred, OrderRecords
<1> HIDE DEF r
<1>2. r.payment <= created[o]
  BY <1>1, Types
<1> QED BY <1>1, <1>2, StatusStep DEF CreateDeferred

LEMMA CancelDeferredInv ==
  ASSUME DeferredInv, NEW o \in Orders, CancelDeferred(o) PROVE DeferredInv'
<1> DEFINE r == [orders[o] EXCEPT !.status = "cancelled"]
<1>1. orders[o] \in OrderRecords /\ 0 \in 0 .. MaxCreated
  BY Types
<1>2. r \in OrderRecords /\ r.status = "cancelled" /\ r.payment = orders[o].payment
  BY <1>1, ChangedOrder
<1>3. orders' = [orders EXCEPT ![o] = r]
  BY DEF CancelDeferred
<1>4. orders[o].payment <= created[o]
  BY DEF DeferredInv, PromotedNamesPayment
<1> HIDE DEF r
<1> QED BY <1>2, <1>3, <1>4, StatusStep DEF CancelDeferred, Ended

-----------------------------------------------------------------------------
(* A promotion of an order begins; it was promotable, thus not promoted. *)
LEMMA PromoteInv ==
  ASSUME DeferredInv, NEW t \in Tasks, NEW o \in Orders, promotions[t].at = "idle", Promote(t, o),
         due' \subseteq due, UNCHANGED <<orders, clock, created, kept, reopened, reboots>>
  PROVE  DeferredInv'
<1> DEFINE m == [at |-> "create", order |-> o, payment |-> 0]
<1>1. m \in Promotions /\ m.at = "create" /\ m.order = o /\ o # NoOrder
  <2>1. 0 \in 0 .. MaxCreated
    BY Types
  <2> QED BY <2>1, NewPromotions, Types
<1>2. promotions' = [promotions EXCEPT ![t] = m]
  BY DEF Promote
<1> HIDE DEF m
<1>3. promotions' \in [Tasks -> Promotions] /\ \A u \in Tasks : promotions'[u] = IF u = t THEN m ELSE promotions[u]
  BY <1>1, <1>2, Types
<1>4. \A u \in Tasks : promotions'[u].at = "idle" <=> promotions'[u].order = NoOrder
  BY <1>1, <1>3, Types
<1>5. DeferredTypeOK'
  <2>1. raced' \subseteq Orders
    BY Types DEF Promote
  <2> QED BY <1>3, <1>4, <2>1, Types DEF DeferredTypeOK, Promotions
<1>6. PromotedNamesPayment' /\ KeptNamesPayment'
  BY <1>1, <1>3 DEF DeferredInv, PromotedNamesPayment, KeptNamesPayment
<1>7. ASSUME NEW p \in Orders PROVE OnePromotion(p)'
  <2>1. OnePromotion(p)
    BY DEF DeferredInv
  <2>2. promotions[t].order = NoOrder
    BY Types
  <2>3. CASE p # o
    <3>1. InProgressFor(p)' = InProgressFor(p)
      BY <1>1, <1>3, <2>2, <2>3, Types DEF InProgressFor
    <3>2. p \in raced <=> p \in raced'
      BY <2>3 DEF Promote
    <3>3. \A u \in InProgressFor(p) : promotions'[u] = promotions[u]
      BY <1>3, <2>2, Types DEF InProgressFor
    <3> QED BY <2>1, <3>1, <3>2, <3>3 DEF OnePromotion
  <2>4. CASE p = o
    <3> SUFFICES ASSUME o \notin raced' \cup reopened, reboots = 0 PROVE OnePromotion(o)'
      BY <2>4 DEF OnePromotion
    <3>1. InProgressFor(o) = {} /\ o \notin raced
      BY DEF Promote
    <3>2. InProgressFor(o)' = {t}
      BY <1>1, <1>3, <3>1 DEF InProgressFor
    <3>3. created[o] = 0
      BY <2>1, <2>4, <3>1 DEF OnePromotion, Promote, Promotable, Ended
    <3> QED BY <3>2, <3>3 DEF OnePromotion
  <2> QED BY <2>3, <2>4
<1> QED BY <1>5, <1>6, <1>7 DEF DeferredInv

(* A task that is not promoting changes to another state that is not.      *)
LEMMA IdleStep ==
  ASSUME DeferredInv, NEW t \in Tasks, NEW m \in Promotions, promotions' = [promotions EXCEPT ![t] = m],
         promotions[t].at \in {"idle", "fail"}, m.at \in {"idle", "fail"},
         m.at = "idle" <=> m.order = NoOrder,
         due' \subseteq Orders, UNCHANGED <<orders, clock, created, kept, raced, reopened, reboots>>
  PROVE  DeferredInv'
<1>1. promotions' \in [Tasks -> Promotions] /\ \A u \in Tasks : promotions'[u] = IF u = t THEN m ELSE promotions[u]
  BY Types
<1>2. \A u \in Tasks : promotions'[u].at = "idle" <=> promotions'[u].order = NoOrder
  BY <1>1, Types
<1>3. DeferredTypeOK'
  BY <1>1, <1>2, Types DEF DeferredTypeOK, Promotions
<1>4. PromotedNamesPayment' /\ KeptNamesPayment'
  BY <1>1 DEF DeferredInv, PromotedNamesPayment, KeptNamesPayment
<1>5. ASSUME NEW p \in Orders PROVE OnePromotion(p)'
  <2>1. OnePromotion(p)
    BY DEF DeferredInv
  <2>2. InProgressFor(p)' = InProgressFor(p)
    BY <1>1, Types DEF InProgressFor
  <2>3. \A u \in InProgressFor(p) : promotions'[u] = promotions[u]
    BY <1>1, Types DEF InProgressFor
  <2> QED BY <2>1, <2>2, <2>3 DEF OnePromotion
<1> QED BY <1>3, <1>4, <1>5 DEF DeferredInv

LEMMA BeginPromoteInv == ASSUME DeferredInv, NEW t \in Promoters, BeginPromote(t) PROVE DeferredInv'
BY PromoteInv DEF BeginPromote, Tasks

LEMMA TryDueInv == ASSUME DeferredInv, NEW o \in Orders, TryDue(o) PROVE DeferredInv'
<1>1. Loop \in Tasks /\ promotions[Loop].at = "idle"
  BY DEF Tasks, TryDue
<1>2. CASE Promote(Loop, o)
  BY <1>1, <1>2, PromoteInv DEF TryDue
<1>3. CASE ~ Promote(Loop, o)
  <2> DEFINE m == [at |-> "fail", order |-> o, payment |-> 0]
  <2>1. 0 \in 0 .. MaxCreated
    BY Types
  <2>2. m \in Promotions /\ m.at = "fail" /\ m.order = o /\ o # NoOrder
    BY <2>1, NewPromotions, Types
  <2>3. promotions' = [promotions EXCEPT ![Loop] = m] /\ UNCHANGED raced
    BY <1>3 DEF TryDue
  <2>4. due' \subseteq Orders
    BY Types DEF TryDue
  <2> HIDE DEF m
  <2> QED BY <1>1, <2>2, <2>3, <2>4, IdleStep DEF TryDue
<1> QED BY <1>2, <1>3

(* One more payment, in the hands of the only promotion there was.         *)
LEMMA CreateForOrderInv == ASSUME DeferredInv, NEW t \in Tasks, CreateForOrder(t) PROVE DeferredInv'
<1> DEFINE o == promotions[t].order
<1>1. /\ o \in Orders /\ promotions[t] \in Promotions /\ promotions[t].at = "create"
      /\ t \in InProgressFor(o)
  BY Types, PromotionFields DEF CreateForOrder, InProgressFor
<1>2. CASE created' = created
  <2>1. PICK m \in Promotions : /\ promotions' = [promotions EXCEPT ![t] = m]
                                /\ \/ m.at = "idle" /\ m.order = NoOrder
                                   \/ m.at = "fail" /\ m.order = o
    <3> DEFINE f == [promotions[t] EXCEPT !.at = "fail"]
    <3>1. f \in Promotions /\ f.at = "fail" /\ f.order = o
      BY <1>1 DEF Promotions
    <3>2. promotions' = [promotions EXCEPT ![t] = f] \/ promotions' = [promotions EXCEPT ![t] = NoTask]
      <4>1. created[o] \in Nat /\ (created[o] < MaxCreated => created'[o] = created[o])
        BY <1>1, <1>2, Types
      <4>2. created' # [created EXCEPT ![o] = @ + 1]
        BY <1>1, <1>2, <4>1, Types
      <4> QED BY <4>2 DEF CreateForOrder
    <3> HIDE DEF f
    <3> QED BY <3>1, <3>2, NewPromotions
  <2>2. promotions' \in [Tasks -> Promotions] /\ \A u \in Tasks : promotions'[u] = IF u = t THEN m ELSE promotions[u]
    BY <2>1, Types
  <2>3. \A u \in Tasks : promotions'[u].at = "idle" <=> promotions'[u].order = NoOrder
    BY <1>1, <2>1, <2>2, Types
  <2>4. DeferredTypeOK'
    BY <1>2, <2>2, <2>3, Types DEF CreateForOrder, DeferredTypeOK, Promotions
  <2>5. PromotedNamesPayment' /\ KeptNamesPayment'
    BY <1>2, <2>1, <2>2 DEF CreateForOrder, DeferredInv, PromotedNamesPayment, KeptNamesPayment
  <2>6. ASSUME NEW p \in Orders PROVE OnePromotion(p)'
    <3>1. OnePromotion(p)
      BY DEF DeferredInv
    <3>2. InProgressFor(p)' = IF p = o THEN InProgressFor(p) \ {t} ELSE InProgressFor(p)
      BY <1>1, <2>1, <2>2, Types DEF InProgressFor
    <3>3. \A u \in Tasks \ {t} : promotions'[u] = promotions[u]
      BY <2>2
    <3>4. InProgressFor(p) \subseteq Tasks
      BY DEF InProgressFor
    <3>5. UNCHANGED <<orders, created, raced, reopened, reboots>>
      BY <1>2 DEF CreateForOrder
    <3>6. CASE p = o
      BY <1>1, <3>1, <3>2, <3>3, <3>4, <3>5, <3>6 DEF OnePromotion
    <3>7. CASE p # o
      <4>1. t \notin InProgressFor(p)
        BY <3>7 DEF InProgressFor
      <4> QED BY <3>1, <3>2, <3>3, <3>4, <3>5, <3>7, <4>1 DEF OnePromotion
    <3> QED BY <3>6, <3>7
  <2> QED BY <2>4, <2>5, <2>6 DEF DeferredInv
<1>3. CASE created' # created
  <2> DEFINE m == [promotions[t] EXCEPT !.at = "mark", !.payment = created[o] + 1]
  <2>1. /\ created[o] < MaxCreated /\ created[o] \in Nat
        /\ created' = [created EXCEPT ![o] = created[o] + 1]
        /\ promotions' = [promotions EXCEPT ![t] = m]
    <3>1. created[o] \in Nat
      BY <1>1, Types
    <3>2. /\ created[o] < MaxCreated
          /\ created' = [created EXCEPT ![o] = created[o] + 1]
          /\ promotions' = [promotions EXCEPT ![t].at = "mark", ![t].payment = created[o] + 1]
      BY <1>3 DEF CreateForOrder
    <3>3. promotions' = [promotions EXCEPT ![t] = m]
      BY <3>2, Types
    <3> QED BY <3>1, <3>2, <3>3
  <2>2. created[o] + 1 \in 0 .. MaxCreated
    BY <2>1, Types
  <2>3. m \in Promotions /\ m.at = "mark" /\ m.order = o /\ m.payment = created[o] + 1
    BY <1>1, <2>2 DEF Promotions
  <2> HIDE DEF m
  <2>4. promotions' \in [Tasks -> Promotions] /\ \A u \in Tasks : promotions'[u] = IF u = t THEN m ELSE promotions[u]
    BY <2>1, <2>3, Types
  <2>5. /\ created' \in [Orders -> 0 .. MaxCreated] /\ created'[o] = created[o] + 1
        /\ \A p \in Orders \ {o} : created'[p] = created[p]
    BY <1>1, <2>1, <2>2, Types
  <2>6. \A u \in Tasks : promotions'[u].at = "idle" <=> promotions'[u].order = NoOrder
    BY <1>1, <2>3, <2>4, Types
  <2>7. DeferredTypeOK'
    BY <2>4, <2>5, <2>6, Types DEF CreateForOrder, DeferredTypeOK, Promotions
  <2>8. PromotedNamesPayment' /\ KeptNamesPayment'
    <3>1. \A p \in Orders : created[p] \in Nat /\ created'[p] \in Nat /\ created[p] <= created'[p]
      BY <2>5, Types
    <3>2. ASSUME NEW p \in Orders
          PROVE  /\ orders'[p].payment <= created'[p]
                 /\ orders'[p].status = "promoted" => orders'[p].payment # 0
      <4>1. orders[p].payment \in Nat /\ orders[p].payment <= created[p]
        BY OrderFields, Types DEF DeferredInv, PromotedNamesPayment
      <4> QED BY <3>1, <4>1 DEF CreateForOrder, DeferredInv, PromotedNamesPayment
    <3>3. ASSUME NEW u \in Tasks, promotions'[u].at = "mark"
          PROVE  promotions'[u].payment \in 1 .. created'[promotions'[u].order]
      <4>1. CASE u = t
        BY <2>1, <2>3, <2>4, <2>5, <4>1
      <4>2. CASE u # t
        <5>1. promotions'[u] = promotions[u] /\ promotions[u].order \in Orders
          BY <2>4, <3>3, <4>2, PromotionFields, Types
        <5>2. promotions[u].payment \in 1 .. created[promotions[u].order]
          BY <3>3, <5>1 DEF DeferredInv, PromotedNamesPayment
        <5> QED BY <3>1, <5>1, <5>2
      <4> QED BY <4>1, <4>2
    <3>4. KeptNamesPayment'
      BY DEF CreateForOrder, DeferredInv, KeptNamesPayment
    <3> QED BY <3>2, <3>3, <3>4 DEF PromotedNamesPayment
  <2>9. ASSUME NEW p \in Orders PROVE OnePromotion(p)'
    <3>1. OnePromotion(p)
      BY DEF DeferredInv
    <3>2. InProgressFor(p)' = InProgressFor(p)
      BY <1>1, <2>3, <2>4, Types DEF InProgressFor
    <3>3. UNCHANGED <<orders, raced, reopened, reboots>>
      BY DEF CreateForOrder
    <3>4. InProgressFor(p) \subseteq Tasks
      BY DEF InProgressFor
    <3>5. CASE p = o
      <4> SUFFICES ASSUME o \notin raced \cup reopened, reboots = 0 PROVE OnePromotion(p)'
        BY <3>3, <3>5 DEF OnePromotion
      <4>1. created[o] = 0 /\ created'[o] = 1 /\ \A u \in InProgressFor(o) : u = t
        BY <1>1, <2>5, <3>1, <3>5 DEF OnePromotion
      <4>2. \A u \in InProgressFor(o) : promotions'[u].at = "mark"
        BY <2>3, <2>4, <4>1
      <4> QED BY <1>1, <3>1, <3>2, <3>3, <3>5, <4>1, <4>2 DEF OnePromotion
    <3>6. CASE p # o
      <4>1. t \notin InProgressFor(p)
        BY <3>6 DEF InProgressFor
      <4> QED BY <2>4, <2>5, <3>1, <3>2, <3>3, <3>4, <3>6, <4>1 DEF OnePromotion
    <3> QED BY <3>5, <3>6
  <2> QED BY <2>7, <2>8, <2>9 DEF DeferredInv
<1> QED BY <1>2, <1>3

LEMMA MarkPromotedInv == ASSUME DeferredInv, NEW t \in Tasks, MarkPromoted(t) PROVE DeferredInv'
<1> DEFINE o == promotions[t].order
           r == [orders[o] EXCEPT !.status = "promoted", !.payment = promotions[t].payment]
<1>1. /\ o \in Orders /\ promotions[t].at = "mark" /\ t \in InProgressFor(o)
      /\ promotions[t].payment \in 0 .. MaxCreated /\ orders[o] \in OrderRecords
  BY Types, PromotionFields DEF MarkPromoted, InProgressFor
<1>2. promotions[t].payment \in 1 .. created[o]
  BY <1>1 DEF DeferredInv, PromotedNamesPayment
<1>3. r \in OrderRecords /\ r.status = "promoted" /\ r.payment = promotions[t].payment
  BY <1>1 DEF OrderRecords, Ended
<1>4. orders' = [orders EXCEPT ![o] = r]
  BY <1>1, Types DEF MarkPromoted
<1> HIDE DEF r
<1>5. orders' \in [Orders -> OrderRecords] /\ \A p \in Orders : orders'[p] = IF p = o THEN r ELSE orders[p]
  BY <1>3, <1>4, Types
<1>6. /\ promotions' \in [Tasks -> Promotions]
      /\ \A u \in Tasks : promotions'[u] = IF u = t THEN NoTask ELSE promotions[u]
  BY NewPromotions, Types DEF MarkPromoted
<1>7. \A u \in Tasks : promotions'[u].at = "idle" <=> promotions'[u].order = NoOrder
  BY <1>6, NewPromotions, Types
<1>8. DeferredTypeOK'
  BY <1>5, <1>6, <1>7, Types DEF MarkPromoted, DeferredTypeOK, Promotions
<1>9. PromotedNamesPayment' /\ KeptNamesPayment'
  <2>1. created[o] \in Nat
    BY <1>1, Types
  <2> QED BY <1>2, <1>3, <1>5, <1>6, <2>1, NewPromotions
          DEF MarkPromoted, DeferredInv, PromotedNamesPayment, KeptNamesPayment
<1>10. ASSUME NEW p \in Orders PROVE OnePromotion(p)'
  <2>1. OnePromotion(p)
    BY DEF DeferredInv
  <2>2. InProgressFor(p)' = IF p = o THEN InProgressFor(p) \ {t} ELSE InProgressFor(p)
    BY <1>1, <1>6, NewPromotions, Types DEF InProgressFor
  <2>3. UNCHANGED <<created, raced, reopened, reboots>>
    BY DEF MarkPromoted
  <2>4. InProgressFor(p) \subseteq Tasks /\ \A u \in Tasks \ {t} : promotions'[u] = promotions[u]
    BY <1>6 DEF InProgressFor
  <2>5. CASE p = o
    BY <1>1, <1>3, <1>5, <2>1, <2>2, <2>3, <2>4, <2>5 DEF OnePromotion
  <2>6. CASE p # o
    <3>1. t \notin InProgressFor(p)
      BY <2>6 DEF InProgressFor
    <3> QED BY <1>5, <2>1, <2>2, <2>3, <2>4, <2>6, <3>1 DEF OnePromotion
  <2> QED BY <2>5, <2>6
<1> QED BY <1>8, <1>9, <1>10 DEF DeferredInv

LEMMA ListDueInv == ASSUME DeferredInv, ListDue PROVE DeferredInv'
<1>1. DeferredTypeOK'
  BY DEF ListDue, DeferredInv, DeferredTypeOK
<1>2. PromotedNamesPayment' /\ KeptNamesPayment' /\ \A o \in Orders : OnePromotion(o)'
  BY DEF ListDue, DeferredInv, PromotedNamesPayment, KeptNamesPayment, OnePromotion, InProgressFor
<1> QED BY <1>1, <1>2 DEF DeferredInv

(* The loop writes the status of an order it is not promoting any more; an *)
(* order that had ended is reopened by it.                                 *)
LEMMA MarkFailedInv == ASSUME DeferredInv, MarkFailed PROVE DeferredInv'
<1> DEFINE o == promotions[Loop].order
           r == [orders[o] EXCEPT !.status = "failed"]
<1>1. /\ Loop \in Tasks /\ o \in Orders /\ promotions[Loop].at = "fail"
      /\ orders[o] \in OrderRecords
  BY Types, PromotionFields DEF MarkFailed, Tasks
<1>2. r \in OrderRecords /\ r.status = "failed" /\ r.payment = orders[o].payment
  <2>1. orders[o] \in OrderRecords
    BY <1>1
  <2> QED BY <2>1 DEF OrderRecords
<1>3. orders' = [orders EXCEPT ![o] = r]
  BY DEF MarkFailed
<1> HIDE DEF r
<1>4. orders' \in [Orders -> OrderRecords] /\ \A p \in Orders : orders'[p] = IF p = o THEN r ELSE orders[p]
  BY <1>2, <1>3, Types
<1>5. /\ promotions' \in [Tasks -> Promotions]
      /\ \A u \in Tasks : promotions'[u] = IF u = Loop THEN NoTask ELSE promotions[u]
  BY NewPromotions, Types DEF MarkFailed
<1>6. \A u \in Tasks : promotions'[u].at = "idle" <=> promotions'[u].order = NoOrder
  BY <1>5, NewPromotions, Types
<1>7. reopened' \subseteq Orders /\ reopened \subseteq reopened'
  BY <1>1, Types DEF MarkFailed
<1>8. DeferredTypeOK'
  BY <1>4, <1>5, <1>6, <1>7, Types DEF MarkFailed, DeferredTypeOK, Promotions
<1>9. PromotedNamesPayment' /\ KeptNamesPayment'
  BY <1>2, <1>4, <1>5, NewPromotions
     DEF MarkFailed, DeferredInv, PromotedNamesPayment, KeptNamesPayment
<1>10. ASSUME NEW p \in Orders PROVE OnePromotion(p)'
  <2>1. OnePromotion(p)
    BY DEF DeferredInv
  <2>2. InProgressFor(p)' = InProgressFor(p)
    BY <1>1, <1>5, NewPromotions, Types DEF InProgressFor
  <2>3. \A u \in InProgressFor(p) : promotions'[u] = promotions[u]
    BY <1>1, <1>5 DEF InProgressFor
  <2>4. UNCHANGED <<created, raced, reboots>>
    BY DEF MarkFailed
  <2>5. p = o /\ orders[p].status = "promoted" => p \in reopened'
    BY DEF MarkFailed, Ended
  <2> QED BY <1>4, <1>7, <2>1, <2>2, <2>3, <2>4, <2>5 DEF OnePromotion
<1> QED BY <1>8, <1>9, <1>10 DEF DeferredInv

LEMMA PassTimeInv == ASSUME DeferredInv, PassTime PROVE DeferredInv'
<1>1. DeferredTypeOK'
  <2>1. clock' \in 0 .. MaxTime
    BY Types, OrdersAssumption DEF PassTime
  <2> QED BY <2>1 DEF PassTime, DeferredInv, DeferredTypeOK
<1>2. PromotedNamesPayment' /\ KeptNamesPayment' /\ \A o \in Orders : OnePromotion(o)'
  BY DEF PassTime, DeferredInv, PromotedNamesPayment, KeptNamesPayment, OnePromotion, InProgressFor
<1> QED BY <1>1, <1>2 DEF DeferredInv

LEMMA SaveOrdersInv == ASSUME DeferredInv, SaveOrders PROVE DeferredInv'
<1>1. kept'.orders = orders /\ kept'.created = created
  BY DEF SaveOrders
<1>2. DeferredTypeOK'
  BY <1>1 DEF SaveOrders, DeferredInv, DeferredTypeOK
<1>3. PromotedNamesPayment' /\ KeptNamesPayment' /\ \A o \in Orders : OnePromotion(o)'
  BY <1>1 DEF SaveOrders, DeferredInv, PromotedNamesPayment, KeptNamesPayment, OnePromotion, InProgressFor
<1> QED BY <1>2, <1>3 DEF DeferredInv

LEMMA RebootInv == ASSUME DeferredInv, Reboot PROVE DeferredInv'
<1>1. /\ promotions' \in [Tasks -> Promotions]
      /\ \A t \in Tasks : promotions'[t].at = "idle" /\ promotions'[t].order = NoOrder
  BY NewPromotions DEF Reboot
<1>2. reboots' \in 0 .. MaxReboots /\ reboots' # 0
  BY Types, OrdersAssumption DEF Reboot
<1>3. orders' = kept.orders /\ created' = kept.created /\ due' = {} /\ UNCHANGED <<clock, kept, raced, reopened>>
  BY DEF Reboot
<1>4. DeferredTypeOK'
  BY <1>1, <1>2, <1>3, Types DEF DeferredTypeOK, Promotions
<1>5. PromotedNamesPayment' /\ KeptNamesPayment'
  BY <1>1, <1>3 DEF DeferredInv, PromotedNamesPayment, KeptNamesPayment
<1>6. \A o \in Orders : OnePromotion(o)'
  BY <1>2 DEF OnePromotion
<1> QED BY <1>4, <1>5, <1>6 DEF DeferredInv

LEMMA DeferredStepInv == DeferredInv /\ [DeferredStep]_deferredVars => DeferredInv'
<1> SUFFICES ASSUME DeferredInv, [DeferredStep]_deferredVars PROVE DeferredInv'
  OBVIOUS
<1>1. CASE DeferredStep
  BY <1>1, CreateDeferredInv, CancelDeferredInv, TryDueInv, BeginPromoteInv, CreateForOrderInv,
     MarkPromotedInv, ListDueInv, MarkFailedInv, PassTimeInv, SaveOrdersInv, RebootInv
     DEF DeferredStep
<1>2. CASE UNCHANGED deferredVars
  BY <1>2 DEF deferredVars, DeferredInv, DeferredTypeOK, PromotedNamesPayment, KeptNamesPayment,
              OnePromotion, InProgressFor
<1> QED BY <1>1, <1>2

-----------------------------------------------------------------------------
(* The types of DeferredPayments hold: a promotion in progress names an    *)
(* order, a task that is idle names none (promote_deferred takes an id).   *)
THEOREM DeferredTypeCorrect == DeferredSpec => []DeferredTypeOK
<1>1. DeferredInv => DeferredTypeOK
  BY DEF DeferredInv
<1> QED BY DeferredInitInv, DeferredStepInv, <1>1, PTL DEF DeferredSpec

(* promote_deferred stores in an order the payment that was created for    *)
(* it, however promotions, the loop, saves and restarts interleave.        *)
THEOREM PromotedOrdersNamePayments == DeferredSpec => []PromotedNamesPayment
<1>1. DeferredInv => PromotedNamesPayment
  BY DEF DeferredInv
<1> QED BY DeferredInitInv, DeferredStepInv, <1>1, PTL DEF DeferredSpec

LEMMA OneTask ==
  ASSUME NEW S \in SUBSET Tasks, \A t, u \in S : t = u
  PROVE  \/ S = {} /\ Cardinality(S) = 0
         \/ \E t \in S : S = {t} /\ Cardinality(S) = 1
<1>1. CASE S = {}
  BY <1>1, FS_EmptySet
<1>2. CASE S # {}
  <2>1. PICK t \in S : TRUE
    BY <1>2
  <2>2. S = {t}
    BY <2>1
  <2> QED BY <2>2, FS_Singleton
<1> QED BY <1>1, <1>2

LEMMA PaidOnce == DeferredInv => PaidOnceAlone
<1> SUFFICES ASSUME DeferredInv, NEW o \in Orders, o \notin raced \cup reopened, reboots = 0
             PROVE  created[o] + Cardinality({t \in Tasks : promotions[t].at = "create"
                                                             /\ promotions[t].order = o}) <= 1
  BY DEF PaidOnceAlone
<1> DEFINE S == {t \in Tasks : promotions[t].at = "create" /\ promotions[t].order = o}
<1>1. S \subseteq InProgressFor(o)
  BY DEF InProgressFor
<1>2. /\ \A t, u \in S : t = u
      /\ created[o] \in {0, 1}
      /\ S # {} => created[o] = 0
  BY <1>1 DEF DeferredInv, OnePromotion
<1>3. S \in SUBSET Tasks
  OBVIOUS
<1> HIDE DEF S
<1>4. Cardinality(S) \in {0, 1} /\ (S = {} => Cardinality(S) = 0)
  BY <1>2, <1>3, OneTask
<1>5. created[o] + Cardinality(S) <= 1
  BY <1>2, <1>4
<1> QED BY <1>5 DEF S

(* One payment at most for an order that one task at a time promotes: the  *)
(* status that promote_deferred reads under its first lock is what keeps a *)
(* later promotion away.                                                   *)
THEOREM AlonePaidOnce == DeferredSpec => []PaidOnceAlone
<1>1. DeferredInv => PaidOnceAlone
  BY PaidOnce
<1> QED BY DeferredInitInv, DeferredStepInv, <1>1, PTL DEF DeferredSpec

(* promote_deferred and the loop as a whole: the payment of a promoted     *)
(* order exists, and an order alone with its promoter has no second one.   *)
THEOREM OrdersArePaidOnce == DeferredSpec => []OrdersPaidOnce
<1>1. DeferredInv => DeferredTypeOK /\ PromotedNamesPayment
  BY DEF DeferredInv
<1>2. DeferredInv => OrdersPaidOnce
  BY <1>1, PaidOnce DEF OrdersPaidOnce
<1> QED BY DeferredInitInv, DeferredStepInv, <1>2, PTL DEF DeferredSpec

-----------------------------------------------------------------------------
(* A task of which the order is not the subject, before or after the step. *)
LEMMA OtherTask ==
  ASSUME DeferredInv, NEW t \in Tasks, NEW m \in Promotions, NEW o \in Orders,
         promotions' = [promotions EXCEPT ![t] = m], m.order # o, InProgressFor(o) = {}
  PROVE  InProgressFor(o)' = {}
BY Types DEF InProgressFor

(* A task that has an order in its hands has another one.                  *)
LEMMA OtherOrder ==
  ASSUME DeferredInv, NEW o \in Orders, CancelledOut(o), NEW t \in Tasks,
         promotions[t].at # "idle", promotions[t].at = "fail" => t = Loop
  PROVE  promotions[t].order # o /\ promotions[t].order \in Orders
<1>1. promotions[t].order # NoOrder /\ promotions[t].order \in Orders \cup {NoOrder}
  BY PromotionFields, Types
<1> QED BY <1>1 DEF CancelledOut, InProgressFor

LEMMA CreateStays ==
  ASSUME DeferredInv, NEW o \in Orders, CancelledOut(o), NEW t \in Tasks, CreateForOrder(t)
  PROVE  StaysOut(o)
<1> DEFINE p == promotions[t].order
<1>0. promotions[t].at = "create"
  BY DEF CreateForOrder
<1>1. p # o /\ p \in Orders /\ promotions[t] \in Promotions
  BY <1>0, OtherOrder, Types
<1>2. created'[o] = created[o]
  BY <1>1, Types DEF CreateForOrder
<1>3. \A u \in Tasks : promotions'[u].order = o => u # t /\ promotions'[u] = promotions[u]
  <2>1. CASE created' = [created EXCEPT ![p] = @ + 1]
               /\ promotions' = [promotions EXCEPT ![t].at = "mark", ![t].payment = created[p] + 1]
    <3> DEFINE m == [promotions[t] EXCEPT !.at = "mark", !.payment = created[p] + 1]
    <3>1. m.order = p
      BY <1>1 DEF Promotions
    <3>2. promotions' = [promotions EXCEPT ![t] = m]
      BY <2>1, Types
    <3> HIDE DEF m
    <3> QED BY <1>1, <3>1, <3>2, Types
  <2>2. CASE promotions' = [promotions EXCEPT ![t].at = "fail"]
    <3> DEFINE m == [promotions[t] EXCEPT !.at = "fail"]
    <3>1. m.order = p
      BY <1>1 DEF Promotions
    <3>2. promotions' = [promotions EXCEPT ![t] = m]
      BY <2>2, Types
    <3> HIDE DEF m
    <3> QED BY <1>1, <3>1, <3>2, Types
  <2>3. CASE promotions' = [promotions EXCEPT ![t] = NoTask]
    BY <2>3, NewPromotions, Types
  <2> QED BY <2>1, <2>2, <2>3 DEF CreateForOrder
<1> QED BY <1>2, <1>3 DEF CreateForOrder, StaysOut, CancelledOut, InProgressFor

LEMMA CancelledStays ==
  ASSUME DeferredInv, DeferredStep, NEW o \in Orders, CancelledOut(o), reboots' = reboots
  PROVE  StaysOut(o)
<1>1. ASSUME NEW p \in Orders, NEW after \in 0 .. MaxTime, CreateDeferred(p, after)
      PROVE  StaysOut(o)
  BY <1>1, Types DEF CreateDeferred, CancelledOut, StaysOut, InProgressFor
<1>2. ASSUME NEW p \in Orders, CancelDeferred(p) PROVE StaysOut(o)
  BY <1>2, Types DEF CancelDeferred, CancelledOut, StaysOut, InProgressFor, Ended
<1>3. ASSUME NEW t \in Tasks, NEW p \in Orders, Promote(t, p), due' \subseteq due,
             UNCHANGED <<orders, created>>
      PROVE  StaysOut(o)
  <2> DEFINE m == [at |-> "create", order |-> p, payment |-> 0]
  <2>1. 0 \in 0 .. MaxCreated
    BY Types
  <2>2. m \in Promotions /\ m.order = p /\ promotions' = [promotions EXCEPT ![t] = m]
    BY <1>3, <2>1, NewPromotions DEF Promote
  <2>3. p # o
    BY <1>3 DEF Promote, Promotable, CancelledOut, Ended
  <2> HIDE DEF m
  <2>4. InProgressFor(o)' = {}
    BY <2>2, <2>3, OtherTask DEF CancelledOut
  <2> QED BY <1>3, <2>4 DEF StaysOut, CancelledOut
<1>4. ASSUME NEW p \in Orders, TryDue(p) PROVE StaysOut(o)
  <2>1. Loop \in Tasks /\ p # o /\ due' \subseteq due /\ UNCHANGED <<orders, created>>
    BY <1>4 DEF Tasks, TryDue, CancelledOut
  <2>2. CASE Promote(Loop, p)
    BY <1>3, <2>1, <2>2
  <2>3. CASE ~ Promote(Loop, p)
    <3> DEFINE m == [at |-> "fail", order |-> p, payment |-> 0]
    <3>1. 0 \in 0 .. MaxCreated
      BY Types
    <3>2. m \in Promotions /\ m.order = p /\ promotions' = [promotions EXCEPT ![Loop] = m]
      BY <1>4, <2>3, <3>1, NewPromotions DEF TryDue
    <3> HIDE DEF m
    <3>3. InProgressFor(o)' = {}
      BY <2>1, <3>2, OtherTask DEF CancelledOut
    <3> QED BY <2>1, <3>3 DEF StaysOut, CancelledOut
  <2> QED BY <2>2, <2>3
<1>5. ASSUME NEW t \in Promoters, BeginPromote(t) PROVE StaysOut(o)
  BY <1>3, <1>5 DEF BeginPromote, Tasks
<1>6. ASSUME NEW t \in Tasks, MarkPromoted(t) PROVE StaysOut(o)
  <2>0. promotions[t].at = "mark"
    BY <1>6 DEF MarkPromoted
  <2>1. promotions[t].order # o /\ promotions[t].order \in Orders
    BY <2>0, OtherOrder
  <2>2. orders'[o] = orders[o]
    BY <1>6, <2>1, Types DEF MarkPromoted
  <2>3. InProgressFor(o)' = {}
    BY <1>6, NewPromotions, OtherTask, Types DEF MarkPromoted, CancelledOut
  <2> QED BY <1>6, <2>2, <2>3 DEF MarkPromoted, StaysOut, CancelledOut
<1>7. ASSUME MarkFailed PROVE StaysOut(o)
  <2>1. Loop \in Tasks /\ promotions[Loop].order # o /\ promotions[Loop].order \in Orders
    BY <1>7, OtherOrder DEF MarkFailed, Tasks
  <2>2. orders'[o] = orders[o]
    BY <1>7, <2>1, Types DEF MarkFailed
  <2>3. InProgressFor(o)' = {}
    BY <1>7, <2>1, NewPromotions, OtherTask, Types DEF MarkFailed, CancelledOut
  <2> QED BY <1>7, <2>2, <2>3 DEF MarkFailed, StaysOut, CancelledOut
<1>8. CASE ListDue \/ PassTime \/ SaveOrders
  BY <1>8 DEF ListDue, PassTime, SaveOrders, StaysOut, CancelledOut, InProgressFor
<1>9. CASE Reboot
  BY <1>9, Types DEF Reboot
<1> QED BY <1>1, <1>2, <1>4, <1>5, <1>6, <1>7, <1>8, <1>9, CreateStays DEF DeferredStep

(* A step of promote_deferred, of the loop or of a snapshot leaves a       *)
(* cancelled order alone that nobody had read before cancel_deferred.      *)
THEOREM CancelledOrdersRest == DeferredSpec => CancelHolds
<1>1. DeferredInv /\ [DeferredStep]_deferredVars => [CancelStands]_deferredVars
  BY CancelledStays DEF CancelStands
<1> QED BY DeferredInitInv, DeferredStepInv, <1>1, PTL DEF DeferredSpec, CancelHolds

--------------------------------------------------------------------------
(* Sums over finite sets.                                                  *)

(* The least of some naturals. *)
LEMMA LeastOf ==
  ASSUME NEW S \in SUBSET Nat, S # {}
  PROVE  \E m \in S : \A y \in S : m <= y
<1>1. PICK x \in S : \A y \in S : ~ (<<y, x>> \in OpToRel(<, Nat))
  BY NatLessThanWellFounded, WFMin, Zenon
<1>2. \A y \in S : x \in Nat /\ y \in Nat /\ ~ (y < x)
  <2> TAKE y \in S
  <2>1. x \in Nat /\ y \in Nat /\ <<y, x>> \in Nat \X Nat
    OBVIOUS
  <2>2. ~ (<<y, x>>[1] < <<y, x>>[2])
    BY <1>1, <2>1, Zenon DEF OpToRel
  <2> QED BY <2>1, <2>2
<1>3. \A y \in S : x <= y
  BY <1>2
<1> QED BY <1>3

(* A family of sets has every subset of D if it has each one of which it   *)
(* has all those with an element less.                                     *)
LEMMA SubsetsOf ==
  ASSUME NEW D, IsFiniteSet(D), NEW Family,
         \A s \in SUBSET D : (\A x \in s : s \ {x} \in Family) => s \in Family
  PROVE  \A s \in SUBSET D : s \in Family
<1> DEFINE Missing == {n \in Nat : \E s \in SUBSET D : Cardinality(s) = n /\ s \notin Family}
<1>1. Missing = {}
  <2> SUFFICES ASSUME Missing # {} PROVE FALSE
    OBVIOUS
  <2>1. PICK m \in Missing : \A y \in Missing : m <= y
    BY LeastOf
  <2>2. PICK s \in SUBSET D : Cardinality(s) = m /\ s \notin Family
    OBVIOUS
  <2>3. ASSUME NEW x \in s PROVE s \ {x} \in Family
    <3>1. IsFiniteSet(s) /\ s \ {x} \in SUBSET D /\ IsFiniteSet(s \ {x})
      BY FS_Subset
    <3>2. Cardinality(s \ {x}) = m - 1 /\ Cardinality(s \ {x}) \in Nat /\ m \in Nat
      BY <2>2, <3>1, FS_RemoveElement, FS_CardinalityType
    <3>3. m - 1 \in Nat /\ ~ (m <= m - 1)
      BY <3>2
    <3>4. m - 1 \notin Missing
      BY <2>1, <3>3
    <3> QED BY <3>1, <3>2, <3>3, <3>4
  <2> QED BY <2>2, <2>3
<1>2. ASSUME NEW s \in SUBSET D PROVE s \in Family
  <2>1. Cardinality(s) \in Nat
    BY FS_Subset, FS_CardinalityType
  <2> QED BY <1>1, <2>1
<1> QED BY <1>2

(* sums is, on the sets of D, the function with which SumOf is defined.    *)
SumsOn(sums, weight, D) ==
  sums = [s \in D |-> IF s = {} THEN 0
                      ELSE weight[CHOOSE x \in s : TRUE] + sums[s \ {CHOOSE x \in s : TRUE}]]

Chosen(s) == CHOOSE x \in s : TRUE

(* The subsets of S with at most n elements. *)
Small(S, n) == {s \in SUBSET S : Cardinality(s) <= n}

LEMMA SumsExtend ==
  ASSUME NEW S, IsFiniteSet(S), NEW weight, NEW n \in Nat,
         \E f : SumsOn(f, weight, Small(S, n))
  PROVE  \E f : SumsOn(f, weight, Small(S, n + 1))
<1>1. PICK f : SumsOn(f, weight, Small(S, n))
  OBVIOUS
<1> DEFINE g == [s \in Small(S, n + 1) |-> IF s = {} THEN 0
                                           ELSE weight[Chosen(s)] + f[s \ {Chosen(s)}]]
<1>2. \A s \in Small(S, n) : s \in Small(S, n + 1)
  <2> TAKE s \in Small(S, n)
  <2>1. s \in SUBSET S /\ Cardinality(s) \in Nat /\ Cardinality(s) <= n
    BY FS_Subset, FS_CardinalityType DEF Small
  <2> QED BY <2>1 DEF Small
<1>3. \A s \in Small(S, n) : f[s] = g[s]
  BY <1>1, <1>2 DEF SumsOn, Chosen
<1>4. \A s \in Small(S, n + 1) : s # {} => s \ {Chosen(s)} \in Small(S, n)
  <2> TAKE s \in Small(S, n + 1)
  <2> HAVE s # {}
  <2>1. s \in SUBSET S /\ Cardinality(s) <= n + 1 /\ Chosen(s) \in s
    BY DEF Small, Chosen
  <2>2. IsFiniteSet(s) /\ Cardinality(s) \in Nat /\ s \ {Chosen(s)} \in SUBSET S
    BY <2>1, FS_Subset, FS_CardinalityType
  <2>3. Cardinality(s \ {Chosen(s)}) = Cardinality(s) - 1
    BY <2>1, <2>2, FS_RemoveElement
  <2> QED BY <2>1, <2>2, <2>3 DEF Small
<1>5. \A s \in Small(S, n + 1) : s # {} => f[s \ {Chosen(s)}] = g[s \ {Chosen(s)}]
  BY <1>3, <1>4
<1>6. g = [s \in Small(S, n + 1) |-> IF s = {} THEN 0
                                     ELSE weight[Chosen(s)] + g[s \ {Chosen(s)}]]
  BY <1>5
<1>7. SumsOn(g, weight, Small(S, n + 1))
  BY <1>6 DEF SumsOn, Chosen
<1> QED BY <1>7

LEMMA SumsExist ==
  ASSUME NEW S, IsFiniteSet(S), NEW weight
  PROVE  \E f : SumsOn(f, weight, SUBSET S)
<1> DEFINE Missing == {n \in Nat : ~ \E f : SumsOn(f, weight, Small(S, n))}
<1>1. Missing = {}
  <2> SUFFICES ASSUME Missing # {} PROVE FALSE
    OBVIOUS
  <2>1. PICK m \in Missing : \A y \in Missing : m <= y
    BY LeastOf
  <2>2. CASE m = 0
    <3>1. \A s \in SUBSET S : Cardinality(s) <= 0 => s = {}
      <4> TAKE s \in SUBSET S
      <4>1. IsFiniteSet(s) /\ Cardinality(s) \in Nat
        BY FS_Subset, FS_CardinalityType
      <4> QED BY <4>1, FS_EmptySet
    <3> DEFINE f == [s \in Small(S, 0) |-> 0]
    <3>2. SumsOn(f, weight, Small(S, 0))
      BY <3>1 DEF SumsOn, Small
    <3> QED BY <2>1, <2>2, <3>2
  <2>3. CASE m # 0
    <3>1. m - 1 \in Nat /\ m - 1 + 1 = m /\ ~ (m <= m - 1)
      BY <2>3
    <3>2. \E f : SumsOn(f, weight, Small(S, m - 1))
      BY <2>1, <3>1
    <3>3. \E f : SumsOn(f, weight, Small(S, m - 1 + 1))
      <4> HIDE DEF Missing
      <4> QED BY <3>1, <3>2, SumsExtend
    <3> QED BY <2>1, <3>1, <3>3
  <2> QED BY <2>2, <2>3
<1>2. Cardinality(S) \in Nat
  BY FS_CardinalityType
<1>3. Small(S, Cardinality(S)) = SUBSET S
  BY FS_Subset DEF Small
<1>4. \E f : SumsOn(f, weight, Small(S, Cardinality(S)))
  BY <1>1, <1>2
<1> QED BY <1>3, <1>4

LEMMA SumsAgree ==
  ASSUME NEW S, IsFiniteSet(S), NEW T \in SUBSET S, NEW weight, NEW f, NEW g,
         SumsOn(f, weight, SUBSET S), SumsOn(g, weight, SUBSET T)
  PROVE  f[T] = g[T]
<1> DEFINE Same == {s \in SUBSET T : f[s] = g[s]}
<1>1. ASSUME NEW s \in SUBSET T, \A x \in s : s \ {x} \in Same PROVE s \in Same
  <2>1. CASE s = {}
    BY <2>1 DEF SumsOn
  <2>2. CASE s # {}
    <3>1. Chosen(s) \in s /\ s \in SUBSET S
      BY <2>2 DEF Chosen
    <3>2. f[s \ {Chosen(s)}] = g[s \ {Chosen(s)}]
      BY <1>1, <3>1
    <3>3. /\ f[s] = weight[Chosen(s)] + f[s \ {Chosen(s)}]
          /\ g[s] = weight[Chosen(s)] + g[s \ {Chosen(s)}]
      <4> HIDE DEF Same
      <4> QED BY <2>2, <3>1 DEF SumsOn, Chosen
    <3> QED BY <3>2, <3>3
  <2> QED BY <2>1, <2>2
<1>2. IsFiniteSet(T)
  BY FS_Subset
<1>3. \A s \in SUBSET T : s \in Same
  <2> HIDE DEF Same
  <2> QED BY <1>1, <1>2, SubsetsOf
<1> QED BY <1>3

LEMMA SumIs ==
  ASSUME NEW S, IsFiniteSet(S), NEW weight
  PROVE  /\ S = {} => SumOf(weight, S) = 0
         /\ S # {} => /\ Chosen(S) \in S
                      /\ SumOf(weight, S) = weight[Chosen(S)] + SumOf(weight, S \ {Chosen(S)})
<1> DEFINE f == CHOOSE h : SumsOn(h, weight, SUBSET S)
<1>1. SumOf(weight, S) = f[S]
  BY DEF SumOf, MapThenSumSet, MapThenFoldSet, SumsOn
<1>2. SumsOn(f, weight, SUBSET S)
  BY SumsExist
<1>3. S = {} => f[S] = 0
  BY <1>2 DEF SumsOn
<1>4. ASSUME S # {}
      PROVE  SumOf(weight, S) = weight[Chosen(S)] + SumOf(weight, S \ {Chosen(S)})
  <2> DEFINE T == S \ {Chosen(S)}
  <2> DEFINE g == CHOOSE h : SumsOn(h, weight, SUBSET T)
  <2>1. SumOf(weight, T) = g[T]
    BY DEF SumOf, MapThenSumSet, MapThenFoldSet, SumsOn
  <2>2. T \in SUBSET S /\ IsFiniteSet(T)
    BY FS_Subset
  <2>3. SumsOn(g, weight, SUBSET T)
    <3> HIDE DEF T
    <3> QED BY <2>2, SumsExist
  <2>4. f[T] = g[T]
    <3> HIDE DEF T, f, g
    <3> QED BY <1>2, <2>2, <2>3, SumsAgree
  <2>5. f[S] = weight[Chosen(S)] + f[T]
    <3> HIDE DEF f
    <3> QED BY <1>2, <1>4 DEF SumsOn, Chosen
  <2> QED BY <1>1, <2>1, <2>4, <2>5
<1>5. S # {} => Chosen(S) \in S
  BY DEF Chosen
<1> QED BY <1>1, <1>3, <1>4, <1>5

LEMMA SumType ==
  ASSUME NEW S, IsFiniteSet(S), NEW weight, \A x \in S : weight[x] \in Nat
  PROVE  SumOf(weight, S) \in Nat
<1> DEFINE Typed == {s \in SUBSET S : SumOf(weight, s) \in Nat}
<1>1. ASSUME NEW s \in SUBSET S, \A x \in s : s \ {x} \in Typed PROVE s \in Typed
  <2>1. IsFiniteSet(s)
    BY FS_Subset
  <2>2. CASE s = {}
    <3>1. SumOf(weight, s) = 0
      BY <2>1, <2>2, SumIs
    <3> QED BY <3>1
  <2>3. CASE s # {}
    <3>1. Chosen(s) \in s /\ SumOf(weight, s) = weight[Chosen(s)] + SumOf(weight, s \ {Chosen(s)})
      BY <2>1, <2>3, SumIs
    <3>2. SumOf(weight, s \ {Chosen(s)}) \in Nat /\ weight[Chosen(s)] \in Nat
      BY <1>1, <3>1
    <3> QED BY <3>1, <3>2
  <2> QED BY <2>2, <2>3
<1>2. \A s \in SUBSET S : s \in Typed
  <2> HIDE DEF Typed
  <2> QED BY <1>1, SubsetsOf
<1> QED BY <1>2

(* Only the weights of the elements matter. *)
LEMMA SumSame ==
  ASSUME NEW S, IsFiniteSet(S), NEW v, NEW w, \A x \in S : v[x] = w[x]
  PROVE  SumOf(v, S) = SumOf(w, S)
<1> DEFINE Same == {s \in SUBSET S : SumOf(v, s) = SumOf(w, s)}
<1>1. ASSUME NEW s \in SUBSET S, \A x \in s : s \ {x} \in Same PROVE s \in Same
  <2>1. IsFiniteSet(s)
    BY FS_Subset
  <2>2. CASE s = {}
    <3>1. SumOf(v, s) = 0 /\ SumOf(w, s) = 0
      BY <2>1, <2>2, SumIs
    <3> QED BY <3>1
  <2>3. CASE s # {}
    <3>1. /\ Chosen(s) \in s
          /\ SumOf(v, s) = v[Chosen(s)] + SumOf(v, s \ {Chosen(s)})
          /\ SumOf(w, s) = w[Chosen(s)] + SumOf(w, s \ {Chosen(s)})
      BY <2>1, <2>3, SumIs
    <3>2. SumOf(v, s \ {Chosen(s)}) = SumOf(w, s \ {Chosen(s)}) /\ v[Chosen(s)] = w[Chosen(s)]
      BY <1>1, <3>1
    <3> QED BY <3>1, <3>2
  <2> QED BY <2>2, <2>3
<1>2. \A s \in SUBSET S : s \in Same
  <2> HIDE DEF Same
  <2> QED BY <1>1, SubsetsOf
<1> QED BY <1>2

(* An element counts once. *)
LEMMA SumWithout ==
  ASSUME NEW S, IsFiniteSet(S), NEW w, \A x \in S : w[x] \in Nat, NEW q \in S
  PROVE  SumOf(w, S) = SumOf(w, S \ {q}) + w[q]
<1> DEFINE Once == {s \in SUBSET S : \A x \in s : SumOf(w, s) = SumOf(w, s \ {x}) + w[x]}
<1>1. ASSUME NEW s \in SUBSET S, \A x \in s : s \ {x} \in Once, NEW y \in s
      PROVE  SumOf(w, s) = SumOf(w, s \ {y}) + w[y]
  <2> DEFINE c == Chosen(s)
  <2>1. IsFiniteSet(s) /\ s # {}
    BY FS_Subset
  <2>2. c \in s /\ SumOf(w, s) = w[c] + SumOf(w, s \ {c})
    BY <2>1, SumIs
  <2>3. \A x \in SUBSET s : SumOf(w, x) \in Nat
    BY <2>1, FS_Subset, SumType
  <2>4. w[c] \in Nat /\ w[y] \in Nat
    BY <2>2
  <2>5. CASE c = y
    BY <2>2, <2>3, <2>4, <2>5
  <2>6. CASE c # y
    <3> DEFINE r == (s \ {c}) \ {y}
    <3>1. r = (s \ {y}) \ {c}
      OBVIOUS
    <3>2. SumOf(w, s \ {c}) = SumOf(w, r) + w[y]
      BY <1>1, <2>2, <2>6
    <3>3. SumOf(w, s \ {y}) = SumOf(w, r) + w[c]
      <4>1. s \ {y} \in Once /\ c \in s \ {y}
        BY <1>1, <2>2, <2>6
      <4> QED BY <3>1, <4>1
    <3>4. SumOf(w, r) \in Nat
      BY <2>3
    <3> HIDE DEF c, r
    <3> QED BY <2>2, <2>4, <3>2, <3>3, <3>4
  <2> QED BY <2>5, <2>6
<1>2. \A s \in SUBSET S : s \in Once
  <2>1. ASSUME NEW s \in SUBSET S, \A x \in s : s \ {x} \in Once PROVE s \in Once
    BY <1>1, <2>1
  <2> HIDE DEF Once
  <2> QED BY <2>1, SubsetsOf
<1> QED BY <1>2

(* The weight of one element changes. *)
LEMMA SumChange ==
  ASSUME NEW S, IsFiniteSet(S), NEW v, NEW w, NEW q \in S,
         \A x \in S : v[x] \in Nat /\ w[x] \in Nat, \A x \in S \ {q} : v[x] = w[x]
  PROVE  /\ SumOf(v, S) \in Nat /\ SumOf(w, S) \in Nat
         /\ SumOf(v, S) - v[q] = SumOf(w, S) - w[q] /\ SumOf(v, S) >= v[q]
<1>1. IsFiniteSet(S \ {q})
  BY FS_Subset
<1>2. SumOf(v, S \ {q}) = SumOf(w, S \ {q})
  BY <1>1, SumSame
<1>3. SumOf(v, S) = SumOf(v, S \ {q}) + v[q] /\ SumOf(w, S) = SumOf(w, S \ {q}) + w[q]
  BY SumWithout
<1>4. SumOf(v, S \ {q}) \in Nat
  BY <1>1, SumType
<1> QED BY <1>2, <1>3, <1>4

LEMMA SumOfZeros ==
  ASSUME NEW S, IsFiniteSet(S), NEW w, \A x \in S : w[x] = 0
  PROVE  SumOf(w, S) = 0
<1> DEFINE None == {s \in SUBSET S : SumOf(w, s) = 0}
<1>1. ASSUME NEW s \in SUBSET S, \A x \in s : s \ {x} \in None PROVE s \in None
  <2>1. IsFiniteSet(s)
    BY FS_Subset
  <2>2. s # {} => w[Chosen(s)] = 0 /\ SumOf(w, s \ {Chosen(s)}) = 0
    BY <1>1, <2>1, SumIs
  <2> QED BY <2>1, <2>2, SumIs
<1>2. \A s \in SUBSET S : s \in None
  <2> HIDE DEF None
  <2> QED BY <1>1, SubsetsOf
<1> QED BY <1>2

-----------------------------------------------------------------------------
(* Micro streams.                                                          *)

StreamRecords ==
  [open : BOOLEAN, pays : BOOLEAN, spent : 0 .. Cap, sequence : 0 .. MaxPushes, entries : Seq(Entries)]
Pushing == [at : {"idle", "verify", "pay", "record", "undo"},
            request : Requests \cup {NoKeyGiven}, sequence : 0 .. MaxPushes]
Bills == [key : UserKeys, amount : Nat]

(* What a push still needs room for, and the payment it makes. *)
Owed(push) == IF push.at \in {"verify", "pay", "undo"} THEN AmountOf[push.request] ELSE 0
Unpaid == SumOf([c \in Pushers |-> Owed(pushes[c])], Pushers)
BillOf(push) == [key |-> PushKey(push), amount |-> AmountOf[push.request]]

(* Of an entry of a stream, what SequencesUnique and PaymentsWithinCap say. *)
EntriesApart(s) ==
  \A i \in DOMAIN s.entries :
    /\ s.entries[i].sequence <= s.sequence
    /\ \A j \in DOMAIN s.entries : i # j => s.entries[i].sequence # s.entries[j].sequence
EntriesPaid(s, bills) ==
  \A i \in DOMAIN s.entries :
    s.entries[i].key # NoKeyGiven => [key |-> s.entries[i].key, amount |-> s.entries[i].amount] \in bills

RecordsInv ==
  /\ stream \in StreamRecords /\ saved.stream \in StreamRecords /\ saved.recorded \in Nat
  /\ IsFiniteSet(payments) /\ IsFiniteSet(saved.payments)
  /\ stream.sequence <= reserved /\ saved.stream.sequence <= reserved
  /\ \A c \in Pushers : pushes[c].at # "idle" => pushes[c].request \in Requests

OrderInv == SequencesUnique /\ EntriesApart(saved.stream)

SpentInv == SpentCovers /\ saved.recorded <= saved.stream.spent

(* A payment and a push that has none yet have room side by side.          *)
PaidInv ==
  /\ Paid(payments) + Unpaid <= stream.spent /\ Paid(saved.payments) <= saved.stream.spent
  /\ EntriesPaid(stream, payments) /\ EntriesPaid(saved.stream, saved.payments)
  /\ \A c \in Pushers : pushes[c].at = "record" /\ stream.pays => BillOf(pushes[c]) \in payments

StreamInv == StreamTypeOK /\ RecordsInv /\ OrderInv /\ SpentInv /\ PaidInv

-----------------------------------------------------------------------------
LEMMA StreamFields ==
  ASSUME NEW s \in StreamRecords
  PROVE  /\ s.open \in BOOLEAN /\ s.pays \in BOOLEAN /\ s.spent \in 0 .. Cap
         /\ s.sequence \in 0 .. MaxPushes /\ s.entries \in Seq(Entries)
         /\ Len(s.entries) <= KeptEntries => StreamsOK(s)
<1>1. /\ s.open \in BOOLEAN /\ s.pays \in BOOLEAN /\ s.spent \in 0 .. Cap
      /\ s.sequence \in 0 .. MaxPushes /\ s.entries \in Seq(Entries)
      /\ DOMAIN s = {"open", "pays", "spent", "sequence", "entries"}
  BY DEF StreamRecords
<1>2. \A i \in 1 .. Len(s.entries) : s.entries[i] \in Entries
  BY <1>1
<1> QED BY <1>1, <1>2 DEF StreamsOK

LEMMA PushFields ==
  ASSUME NEW p \in Pushing
  PROVE  /\ p.at \in {"idle", "verify", "pay", "record", "undo"}
         /\ p.request \in Requests \cup {NoKeyGiven} /\ p.sequence \in 0 .. MaxPushes
BY DEF Pushing

LEMMA PushesTyped == StreamInv => pushes \in [Pushers -> Pushing]
BY DEF StreamInv, StreamTypeOK, Pushing

LEMMA AmountsPositive ==
  ASSUME NEW r \in Requests
  PROVE  AmountOf[r] \in Nat /\ AmountOf[r] > 0
BY RequestsAssumption

(* One push changes: the sums over all of them change by what it takes.    *)
LEMMA PushChanges ==
  ASSUME StreamInv, NEW c \in Pushers, NEW p \in Pushing, p.at # "idle" => p.request \in Requests,
         pushes' = [pushes EXCEPT ![c] = p]
  PROVE  /\ InProgress \in Nat /\ InProgress' \in Nat
         /\ Taken(pushes[c]) \in Nat /\ Taken(p) \in Nat
         /\ InProgress' - Taken(p) = InProgress - Taken(pushes[c]) /\ InProgress >= Taken(pushes[c])
         /\ Unpaid \in Nat /\ Unpaid' \in Nat
         /\ Owed(pushes[c]) \in Nat /\ Owed(p) \in Nat
         /\ Unpaid' - Owed(p) = Unpaid - Owed(pushes[c]) /\ Unpaid >= Owed(pushes[c])
<1> DEFINE taken == [d \in Pushers |-> Taken(pushes[d])]
<1> DEFINE taken2 == [d \in Pushers |-> Taken(pushes'[d])]
<1> DEFINE owed == [d \in Pushers |-> Owed(pushes[d])]
<1> DEFINE owed2 == [d \in Pushers |-> Owed(pushes'[d])]
<1>1. pushes \in [Pushers -> Pushing] /\ IsFiniteSet(Pushers)
  BY PushesTyped, RequestsAssumption
<1>2. pushes'[c] = p /\ \A d \in Pushers \ {c} : pushes'[d] = pushes[d]
  BY <1>1
<1>3. \A d \in Pushers : pushes[d].at # "idle" => pushes[d].request \in Requests
  BY DEF StreamInv, RecordsInv
<1>4. \A d \in Pushers : taken[d] \in Nat /\ owed[d] \in Nat
  BY <1>3, AmountsPositive DEF Taken, Owed
<1>5. \A d \in Pushers : taken2[d] \in Nat /\ owed2[d] \in Nat
  BY <1>2, <1>3, AmountsPositive DEF Taken, Owed
<1>6. \A d \in Pushers \ {c} : taken[d] = taken2[d] /\ owed[d] = owed2[d]
  BY <1>2
<1>7. taken[c] = Taken(pushes[c]) /\ owed[c] = Owed(pushes[c]) /\ taken2[c] = Taken(p) /\ owed2[c] = Owed(p)
  BY <1>2
<1>8. /\ InProgress = SumOf(taken, Pushers) /\ InProgress' = SumOf(taken2, Pushers)
      /\ Unpaid = SumOf(owed, Pushers) /\ Unpaid' = SumOf(owed2, Pushers)
  <2>1. InProgress = SumOf(taken, Pushers)
    BY DEF InProgress
  <2>2. InProgress' = SumOf(taken2, Pushers)
    BY DEF InProgress
  <2>3. Unpaid = SumOf(owed, Pushers)
    BY DEF Unpaid
  <2>4. Unpaid' = SumOf(owed2, Pushers)
    BY DEF Unpaid
  <2> QED BY <2>1, <2>2, <2>3, <2>4
<1> HIDE DEF taken, taken2, owed, owed2
<1>12. \A d \in Pushers : taken[d] \in Nat /\ taken2[d] \in Nat
  BY <1>4, <1>5
<1>13. \A d \in Pushers : owed[d] \in Nat /\ owed2[d] \in Nat
  BY <1>4, <1>5
<1>14. (\A d \in Pushers \ {c} : taken[d] = taken2[d]) /\ (\A d \in Pushers \ {c} : owed[d] = owed2[d])
  BY <1>6
<1>9. /\ SumOf(taken, Pushers) \in Nat /\ SumOf(taken2, Pushers) \in Nat
      /\ SumOf(taken, Pushers) - taken[c] = SumOf(taken2, Pushers) - taken2[c]
      /\ SumOf(taken, Pushers) >= taken[c]
  BY <1>1, <1>12, <1>14, SumChange
<1>10. /\ SumOf(owed, Pushers) \in Nat /\ SumOf(owed2, Pushers) \in Nat
       /\ SumOf(owed, Pushers) - owed[c] = SumOf(owed2, Pushers) - owed2[c]
       /\ SumOf(owed, Pushers) >= owed[c]
  BY <1>1, <1>13, <1>14, SumChange
<1>11. taken[c] \in Nat /\ taken2[c] \in Nat /\ owed[c] \in Nat /\ owed2[c] \in Nat
  BY <1>4, <1>5
<1> QED BY <1>7, <1>8, <1>9, <1>10, <1>11

(* A payment more, or one that was there before. *)
LEMMA PaidAdd ==
  ASSUME NEW bills, IsFiniteSet(bills), bills \subseteq Bills, NEW b \in Bills
  PROVE  /\ IsFiniteSet(bills \cup {b}) /\ Paid(bills) \in Nat
         /\ Paid(bills \cup {b}) \in Nat /\ Paid(bills \cup {b}) <= Paid(bills) + b.amount
<1> DEFINE more == bills \cup {b}
<1> DEFINE w == [x \in more |-> x.amount]
<1> DEFINE v == [x \in bills |-> x.amount]
<1>1. IsFiniteSet(more)
  BY FS_AddElement
<1>2. b.amount \in Nat /\ (\A x \in more : w[x] \in Nat) /\ w[b] = b.amount
      /\ (\A x \in bills : v[x] \in Nat /\ v[x] = w[x])
  BY DEF Bills
<1>3. Paid(more) = SumOf(w, more) /\ Paid(bills) = SumOf(v, bills)
  BY DEF Paid
<1>4. b \in more /\ bills \subseteq more /\ (b \notin bills => more \ {b} = bills)
      /\ (b \in bills => more = bills)
  OBVIOUS
<1> HIDE DEF w, v, more
<1>5. SumOf(v, bills) \in Nat /\ SumOf(w, more) \in Nat /\ SumOf(v, bills) = SumOf(w, bills)
  BY <1>1, <1>2, SumType, SumSame
<1>6. SumOf(w, more) = SumOf(w, more \ {b}) + w[b]
  BY <1>1, <1>2, <1>4, SumWithout
<1>7. SumOf(w, more) <= SumOf(v, bills) + b.amount
  <2>1. CASE b \in bills
    <3>1. SumOf(w, more) = SumOf(v, bills)
      BY <1>4, <1>5, <2>1
    <3> QED BY <1>2, <1>5, <3>1
  <2>2. CASE b \notin bills
    <3>1. SumOf(w, more) = SumOf(v, bills) + b.amount
      BY <1>2, <1>4, <1>5, <1>6, <2>2
    <3> QED BY <1>2, <1>5, <3>1
  <2> QED BY <2>1, <2>2
<1> QED BY <1>1, <1>3, <1>5, <1>7 DEF more

(* The key of a push in progress is one of the keys. *)
LEMMA KeysOfPushes ==
  ASSUME StreamInv, NEW c \in Pushers, pushes[c].at # "idle"
  PROVE  /\ pushes[c].request \in Requests /\ pushes[c].sequence \in 1 .. stream.sequence
         /\ pushes[c].sequence \in 1 .. MaxPushes
         /\ PushKey(pushes[c]) \in UserKeys /\ BillOf(pushes[c]) \in Bills
<1>1. pushes[c].request \in Requests /\ pushes[c].sequence \in 1 .. stream.sequence
  BY DEF StreamInv, RecordsInv, OrderInv, SequencesUnique, Active
<1>2. pushes[c].sequence \in 1 .. MaxPushes
  <2>1. stream.sequence \in 0 .. MaxPushes
    BY StreamFields DEF StreamInv, RecordsInv
  <2> QED BY <1>1, <2>1, RequestsAssumption
<1>3. PushKey(pushes[c]) \in UserKeys
  BY <1>1, <1>2 DEF PushKey, UserKeys
<1>4. BillOf(pushes[c]) \in Bills
  BY <1>1, <1>3, AmountsPositive DEF BillOf, Bills
<1> QED BY <1>1, <1>2, <1>3, <1>4

LEMMA PaidType ==
  ASSUME NEW bills, IsFiniteSet(bills), bills \subseteq Bills
  PROVE  Paid(bills) \in Nat
<1> DEFINE w == [b \in bills |-> b.amount]
<1>1. \A b \in bills : w[b] \in Nat
  BY DEF Bills
<1>2. Paid(bills) = SumOf(w, bills)
  BY DEF Paid
<1> HIDE DEF w
<1> QED BY <1>1, <1>2, SumType

(* Kinds of the entries and numbers of a stream. *)
LEMMA EntryKinds ==
  ASSUME NEW s \in Seq(Entries), NEW i \in DOMAIN s
  PROVE  /\ s[i] \in Entries /\ s[i].sequence \in Nat /\ s[i].sequence >= 1
         /\ s[i].sequence <= MaxPushes
<1>1. s[i] \in Entries
  OBVIOUS
<1> QED BY <1>1, RequestsAssumption DEF Entries

LEMMA StreamKinds ==
  ASSUME StreamInv
  PROVE  /\ Cap \in Nat /\ MaxPushes \in Nat /\ KeptEntries \in Nat /\ KeptEntries > 0
         /\ stream \in StreamRecords /\ stream.spent \in Nat /\ stream.spent <= Cap
         /\ stream.sequence \in Nat /\ stream.sequence <= reserved
         /\ reserved \in Nat /\ reserved <= MaxPushes
         /\ stream.entries \in Seq(Entries) /\ Len(stream.entries) <= KeptEntries
         /\ stream.open \in BOOLEAN /\ stream.pays \in BOOLEAN
         /\ recorded \in Nat /\ Paid(payments) \in Nat /\ Paid(saved.payments) \in Nat
<1>1. /\ stream \in StreamRecords /\ stream.sequence <= reserved /\ reserved \in 0 .. MaxPushes
      /\ Len(stream.entries) <= KeptEntries /\ recorded \in Nat
  BY DEF StreamInv, RecordsInv, StreamTypeOK, StreamsOK
<1>2. /\ stream.spent \in 0 .. Cap /\ stream.sequence \in 0 .. MaxPushes
      /\ stream.entries \in Seq(Entries) /\ stream.open \in BOOLEAN /\ stream.pays \in BOOLEAN
  BY <1>1, StreamFields
<1>3. /\ IsFiniteSet(payments) /\ payments \subseteq Bills
      /\ IsFiniteSet(saved.payments) /\ saved.payments \subseteq Bills
  BY DEF StreamInv, RecordsInv, StreamTypeOK, Bills
<1>4. Paid(payments) \in Nat /\ Paid(saved.payments) \in Nat
  BY <1>3, PaidType
<1>5. Cap \in Nat /\ MaxPushes \in Nat /\ KeptEntries \in Nat /\ KeptEntries > 0
  BY RequestsAssumption
<1>6. /\ stream.spent \in Nat /\ stream.spent <= Cap /\ stream.sequence \in Nat
      /\ reserved \in Nat /\ reserved <= MaxPushes
  BY <1>1, <1>2, <1>5
<1> QED BY <1>1, <1>2, <1>4, <1>5, <1>6

LEMMA PaidOfNone == Paid({}) = 0 /\ IsFiniteSet({})
<1>1. IsFiniteSet({})
  BY FS_EmptySet
<1> QED BY <1>1, SumIs DEF Paid

LEMMA StreamInitInv == StreamInit => StreamInv
<1> SUFFICES ASSUME StreamInit PROVE StreamInv
  OBVIOUS
<1> USE DEF StreamInit
<1>1. /\ stream \in StreamRecords /\ stream.entries = << >> /\ stream.spent = 0 /\ stream.sequence = 0
      /\ saved.stream = stream /\ saved.payments = {} /\ saved.recorded = 0
  BY RequestsAssumption DEF StreamRecords
<1>2. StreamsOK(stream)
  BY <1>1, StreamFields, RequestsAssumption
<1>3. NoPush \in Pushing /\ NoPush.at = "idle"
  BY RequestsAssumption DEF NoPush, Pushing
<1>4. StreamTypeOK
  <2>1. pushes \in [Pushers -> Pushing]
    BY <1>3
  <2>2. 0 \in 0 .. MaxPushes /\ 0 \in 0 .. MaxRestarts
    BY RequestsAssumption
  <2> QED BY <1>1, <1>2, <2>1, <2>2 DEF StreamTypeOK, Pushing
<1>5. RecordsInv
  BY <1>1, <1>3, PaidOfNone DEF RecordsInv
<1>6. OrderInv
  BY <1>1, <1>3 DEF OrderInv, SequencesUnique, Active, EntriesApart
<1>7. InProgress = 0 /\ Unpaid = 0
  <2> DEFINE taken == [d \in Pushers |-> Taken(pushes[d])]
  <2> DEFINE owed == [d \in Pushers |-> Owed(pushes[d])]
  <2>1. (\A d \in Pushers : taken[d] = 0) /\ (\A d \in Pushers : owed[d] = 0)
    BY <1>3 DEF Taken, Owed
  <2>2. InProgress = SumOf(taken, Pushers) /\ Unpaid = SumOf(owed, Pushers)
    BY DEF InProgress, Unpaid
  <2> HIDE DEF taken, owed
  <2>3. SumOf(taken, Pushers) = 0 /\ SumOf(owed, Pushers) = 0
    BY <2>1, SumOfZeros, RequestsAssumption
  <2> QED BY <2>2, <2>3
<1>8. SpentInv
  BY <1>1, <1>7, RequestsAssumption DEF SpentInv, SpentCovers
<1>9. PaidInv
  BY <1>1, <1>3, <1>7, PaidOfNone DEF PaidInv, EntriesPaid
<1> QED BY <1>4, <1>5, <1>6, <1>8, <1>9 DEF StreamInv

LEMMA ReservePushInv ==
  ASSUME StreamInv, NEW c \in Pushers, NEW r \in Requests, ReservePush(c, r)
  PROVE  StreamInv'
<1> DEFINE p == [at |-> "verify", request |-> r, sequence |-> stream.sequence + 1]
<1>1. /\ pushes[c].at = "idle" /\ stream.spent + AmountOf[r] <= Cap /\ reserved < MaxPushes
      /\ stream' = [stream EXCEPT !.sequence = @ + 1, !.spent = @ + AmountOf[r]]
      /\ pushes' = [pushes EXCEPT ![c] = p] /\ reserved' = reserved + 1
      /\ UNCHANGED <<payments, saved, recorded, overtaken, restarts>>
  BY DEF ReservePush
<1>2. AmountOf[r] \in Nat
  BY AmountsPositive
<1>3. /\ Cap \in Nat /\ MaxPushes \in Nat /\ stream \in StreamRecords /\ stream.spent \in Nat
      /\ stream.sequence \in Nat /\ stream.sequence <= reserved /\ reserved \in Nat
      /\ stream.entries \in Seq(Entries) /\ Len(stream.entries) <= KeptEntries
      /\ recorded \in Nat /\ Paid(payments) \in Nat
  BY StreamKinds
<1>4. stream.spent + AmountOf[r] \in 0 .. Cap /\ stream.sequence + 1 \in 0 .. MaxPushes
      /\ reserved + 1 \in 0 .. MaxPushes
  <2>1. stream.spent + AmountOf[r] <= Cap /\ reserved < MaxPushes
    BY <1>1
  <2>2. /\ Cap \in Nat /\ MaxPushes \in Nat /\ stream.spent \in Nat /\ reserved \in Nat
        /\ stream.sequence \in Nat /\ stream.sequence <= reserved
    BY <1>3
  <2> QED BY <1>2, <2>1, <2>2
<1>5. /\ stream' \in StreamRecords /\ stream'.entries = stream.entries
      /\ stream'.sequence = stream.sequence + 1 /\ stream'.spent = stream.spent + AmountOf[r]
      /\ stream'.pays = stream.pays
  BY <1>1, <1>3, <1>4 DEF StreamRecords
<1>6. p \in Pushing /\ p.at = "verify" /\ p.request = r /\ p.sequence = stream.sequence + 1
  BY <1>4 DEF Pushing
<1> HIDE DEF p
<1>7. pushes \in [Pushers -> Pushing]
  BY PushesTyped
<1>8. pushes' \in [Pushers -> Pushing] /\ pushes'[c] = p /\ (\A d \in Pushers \ {c} : pushes'[d] = pushes[d])
  BY <1>1, <1>6, <1>7
<1>9. StreamTypeOK'
  <2>1. StreamsOK(stream')
    BY <1>3, <1>5, StreamFields
  <2>2. reserved' \in 0 .. MaxPushes
    BY <1>1, <1>4
  <2> QED BY <1>1, <1>8, <2>1, <2>2 DEF StreamInv, StreamTypeOK, Pushing
<1>10. RecordsInv'
  BY <1>1, <1>2, <1>3, <1>5, <1>6, <1>8, StreamFields DEF StreamInv, RecordsInv
<1>11. OrderInv'
  <2>1. \A d \in Active : d # c /\ pushes[d].sequence \in 1 .. stream.sequence
    BY <1>1 DEF StreamInv, OrderInv, SequencesUnique, Active
  <2>2. Active' = Active \cup {c}
    BY <1>6, <1>8 DEF Active
  <2>3. \A d \in Active : pushes'[d] = pushes[d]
    BY <1>8, <2>1 DEF Active
  <2>4. ASSUME NEW d \in Active' PROVE pushes'[d].sequence \in 1 .. stream'.sequence
    BY <1>3, <1>5, <1>6, <1>8, <2>1, <2>2, <2>3
  <2>5. ASSUME NEW d \in Active', NEW e \in Active', d # e
        PROVE  pushes'[d].sequence # pushes'[e].sequence
    <3>1. \A a \in Active : pushes[a].sequence # stream.sequence + 1
      BY <1>3, <2>1
    <3> QED BY <1>6, <1>8, <2>2, <2>3, <2>5, <3>1 DEF StreamInv, OrderInv, SequencesUnique
  <2>6. ASSUME NEW i \in DOMAIN stream.entries
        PROVE  /\ stream.entries[i].sequence <= stream'.sequence
               /\ \A d \in Active' : pushes'[d].sequence # stream.entries[i].sequence
               /\ \A j \in DOMAIN stream.entries :
                    i # j => stream.entries[i].sequence # stream.entries[j].sequence
    <3>1. stream.entries[i].sequence <= stream.sequence
      BY DEF StreamInv, OrderInv, SequencesUnique
    <3>2. stream.entries[i].sequence \in Nat
      BY <1>3, EntryKinds
    <3>3. stream.entries[i].sequence # stream.sequence + 1
      BY <1>3, <3>1, <3>2
    <3>4. \A d \in Active : pushes[d].sequence # stream.entries[i].sequence
      BY DEF StreamInv, OrderInv, SequencesUnique
    <3>5. \A d \in Active' : pushes'[d].sequence # stream.entries[i].sequence
      BY <1>6, <1>8, <2>2, <2>3, <3>3, <3>4
    <3>6. stream.entries[i].sequence <= stream'.sequence
      BY <1>3, <1>5, <3>1, <3>2
    <3> QED BY <3>5, <3>6 DEF StreamInv, OrderInv, SequencesUnique
  <2>7. SequencesUnique'
    BY <1>5, <2>4, <2>5, <2>6 DEF SequencesUnique
  <2> QED BY <1>1, <2>7 DEF StreamInv, OrderInv, EntriesApart
<1>12. /\ InProgress \in Nat /\ InProgress' = InProgress + AmountOf[r]
       /\ Unpaid \in Nat /\ Unpaid' = Unpaid + AmountOf[r]
  <2>1. Taken(pushes[c]) = 0 /\ Owed(pushes[c]) = 0 /\ Taken(p) = AmountOf[r] /\ Owed(p) = AmountOf[r]
    BY <1>1, <1>6 DEF Taken, Owed
  <2>2. /\ InProgress \in Nat /\ InProgress' \in Nat
        /\ InProgress' - Taken(p) = InProgress - Taken(pushes[c])
        /\ Unpaid \in Nat /\ Unpaid' \in Nat
        /\ Unpaid' - Owed(p) = Unpaid - Owed(pushes[c])
    BY <1>1, <1>6, PushChanges
  <2> QED BY <1>2, <2>1, <2>2
<1>13. SpentInv'
  <2>1. recorded \in Nat
    BY DEF StreamInv, StreamTypeOK
  <2>2. recorded + InProgress <= stream.spent /\ (restarts = 0 /\ ~ overtaken => recorded + InProgress = stream.spent)
    BY DEF StreamInv, SpentInv, SpentCovers
  <2>3. /\ recorded' + InProgress' <= stream'.spent /\ stream'.spent <= Cap
        /\ restarts' = 0 /\ ~ overtaken' => recorded' + InProgress' = stream'.spent
    <3>1. /\ recorded' = recorded /\ restarts' = restarts /\ overtaken' = overtaken
          /\ stream.spent + AmountOf[r] <= Cap
      BY <1>1
    <3>2. stream.spent \in Nat
      BY <1>3
    <3>3. stream'.spent = stream.spent + AmountOf[r]
      BY <1>5
    <3> QED BY <1>2, <1>12, <2>1, <2>2, <3>1, <3>2, <3>3
  <2> QED BY <1>1, <2>3 DEF StreamInv, SpentInv, SpentCovers
<1>14. PaidInv'
  <2>1. Paid(payments) \in Nat /\ Paid(payments) + Unpaid <= stream.spent
    BY <1>3 DEF StreamInv, PaidInv
  <2>2. Paid(payments) + Unpaid' <= stream'.spent
    BY <1>2, <1>3, <1>5, <1>12, <2>1
  <2>3. \A d \in Pushers : pushes'[d].at = "record" => pushes'[d] = pushes[d]
    BY <1>6, <1>8
  <2>4. \A d \in Pushers : pushes'[d].at = "record" /\ stream'.pays => BillOf(pushes'[d]) \in payments
    BY <1>5, <2>3 DEF StreamInv, PaidInv
  <2>5. EntriesPaid(stream', payments)
    BY <1>5 DEF StreamInv, PaidInv, EntriesPaid
  <2>6. /\ Paid(saved.payments) <= saved.stream.spent /\ EntriesPaid(saved.stream, saved.payments)
    BY DEF StreamInv, PaidInv
  <2> QED BY <1>1, <2>2, <2>4, <2>5, <2>6 DEF PaidInv, EntriesPaid, BillOf, PushKey
<1> QED BY <1>9, <1>10, <1>11, <1>13, <1>14 DEF StreamInv

(* A push goes on to its next place, perhaps with its payment made. *)
LEMMA PlaceInv ==
  ASSUME StreamInv, NEW c \in Pushers, pushes[c].at \in {"verify", "pay"},
         NEW place \in {"pay", "record", "undo"}, PushTo(c, place),
         payments' \in {payments, payments \cup {BillOf(pushes[c])}},
         place # "record" => payments' = payments,
         place = "record" /\ stream.pays => BillOf(pushes[c]) \in payments',
         UNCHANGED <<stream, saved, recorded, overtaken, reserved, restarts>>
  PROVE  StreamInv'
<1> DEFINE p == [pushes[c] EXCEPT !.at = place]
<1>1. pushes \in [Pushers -> Pushing] /\ pushes[c] \in Pushing
  BY PushesTyped
<1>2. /\ p \in Pushing /\ p.at = place /\ p.request = pushes[c].request
      /\ p.sequence = pushes[c].sequence
  BY <1>1 DEF Pushing
<1>3. pushes' = [pushes EXCEPT ![c] = p]
  BY DEF PushTo
<1> HIDE DEF p
<1>4. /\ pushes' \in [Pushers -> Pushing] /\ pushes'[c] = p
      /\ \A d \in Pushers \ {c} : pushes'[d] = pushes[d]
  BY <1>1, <1>2, <1>3
<1>5. pushes[c].request \in Requests /\ BillOf(pushes[c]) \in Bills
  BY KeysOfPushes
<1>6. \A d \in Pushers :
        /\ pushes'[d].request = pushes[d].request /\ pushes'[d].sequence = pushes[d].sequence
        /\ pushes'[d].at # "idle" => pushes[d].at # "idle"
        /\ pushes[d].at # "idle" => pushes'[d].at # "idle"
  BY <1>2, <1>4
<1>7. StreamTypeOK'
  <2>1. payments' \subseteq Bills
    BY <1>5 DEF StreamInv, StreamTypeOK, Bills
  <2> QED BY <1>4, <2>1 DEF StreamInv, StreamTypeOK, Pushing, Bills
<1>8. RecordsInv'
  <2>1. IsFiniteSet(payments')
    BY FS_AddElement DEF StreamInv, RecordsInv
  <2>2. \A d \in Pushers : pushes'[d].at # "idle" => pushes'[d].request \in Requests
    BY <1>6 DEF StreamInv, RecordsInv
  <2> QED BY <2>1, <2>2 DEF StreamInv, RecordsInv
<1>9. OrderInv'
  <2>1. Active' = Active
    BY <1>6 DEF Active
  <2>2. \A d \in Active : pushes'[d].sequence = pushes[d].sequence
    BY <1>6 DEF Active
  <2>3. SequencesUnique'
    BY <2>1, <2>2 DEF StreamInv, OrderInv, SequencesUnique
  <2> QED BY <2>3 DEF StreamInv, OrderInv, EntriesApart
<1>10. AmountOf[pushes[c].request] \in Nat
  BY <1>5, AmountsPositive
<1>11. /\ Taken(pushes[c]) = AmountOf[pushes[c].request] /\ Taken(p) = AmountOf[pushes[c].request]
       /\ Owed(pushes[c]) = AmountOf[pushes[c].request]
       /\ Owed(p) = IF place = "record" THEN 0 ELSE AmountOf[pushes[c].request]
  BY <1>2 DEF Taken, Owed
<1>12. /\ InProgress \in Nat /\ InProgress' \in Nat
       /\ InProgress' - Taken(p) = InProgress - Taken(pushes[c])
       /\ Unpaid \in Nat /\ Unpaid' \in Nat
       /\ Unpaid' - Owed(p) = Unpaid - Owed(pushes[c])
  BY <1>2, <1>3, <1>5, PushChanges
<1>13. InProgress' = InProgress
  <2>1. Taken(p) = Taken(pushes[c]) /\ Taken(p) \in Nat
    BY <1>10, <1>11
  <2>2. /\ InProgress \in Nat /\ InProgress' \in Nat
        /\ InProgress' - Taken(p) = InProgress - Taken(pushes[c])
    BY <1>12
  <2> QED BY <2>1, <2>2
<1>14. SpentInv'
  BY <1>13 DEF StreamInv, SpentInv, SpentCovers
<1>15. PaidInv'
  <2>1. Paid(payments') + Unpaid' <= stream.spent
    <3>1. Paid(payments) + Unpaid <= stream.spent
      BY DEF StreamInv, PaidInv
    <3>2. Paid(payments) \in Nat /\ stream.spent \in Nat
      BY StreamKinds
    <3>3. CASE place = "record"
      <4>1. payments \subseteq Bills /\ IsFiniteSet(payments)
        BY DEF StreamInv, StreamTypeOK, RecordsInv, Bills
      <4>2. BillOf(pushes[c]).amount = AmountOf[pushes[c].request]
        BY DEF BillOf
      <4>3. /\ Paid(payments \cup {BillOf(pushes[c])}) \in Nat
            /\ Paid(payments \cup {BillOf(pushes[c])}) <= Paid(payments) + AmountOf[pushes[c].request]
        BY <1>5, <4>1, <4>2, PaidAdd
      <4>4. Paid(payments') \in Nat /\ Paid(payments') <= Paid(payments) + AmountOf[pushes[c].request]
        <5>1. CASE payments' = payments
          BY <1>10, <3>2, <5>1
        <5>2. CASE payments' = payments \cup {BillOf(pushes[c])}
          BY <4>3, <5>2
        <5> QED BY <5>1, <5>2
      <4>5. Unpaid' = Unpaid - AmountOf[pushes[c].request]
        <5>1. Owed(p) = 0 /\ Owed(pushes[c]) = AmountOf[pushes[c].request]
          BY <1>11, <3>3
        <5>2. /\ Unpaid \in Nat /\ Unpaid' \in Nat
              /\ Unpaid' - Owed(p) = Unpaid - Owed(pushes[c])
          BY <1>12
        <5> QED BY <1>10, <5>1, <5>2
      <4> QED BY <1>10, <1>12, <3>1, <3>2, <4>4, <4>5
    <3>4. CASE place # "record"
      <4>1. Unpaid' = Unpaid /\ payments' = payments
        <5>1. Owed(p) = Owed(pushes[c]) /\ Owed(p) \in Nat
          BY <1>10, <1>11, <3>4
        <5>2. /\ Unpaid \in Nat /\ Unpaid' \in Nat
              /\ Unpaid' - Owed(p) = Unpaid - Owed(pushes[c])
          BY <1>12
        <5> QED BY <3>4, <5>1, <5>2
      <4> QED BY <3>1, <4>1
    <3> QED BY <3>3, <3>4
  <2>2. ASSUME NEW d \in Pushers, pushes'[d].at = "record", stream.pays
        PROVE  [key |-> PushKey(pushes'[d]), amount |-> AmountOf[pushes'[d].request]] \in payments'
    <3>1. PushKey(pushes'[d]) = PushKey(pushes[d]) /\ pushes'[d].request = pushes[d].request
      <4>1. pushes'[d].request = pushes[d].request /\ pushes'[d].sequence = pushes[d].sequence
        BY <1>6
      <4> QED BY <4>1 DEF PushKey
    <3>2. BillOf(pushes[d]) \in payments'
      <4>1. CASE d = c
        BY <1>2, <1>4, <2>2, <4>1
      <4>2. CASE d # c
        <5>1. BillOf(pushes[d]) \in payments
          BY <1>4, <2>2, <4>2 DEF StreamInv, PaidInv
        <5> QED BY <5>1
      <4> QED BY <4>1, <4>2
    <3> QED BY <3>1, <3>2 DEF BillOf
  <2>3. EntriesPaid(stream, payments')
    BY DEF StreamInv, PaidInv, EntriesPaid
  <2>4. /\ Paid(saved.payments) <= saved.stream.spent /\ EntriesPaid(saved.stream, saved.payments)
    BY DEF StreamInv, PaidInv
  <2> QED BY <2>1, <2>2, <2>3, <2>4 DEF PaidInv, EntriesPaid, BillOf
<1> QED BY <1>7, <1>8, <1>9, <1>14, <1>15 DEF StreamInv

LEMMA VerifyPushInv == ASSUME StreamInv, NEW c \in Pushers, VerifyPush(c) PROVE StreamInv'
<1>1. PICK place \in {"pay", "record", "undo"} :
        PushTo(c, place) /\ (place = "record" => ~ stream.pays)
  BY DEF VerifyPush
<1>2. pushes[c].at = "verify" /\ UNCHANGED <<stream, payments, saved, recorded, overtaken, reserved, restarts>>
  BY DEF VerifyPush
<1> QED BY <1>1, <1>2, PlaceInv

LEMMA PayPushInv == ASSUME StreamInv, NEW c \in Pushers, PayPush(c) PROVE StreamInv'
<1>1. pushes[c].at = "pay" /\ UNCHANGED <<stream, saved, recorded, overtaken, reserved, restarts>>
  BY DEF PayPush
<1>2. CASE payments' = payments \cup {BillOf(pushes[c])} /\ PushTo(c, "record")
  BY <1>1, <1>2, PlaceInv
<1>3. CASE PushTo(c, "undo") /\ payments' = payments
  BY <1>1, <1>3, PlaceInv
<1> QED BY <1>2, <1>3 DEF PayPush, BillOf

-----------------------------------------------------------------------------
(* A push ends. *)
LEMMA PushEnds ==
  ASSUME StreamInv, NEW c \in Pushers, pushes[c].at # "idle", EndPush(c)
  PROVE  /\ pushes' \in [Pushers -> Pushing]
         /\ pushes'[c].at = "idle" /\ (\A d \in Pushers \ {c} : pushes'[d] = pushes[d])
         /\ Active' = Active \ {c}
         /\ \A d \in Pushers : pushes'[d].at # "idle" => d # c /\ pushes'[d].request \in Requests
         /\ AmountOf[pushes[c].request] \in Nat
         /\ InProgress \in Nat /\ InProgress' = InProgress - AmountOf[pushes[c].request]
         /\ InProgress' \in Nat
         /\ Unpaid \in Nat /\ Unpaid' = Unpaid - Owed(pushes[c]) /\ Unpaid' \in Nat
<1>1. pushes \in [Pushers -> Pushing]
  BY PushesTyped
<1>2. NoPush \in Pushing /\ NoPush.at = "idle"
  BY RequestsAssumption DEF NoPush, Pushing
<1>3. pushes' = [pushes EXCEPT ![c] = NoPush]
  BY DEF EndPush
<1>4. /\ pushes' \in [Pushers -> Pushing] /\ pushes'[c] = NoPush
      /\ \A d \in Pushers \ {c} : pushes'[d] = pushes[d]
  BY <1>1, <1>2, <1>3
<1>5. AmountOf[pushes[c].request] \in Nat
  BY KeysOfPushes, AmountsPositive
<1>6. /\ Taken(pushes[c]) = AmountOf[pushes[c].request] /\ Taken(NoPush) = 0 /\ Owed(NoPush) = 0
  BY <1>2 DEF Taken, Owed
<1>7. /\ InProgress \in Nat /\ InProgress' \in Nat
      /\ InProgress' - Taken(NoPush) = InProgress - Taken(pushes[c])
      /\ Unpaid \in Nat /\ Unpaid' \in Nat /\ Owed(pushes[c]) \in Nat
      /\ Unpaid' - Owed(NoPush) = Unpaid - Owed(pushes[c])
  BY <1>2, <1>3, PushChanges
<1>8. InProgress' = InProgress - AmountOf[pushes[c].request] /\ Unpaid' = Unpaid - Owed(pushes[c])
  BY <1>5, <1>6, <1>7
<1>9. Active' = Active \ {c}
  BY <1>2, <1>4 DEF Active
<1>10. \A d \in Pushers : pushes'[d].at # "idle" => d # c /\ pushes'[d].request \in Requests
  BY <1>2, <1>4 DEF StreamInv, RecordsInv
<1> QED BY <1>2, <1>4, <1>5, <1>7, <1>8, <1>9, <1>10

LEMMA UndoPushInv == ASSUME StreamInv, NEW c \in Pushers, UndoPush(c) PROVE StreamInv'
<1> DEFINE a == AmountOf[pushes[c].request]
<1> DEFINE latest == stream.sequence = pushes[c].sequence
<1>1. /\ pushes[c].at = "undo" /\ EndPush(c) /\ overtaken' = (overtaken \/ ~ latest)
      /\ UNCHANGED <<payments, saved, recorded, reserved, restarts>>
  BY DEF UndoPush
<1>2. /\ pushes' \in [Pushers -> Pushing] /\ (\A d \in Pushers \ {c} : pushes'[d] = pushes[d])
      /\ Active' = Active \ {c} /\ pushes'[c].at = "idle"
      /\ \A d \in Pushers : pushes'[d].at # "idle" => d # c /\ pushes'[d].request \in Requests
      /\ a \in Nat /\ InProgress \in Nat /\ InProgress' = InProgress - a /\ InProgress' \in Nat
      /\ Unpaid \in Nat /\ Unpaid' = Unpaid - Owed(pushes[c]) /\ Unpaid' \in Nat
  BY <1>1, PushEnds
<1>3. Owed(pushes[c]) = a
  BY <1>1 DEF Owed
<1>4. /\ Cap \in Nat /\ MaxPushes \in Nat /\ stream \in StreamRecords /\ stream.spent \in Nat
      /\ stream.spent <= Cap
      /\ stream.sequence \in Nat /\ stream.sequence <= reserved /\ reserved \in Nat
      /\ reserved <= MaxPushes
      /\ stream.entries \in Seq(Entries) /\ Len(stream.entries) <= KeptEntries
      /\ recorded \in Nat /\ Paid(payments) \in Nat
  BY StreamKinds
<1>5. pushes[c].sequence \in 1 .. stream.sequence
  BY <1>1, KeysOfPushes
<1>6. recorded + InProgress <= stream.spent /\ (restarts = 0 /\ ~ overtaken => recorded + InProgress = stream.spent)
  BY DEF StreamInv, SpentInv, SpentCovers
<1>7. /\ stream' \in StreamRecords /\ stream'.entries = stream.entries /\ stream'.pays = stream.pays
      /\ stream'.sequence = (IF latest THEN stream.sequence - 1 ELSE stream.sequence)
      /\ stream'.spent = (IF latest THEN stream.spent - a ELSE stream.spent)
  <2>1. CASE latest
    <3>1. stream' = [stream EXCEPT !.sequence = @ - 1, !.spent = @ - a]
      BY <2>1 DEF UndoPush
    <3>2. stream.spent - a \in 0 .. Cap
      <4>1. /\ a \in Nat /\ InProgress \in Nat /\ InProgress - a \in Nat
            /\ recorded \in Nat /\ stream.spent \in Nat /\ Cap \in Nat
        BY <1>2, <1>4
      <4>2. recorded + InProgress <= stream.spent /\ stream.spent <= Cap
        BY <1>4, <1>6
      <4> HIDE DEF a
      <4> QED BY <4>1, <4>2
    <3>3. stream.sequence - 1 \in 0 .. MaxPushes
      BY <1>4, <1>5
    <3> HIDE DEF a
    <3>4. /\ [stream EXCEPT !.sequence = @ - 1, !.spent = @ - a] \in StreamRecords
          /\ [stream EXCEPT !.sequence = @ - 1, !.spent = @ - a].entries = stream.entries
          /\ [stream EXCEPT !.sequence = @ - 1, !.spent = @ - a].pays = stream.pays
          /\ [stream EXCEPT !.sequence = @ - 1, !.spent = @ - a].sequence = stream.sequence - 1
          /\ [stream EXCEPT !.sequence = @ - 1, !.spent = @ - a].spent = stream.spent - a
      BY <1>4, <3>2, <3>3 DEF StreamRecords
    <3> QED BY <2>1, <3>1, <3>4
  <2>2. CASE ~ latest
    <3>1. stream' = stream
      BY <2>2 DEF UndoPush
    <3> QED BY <1>4, <2>2, <3>1
  <2> QED BY <2>1, <2>2
<1> HIDE DEF a, latest
<1>8. stream'.sequence <= stream.sequence /\ stream'.sequence \in Nat
  BY <1>4, <1>5, <1>7 DEF latest
<1>9. StreamTypeOK'
  <2>1. StreamsOK(stream')
    BY <1>4, <1>7, StreamFields
  <2>2. overtaken' \in BOOLEAN
    BY <1>1 DEF StreamInv, StreamTypeOK
  <2> QED BY <1>1, <1>2, <2>1, <2>2 DEF StreamInv, StreamTypeOK, Pushing
<1>10. RecordsInv'
  <2>1. stream'.sequence <= reserved
    BY <1>4, <1>8
  <2> QED BY <1>1, <1>2, <1>7, <2>1 DEF StreamInv, RecordsInv
<1>11. OrderInv'
  <2>1. ASSUME NEW d \in Active'
        PROVE  /\ d \in Active /\ d # c /\ pushes'[d] = pushes[d]
               /\ pushes[d].sequence \in 1 .. stream'.sequence
    <3>1. d \in Active /\ d # c /\ c \in Active /\ pushes'[d] = pushes[d]
      BY <1>1, <1>2, <2>1 DEF Active
    <3>2. pushes[d].sequence \in 1 .. stream.sequence /\ pushes[d].sequence # pushes[c].sequence
      BY <3>1 DEF StreamInv, OrderInv, SequencesUnique
    <3>3. pushes[d].sequence \in 1 .. stream'.sequence
      BY <1>4, <1>5, <1>7, <3>2 DEF latest
    <3> QED BY <3>1, <3>3
  <2>2. ASSUME NEW i \in DOMAIN stream.entries
        PROVE  stream.entries[i].sequence <= stream'.sequence
    <3>1. c \in Active
      BY <1>1 DEF Active
    <3>2. stream.entries[i].sequence <= stream.sequence /\ pushes[c].sequence # stream.entries[i].sequence
      BY <3>1 DEF StreamInv, OrderInv, SequencesUnique
    <3>3. stream.entries[i].sequence \in Nat
      BY <1>4, EntryKinds
    <3> QED BY <1>4, <1>5, <1>7, <3>2, <3>3 DEF latest
  <2>3. SequencesUnique'
    BY <1>7, <2>1, <2>2 DEF StreamInv, OrderInv, SequencesUnique
  <2> QED BY <1>1, <2>3 DEF StreamInv, OrderInv, EntriesApart
<1>12. SpentInv'
  <2>1. stream'.spent <= Cap
    BY <1>2, <1>4, <1>7
  <2>2. recorded + InProgress' <= stream'.spent
    <3>1. /\ a \in Nat /\ InProgress \in Nat /\ InProgress' = InProgress - a
          /\ recorded \in Nat /\ stream.spent \in Nat
      BY <1>2, <1>4
    <3>2. stream'.spent \in {stream.spent, stream.spent - a}
      BY <1>7
    <3> QED BY <1>6, <3>1, <3>2
  <2>3. ASSUME restarts = 0, ~ overtaken' PROVE recorded + InProgress' = stream'.spent
    <3>1. /\ a \in Nat /\ InProgress \in Nat /\ InProgress' = InProgress - a
          /\ recorded \in Nat /\ stream.spent \in Nat
      BY <1>2, <1>4
    <3>2. latest /\ ~ overtaken
      BY <1>1, <2>3
    <3>3. stream'.spent = stream.spent - a /\ recorded + InProgress = stream.spent
      BY <1>6, <1>7, <2>3, <3>2
    <3> QED BY <3>1, <3>3
  <2> QED BY <1>1, <2>1, <2>2, <2>3 DEF StreamInv, SpentInv, SpentCovers
<1>13. PaidInv'
  <2>1. Paid(payments) + Unpaid' <= stream'.spent
    <3>1. Paid(payments) + Unpaid <= stream.spent
      BY DEF StreamInv, PaidInv
    <3> QED BY <1>2, <1>3, <1>4, <1>7, <3>1
  <2>2. ASSUME NEW d \in Pushers, pushes'[d].at = "record", stream.pays
        PROVE  BillOf(pushes'[d]) \in payments
    <3>1. pushes'[d] = pushes[d]
      BY <1>2, <2>2
    <3> QED BY <2>2, <3>1 DEF StreamInv, PaidInv
  <2>3. EntriesPaid(stream', payments)
    BY <1>7 DEF StreamInv, PaidInv, EntriesPaid
  <2>4. /\ Paid(saved.payments) <= saved.stream.spent /\ EntriesPaid(saved.stream, saved.payments)
    BY DEF StreamInv, PaidInv
  <2> QED BY <1>1, <1>7, <2>1, <2>2, <2>3, <2>4 DEF PaidInv, EntriesPaid, BillOf, PushKey
<1> QED BY <1>9, <1>10, <1>11, <1>12, <1>13 DEF StreamInv

(* The entries that are kept are the last ones. *)
LEMMA LastEntriesAre ==
  ASSUME NEW s \in Seq(Entries), NEW e \in Entries,
         KeptEntries \in Nat, KeptEntries > 0
  PROVE  LET newest == LastEntries(Append(s, e))
         IN /\ newest \in Seq(Entries) /\ Len(newest) <= KeptEntries
            /\ \E n \in Nat : \A i \in DOMAIN newest :
                 i + n \in 1 .. Len(s) + 1 /\ newest[i] = (IF i + n \in 1 .. Len(s) THEN s[i + n] ELSE e)
<1> DEFINE t == Append(s, e)
<1> DEFINE m == IF Len(t) > KeptEntries THEN Len(t) - KeptEntries + 1 ELSE 1
<1> DEFINE newest == SubSeq(t, m, Len(t))
<1>1. /\ t \in Seq(Entries) /\ Len(t) = Len(s) + 1 /\ Len(s) \in Nat
      /\ \A i \in 1 .. Len(s) + 1 : t[i] = IF i \in 1 .. Len(s) THEN s[i] ELSE e
  OBVIOUS
<1>2. m \in Nat /\ m >= 1 /\ m <= Len(t) /\ Len(t) - m + 1 <= KeptEntries
  BY <1>1
<1>3. LastEntries(Append(s, e)) = newest
  BY DEF LastEntries
<1>4. \A i \in m .. Len(t) : t[i] \in Entries
  BY <1>1, <1>2
<1> HIDE DEF t, m
<1>5. /\ newest \in Seq(Entries) /\ Len(newest) = Len(t) - m + 1
      /\ \A i \in 1 .. Len(t) - m + 1 : newest[i] = t[m + i - 1]
  <2>1. m \in Int /\ Len(t) \in Int
    BY <1>1, <1>2
  <2>2. /\ newest \in Seq(Entries) /\ Len(newest) = IF m <= Len(t) THEN Len(t) - m + 1 ELSE 0
        /\ \A i \in 1 .. Len(t) - m + 1 : newest[i] = t[m + i - 1]
    BY <1>4, <2>1, SubSeqProperties
  <2> QED BY <1>2, <2>2
<1> HIDE DEF newest
<1>6. m - 1 \in Nat
  BY <1>2
<1>7. ASSUME NEW i \in DOMAIN newest
      PROVE  /\ i + (m - 1) \in 1 .. Len(s) + 1
             /\ newest[i] = IF i + (m - 1) \in 1 .. Len(s) THEN s[i + (m - 1)] ELSE e
  <2>1. i \in 1 .. Len(t) - m + 1
    BY <1>5
  <2>2. i + (m - 1) \in 1 .. Len(s) + 1 /\ m + i - 1 = i + (m - 1)
    BY <1>1, <1>2, <2>1
  <2>3. newest[i] = t[i + (m - 1)]
    BY <1>5, <2>1, <2>2
  <2> QED BY <1>1, <2>2, <2>3
<1> QED BY <1>2, <1>3, <1>5, <1>6, <1>7

LEMMA RecordPushInv == ASSUME StreamInv, NEW c \in Pushers, RecordPush(c) PROVE StreamInv'
<1> DEFINE a == AmountOf[pushes[c].request]
<1> DEFINE entry == [sequence |-> pushes[c].sequence, amount |-> a,
                     key |-> IF stream.pays THEN PushKey(pushes[c]) ELSE NoKeyGiven]
<1> DEFINE newest == LastEntries(Append(stream.entries, entry))
<1>1. /\ pushes[c].at = "record" /\ EndPush(c) /\ recorded' = recorded + a
      /\ stream' = [stream EXCEPT !.entries = newest]
      /\ UNCHANGED <<payments, saved, overtaken, reserved, restarts>>
  BY DEF RecordPush
<1>2. /\ pushes' \in [Pushers -> Pushing] /\ (\A d \in Pushers \ {c} : pushes'[d] = pushes[d])
      /\ Active' = Active \ {c} /\ pushes'[c].at = "idle"
      /\ \A d \in Pushers : pushes'[d].at # "idle" => d # c /\ pushes'[d].request \in Requests
      /\ a \in Nat /\ InProgress \in Nat /\ InProgress' = InProgress - a /\ InProgress' \in Nat
      /\ Unpaid \in Nat /\ Unpaid' = Unpaid - Owed(pushes[c]) /\ Unpaid' \in Nat
  BY <1>1, PushEnds
<1>3. /\ pushes[c].request \in Requests /\ pushes[c].sequence \in 1 .. stream.sequence
      /\ pushes[c].sequence \in 1 .. MaxPushes /\ PushKey(pushes[c]) \in UserKeys
  BY <1>1, KeysOfPushes
<1>4. /\ stream \in StreamRecords /\ stream.sequence \in Nat /\ KeptEntries \in Nat /\ KeptEntries > 0
      /\ stream.entries \in Seq(Entries) /\ stream.pays \in BOOLEAN
      /\ recorded \in Nat /\ Paid(payments) \in Nat /\ stream.spent \in Nat
  BY StreamKinds
<1>5. entry \in Entries
  BY <1>3 DEF Entries
<1>6. /\ newest \in Seq(Entries) /\ Len(newest) <= KeptEntries
      /\ \E n \in Nat : \A i \in DOMAIN newest :
           /\ i + n \in 1 .. Len(stream.entries) + 1
           /\ newest[i] = (IF i + n \in 1 .. Len(stream.entries) THEN stream.entries[i + n] ELSE entry)
  <2> HIDE DEF entry
  <2> QED BY <1>4, <1>5, LastEntriesAre
<1>7. PICK n \in Nat : \A i \in DOMAIN newest :
        /\ i + n \in 1 .. Len(stream.entries) + 1
        /\ newest[i] = (IF i + n \in 1 .. Len(stream.entries) THEN stream.entries[i + n] ELSE entry)
  BY <1>6
<1>8. /\ entry.sequence = pushes[c].sequence
      /\ [key |-> entry.key, amount |-> entry.amount]
           = [key |-> IF stream.pays THEN PushKey(pushes[c]) ELSE NoKeyGiven, amount |-> a]
      /\ ~ stream.pays => entry.key = NoKeyGiven
  OBVIOUS
<1> HIDE DEF entry, newest
<1>9. /\ stream' \in StreamRecords /\ stream'.entries = newest /\ stream'.pays = stream.pays
      /\ stream'.sequence = stream.sequence /\ stream'.spent = stream.spent
  BY <1>1, <1>4, <1>6 DEF StreamRecords
<1> HIDE DEF a
<1>10. c \in Active
  BY <1>1 DEF Active
<1>11. Len(stream.entries) \in Nat /\ DOMAIN stream.entries = 1 .. Len(stream.entries)
       /\ DOMAIN newest = 1 .. Len(newest) /\ Len(newest) \in Nat
  BY <1>4, <1>6
<1>12. StreamTypeOK'
  <2>1. StreamsOK(stream')
    BY <1>6, <1>9, StreamFields
  <2>2. recorded' \in Nat
    BY <1>1, <1>2, <1>4
  <2> QED BY <1>1, <1>2, <2>1, <2>2 DEF StreamInv, StreamTypeOK, Pushing
<1>13. RecordsInv'
  BY <1>1, <1>2, <1>9 DEF StreamInv, RecordsInv
<1>14. OrderInv'
  <2>1. ASSUME NEW d \in Active' PROVE d \in Active /\ d # c /\ pushes'[d] = pushes[d]
    BY <1>1, <1>2, <2>1 DEF Active
  <2>2. ASSUME NEW i \in DOMAIN newest
        PROVE  /\ newest[i].sequence <= stream.sequence
               /\ \A d \in Active' : pushes'[d].sequence # newest[i].sequence
    <3>1. CASE i + n \in DOMAIN stream.entries
      <4>1. newest[i] = stream.entries[i + n]
        BY <1>7, <1>11, <3>1
      <4>2. stream.entries[i + n].sequence <= stream.sequence
        BY <3>1 DEF StreamInv, OrderInv, SequencesUnique
      <4>3. \A d \in Active : pushes[d].sequence # stream.entries[i + n].sequence
        BY <3>1 DEF StreamInv, OrderInv, SequencesUnique
      <4> QED BY <2>1, <4>1, <4>2, <4>3
    <3>2. CASE i + n \notin DOMAIN stream.entries
      <4>1. newest[i].sequence = pushes[c].sequence
        BY <1>7, <1>8, <1>11, <3>2
      <4>2. \A d \in Active : d # c => pushes[d].sequence # pushes[c].sequence
        BY <1>10 DEF StreamInv, OrderInv, SequencesUnique
      <4>3. pushes[c].sequence <= stream.sequence
        BY <1>3, <1>4
      <4> QED BY <2>1, <4>1, <4>2, <4>3
    <3> QED BY <3>1, <3>2
  <2>3. ASSUME NEW i \in DOMAIN newest, NEW j \in DOMAIN newest, i # j
        PROVE  newest[i].sequence # newest[j].sequence
    <3>1. /\ i + n \in 1 .. Len(stream.entries) + 1 /\ j + n \in 1 .. Len(stream.entries) + 1
          /\ i + n # j + n
      BY <1>7, <1>11, <2>3
    <3>2. \A k \in DOMAIN stream.entries : stream.entries[k].sequence # pushes[c].sequence
      BY <1>10 DEF StreamInv, OrderInv, SequencesUnique
    <3>3. CASE i + n \in DOMAIN stream.entries /\ j + n \in DOMAIN stream.entries
      <4>1. newest[i] = stream.entries[i + n] /\ newest[j] = stream.entries[j + n]
        BY <1>7, <1>11, <3>3
      <4> QED BY <3>1, <3>3, <4>1 DEF StreamInv, OrderInv, SequencesUnique
    <3>4. CASE i + n \in DOMAIN stream.entries /\ j + n \notin DOMAIN stream.entries
      <4>1. newest[i] = stream.entries[i + n] /\ newest[j] = entry
        BY <1>7, <1>11, <3>4
      <4> QED BY <1>8, <3>2, <3>4, <4>1
    <3>5. CASE i + n \notin DOMAIN stream.entries /\ j + n \in DOMAIN stream.entries
      <4>1. newest[i] = entry /\ newest[j] = stream.entries[j + n]
        BY <1>7, <1>11, <3>5
      <4> QED BY <1>8, <3>2, <3>5, <4>1
    <3>6. i + n \in DOMAIN stream.entries \/ j + n \in DOMAIN stream.entries
      BY <1>11, <3>1
    <3> QED BY <3>3, <3>4, <3>5, <3>6
  <2>4. SequencesUnique'
    BY <1>9, <2>1, <2>2, <2>3 DEF StreamInv, OrderInv, SequencesUnique
  <2> QED BY <1>1, <2>4 DEF StreamInv, OrderInv, EntriesApart
<1>15. SpentInv'
  <2>1. recorded' + InProgress' = recorded + InProgress
    <3>1. recorded' = recorded + a
      BY <1>1 DEF a
    <3> QED BY <1>2, <1>4, <3>1
  <2> QED BY <1>1, <1>9, <2>1 DEF StreamInv, SpentInv, SpentCovers
<1>16. PaidInv'
  <2>1. Paid(payments) + Unpaid' <= stream.spent
    <3>1. Owed(pushes[c]) = 0
      BY <1>1 DEF Owed
    <3>2. Unpaid' = Unpaid
      BY <1>2, <3>1
    <3> QED BY <3>2 DEF StreamInv, PaidInv
  <2>2. ASSUME NEW d \in Pushers, pushes'[d].at = "record", stream.pays
        PROVE  BillOf(pushes'[d]) \in payments
    <3>1. pushes'[d] = pushes[d]
      BY <1>2, <2>2
    <3> QED BY <2>2, <3>1 DEF StreamInv, PaidInv
  <2>3. ASSUME NEW i \in DOMAIN newest, newest[i].key # NoKeyGiven
        PROVE  [key |-> newest[i].key, amount |-> newest[i].amount] \in payments
    <3>1. CASE i + n \in DOMAIN stream.entries
      <4>1. newest[i] = stream.entries[i + n]
        BY <1>7, <1>11, <3>1
      <4> QED BY <2>3, <3>1, <4>1 DEF StreamInv, PaidInv, EntriesPaid
    <3>2. CASE i + n \notin DOMAIN stream.entries
      <4>1. newest[i] = entry
        BY <1>7, <1>11, <3>2
      <4>2. stream.pays
        BY <1>8, <2>3, <4>1
      <4>3. [key |-> newest[i].key, amount |-> newest[i].amount] = BillOf(pushes[c])
        BY <1>8, <4>1, <4>2 DEF BillOf, a
      <4> QED BY <1>1, <4>2, <4>3 DEF StreamInv, PaidInv
    <3> QED BY <3>1, <3>2
  <2>4. /\ Paid(saved.payments) <= saved.stream.spent /\ EntriesPaid(saved.stream, saved.payments)
    BY DEF StreamInv, PaidInv
  <2> QED BY <1>1, <1>9, <2>1, <2>2, <2>3, <2>4 DEF PaidInv, EntriesPaid, BillOf, PushKey
<1> QED BY <1>12, <1>13, <1>14, <1>15, <1>16 DEF StreamInv

-----------------------------------------------------------------------------
LEMMA CloseStreamInv == ASSUME StreamInv, CloseStream PROVE StreamInv'
<1>1. /\ stream' = [stream EXCEPT !.open = FALSE]
      /\ UNCHANGED <<payments, pushes, saved, recorded, overtaken, reserved, restarts>>
  BY DEF CloseStream
<1>2. stream \in StreamRecords /\ Len(stream.entries) <= KeptEntries
  BY StreamKinds
<1>3. /\ stream' \in StreamRecords /\ stream'.entries = stream.entries /\ stream'.pays = stream.pays
      /\ stream'.sequence = stream.sequence /\ stream'.spent = stream.spent
  BY <1>1, <1>2 DEF StreamRecords
<1>4. StreamsOK(stream')
  BY <1>2, <1>3, StreamFields
<1>5. StreamTypeOK' /\ RecordsInv'
  BY <1>1, <1>3, <1>4 DEF StreamInv, StreamTypeOK, RecordsInv
<1>6. OrderInv'
  BY <1>1, <1>3 DEF StreamInv, OrderInv, SequencesUnique, Active, EntriesApart
<1>7. InProgress' = InProgress /\ Unpaid' = Unpaid
  BY <1>1 DEF InProgress, Unpaid
<1>8. SpentInv'
  BY <1>1, <1>3, <1>7 DEF StreamInv, SpentInv, SpentCovers
<1>9. PaidInv'
  BY <1>1, <1>3, <1>7 DEF StreamInv, PaidInv, EntriesPaid, BillOf, PushKey
<1> QED BY <1>5, <1>6, <1>8, <1>9 DEF StreamInv

LEMMA SaveStreamInv == ASSUME StreamInv, SaveStream PROVE StreamInv'
<1>1. /\ saved'.stream = stream /\ saved'.payments = payments /\ saved'.recorded = recorded
      /\ UNCHANGED <<stream, payments, pushes, recorded, overtaken, reserved, restarts>>
  BY DEF SaveStream
<1>2. StreamTypeOK' /\ RecordsInv'
  BY <1>1 DEF StreamInv, StreamTypeOK, RecordsInv
<1>3. OrderInv'
  BY <1>1 DEF StreamInv, OrderInv, SequencesUnique, Active, EntriesApart
<1>4. InProgress' = InProgress /\ Unpaid' = Unpaid
  BY <1>1 DEF InProgress, Unpaid
<1>5. InProgress \in Nat /\ Unpaid \in Nat
  <2> DEFINE taken == [d \in Pushers |-> Taken(pushes[d])]
  <2> DEFINE owed == [d \in Pushers |-> Owed(pushes[d])]
  <2>1. (\A d \in Pushers : taken[d] \in Nat) /\ (\A d \in Pushers : owed[d] \in Nat)
    BY KeysOfPushes, AmountsPositive DEF Taken, Owed
  <2>2. InProgress = SumOf(taken, Pushers) /\ Unpaid = SumOf(owed, Pushers)
    BY DEF InProgress, Unpaid
  <2> HIDE DEF taken, owed
  <2> QED BY <2>1, <2>2, SumType, RequestsAssumption
<1>6. recorded \in Nat /\ stream.spent \in Nat /\ Paid(payments) \in Nat
  BY StreamKinds
<1>7. SpentInv'
  <2>1. recorded <= stream.spent
    BY <1>5, <1>6 DEF StreamInv, SpentInv, SpentCovers
  <2> QED BY <1>1, <1>4, <2>1 DEF StreamInv, SpentInv, SpentCovers
<1>8. PaidInv'
  <2>1. Paid(payments) + Unpaid <= stream.spent
    BY DEF StreamInv, PaidInv
  <2>2. Paid(payments) <= stream.spent
    BY <1>5, <1>6, <2>1
  <2> QED BY <1>1, <1>4, <2>2 DEF StreamInv, PaidInv, EntriesPaid, BillOf, PushKey
<1> QED BY <1>2, <1>3, <1>7, <1>8 DEF StreamInv

LEMMA RestartStreamInv == ASSUME StreamInv, RestartStream PROVE StreamInv'
<1>1. /\ restarts < MaxRestarts /\ restarts' = restarts + 1
      /\ stream' = saved.stream /\ payments' = saved.payments /\ recorded' = saved.recorded
      /\ pushes' = [c \in Pushers |-> NoPush]
      /\ UNCHANGED <<saved, overtaken, reserved>>
  BY DEF RestartStream
<1>2. NoPush \in Pushing /\ NoPush.at = "idle"
  BY RequestsAssumption DEF NoPush, Pushing
<1>3. /\ pushes' \in [Pushers -> Pushing] /\ \A c \in Pushers : pushes'[c] = NoPush
  BY <1>1, <1>2
<1>4. /\ saved.stream \in StreamRecords /\ saved.recorded \in Nat /\ saved.stream.spent \in 0 .. Cap
  BY StreamFields DEF StreamInv, RecordsInv
<1>5. StreamTypeOK'
  <2>1. restarts' \in 0 .. MaxRestarts /\ restarts' # 0
    BY <1>1, RequestsAssumption DEF StreamInv, StreamTypeOK
  <2> QED BY <1>1, <1>3, <1>4, <2>1 DEF StreamInv, StreamTypeOK, Pushing
<1>6. RecordsInv'
  BY <1>1, <1>2, <1>3 DEF StreamInv, RecordsInv
<1>7. OrderInv'
  <2>1. Active' = {}
    BY <1>2, <1>3 DEF Active
  <2> QED BY <1>1, <2>1 DEF StreamInv, OrderInv, SequencesUnique, EntriesApart
<1>8. InProgress' = 0 /\ Unpaid' = 0
  <2> DEFINE taken == [d \in Pushers |-> Taken(pushes'[d])]
  <2> DEFINE owed == [d \in Pushers |-> Owed(pushes'[d])]
  <2>1. (\A d \in Pushers : taken[d] = 0) /\ (\A d \in Pushers : owed[d] = 0)
    BY <1>2, <1>3 DEF Taken, Owed
  <2>2. InProgress' = SumOf(taken, Pushers)
    BY DEF InProgress
  <2>3. Unpaid' = SumOf(owed, Pushers)
    BY DEF Unpaid
  <2> HIDE DEF taken, owed
  <2>4. SumOf(taken, Pushers) = 0 /\ SumOf(owed, Pushers) = 0
    BY <2>1, SumOfZeros, RequestsAssumption
  <2> QED BY <2>2, <2>3, <2>4
<1>9. SpentInv'
  <2>1. restarts' # 0
    BY <1>1, RequestsAssumption DEF StreamInv, StreamTypeOK
  <2>2. saved.recorded <= saved.stream.spent /\ saved.stream.spent <= Cap
    BY <1>4, RequestsAssumption DEF StreamInv, SpentInv
  <2>3. recorded' + InProgress' <= stream'.spent
    BY <1>1, <1>4, <1>8, <2>2
  <2> QED BY <1>1, <2>1, <2>2, <2>3 DEF SpentInv, SpentCovers
<1>10. PaidInv'
  <2>1. Paid(saved.payments) \in Nat
    BY StreamKinds
  <2>2. Paid(payments') + Unpaid' <= stream'.spent
    BY <1>1, <1>8, <2>1 DEF StreamInv, PaidInv
  <2>3. \A c \in Pushers : pushes'[c].at # "record"
    BY <1>2, <1>3
  <2> QED BY <1>1, <2>2, <2>3 DEF StreamInv, PaidInv, EntriesPaid
<1> QED BY <1>5, <1>6, <1>7, <1>9, <1>10 DEF StreamInv

LEMMA StreamStepInv == StreamInv /\ [StreamStep]_streamVars => StreamInv'
<1> SUFFICES ASSUME StreamInv, [StreamStep]_streamVars PROVE StreamInv'
  OBVIOUS
<1>1. CASE UNCHANGED streamVars
  <2>1. UNCHANGED <<stream, payments, pushes, saved, recorded, overtaken, reserved, restarts>>
    BY <1>1 DEF streamVars
  <2>2. StreamTypeOK'
    BY <2>1 DEF StreamInv, StreamTypeOK
  <2>3. RecordsInv'
    BY <2>1 DEF StreamInv, RecordsInv
  <2>4. OrderInv'
    BY <2>1 DEF StreamInv, OrderInv, SequencesUnique, Active, EntriesApart
  <2>5. InProgress' = InProgress /\ Unpaid' = Unpaid
    BY <2>1 DEF InProgress, Unpaid
  <2>6. SpentInv'
    BY <2>1, <2>5 DEF StreamInv, SpentInv, SpentCovers
  <2>7. PaidInv'
    BY <2>1, <2>5 DEF StreamInv, PaidInv, EntriesPaid, BillOf, PushKey
  <2> QED BY <2>2, <2>3, <2>4, <2>6, <2>7 DEF StreamInv
<1>2. CASE StreamStep
  BY <1>2, ReservePushInv, VerifyPushInv, PayPushInv, UndoPushInv, RecordPushInv, CloseStreamInv,
     SaveStreamInv, RestartStreamInv DEF StreamStep
<1> QED BY <1>1, <1>2

(***************************************************************************)
(* A stream accounts for its pushes: sequences are taken once, all that is *)
(* recorded or in progress is spent, the payments are within the cap, and  *)
(* every entry with a key has its payment (push_micro).                    *)
(***************************************************************************)
THEOREM StreamsAreCovered == StreamSpec => []StreamCovered
<1>1. StreamInv => StreamCovered
  <2> SUFFICES ASSUME StreamInv PROVE StreamCovered
    OBVIOUS
  <2>1. Unpaid \in Nat
    <3> DEFINE owed == [d \in Pushers |-> Owed(pushes[d])]
    <3>1. \A d \in Pushers : owed[d] \in Nat
      BY KeysOfPushes, AmountsPositive DEF Owed
    <3>2. Unpaid = SumOf(owed, Pushers)
      BY DEF Unpaid
    <3> HIDE DEF owed
    <3> QED BY <3>1, <3>2, SumType, RequestsAssumption
  <2>2. Paid(payments) \in Nat /\ stream.spent \in Nat /\ Paid(payments) + Unpaid <= stream.spent
    BY StreamKinds DEF StreamInv, PaidInv
  <2>3. Paid(payments) <= stream.spent
    BY <2>1, <2>2
  <2>4. PaymentsWithinCap
    BY <2>3 DEF StreamInv, PaidInv, PaymentsWithinCap, EntriesPaid
  <2> QED BY <2>4 DEF StreamCovered, StreamInv, OrderInv, SpentInv
<1> QED BY <1>1, StreamInitInv, StreamStepInv, PTL DEF StreamSpec

-----------------------------------------------------------------------------
(* Amounts.                                                                *)

(* f is, up to n, the function with which Power is defined. *)
PowersTo(f, n) == f = [k \in 0 .. n |-> IF k = 0 THEN 1 ELSE 10 * f[k - 1]]

LEMMA PowersExist == ASSUME NEW N \in Nat PROVE \E f : PowersTo(f, N)
<1> DEFINE Missing == {n \in Nat : ~ \E f : PowersTo(f, n)}
<1>1. Missing = {}
  <2> SUFFICES ASSUME Missing # {} PROVE FALSE
    OBVIOUS
  <2>1. PICK m \in Missing : \A y \in Missing : m <= y
    BY LeastOf
  <2>2. CASE m = 0
    <3>1. PowersTo([k \in 0 .. 0 |-> 1], 0)
      BY DEF PowersTo
    <3> QED BY <2>1, <2>2, <3>1
  <2>3. CASE m # 0
    <3>1. m \in Nat /\ m - 1 \in Nat /\ ~ (m <= m - 1)
      BY <2>3
    <3>2. PICK f : PowersTo(f, m - 1)
      BY <2>1, <3>1
    <3> DEFINE g == [k \in 0 .. m |-> IF k = 0 THEN 1 ELSE 10 * f[k - 1]]
    <3>3. \A k \in 0 .. m - 1 : f[k] = g[k]
      BY <3>1, <3>2 DEF PowersTo
    <3>4. \A k \in 0 .. m : k # 0 => k - 1 \in 0 .. m - 1
      BY <3>1
    <3>5. g = [k \in 0 .. m |-> IF k = 0 THEN 1 ELSE 10 * g[k - 1]]
      BY <3>3, <3>4
    <3>6. PowersTo(g, m)
      BY <3>5 DEF PowersTo
    <3> QED BY <2>1, <3>6
  <2> QED BY <2>2, <2>3
<1> QED BY <1>1

LEMMA PowerIs ==
  /\ Power[0] = 1
  /\ \A k \in 0 .. MaxUnit : Power[k + 1] = 10 * Power[k]
<1>1. MaxUnit \in Nat /\ MaxUnit + 1 \in Nat
  BY AmountsAssumption
<1>2. \E f : PowersTo(f, MaxUnit + 1)
  BY <1>1, PowersExist
<1>3. PowersTo(Power, MaxUnit + 1)
  BY <1>2 DEF PowersTo, Power
<1>4. \A k \in 0 .. MaxUnit + 1 : Power[k] = IF k = 0 THEN 1 ELSE 10 * Power[k - 1]
  BY <1>3 DEF PowersTo
<1>5. ASSUME NEW k \in 0 .. MaxUnit PROVE Power[k + 1] = 10 * Power[k]
  <2>1. k + 1 \in 0 .. MaxUnit + 1 /\ k + 1 # 0 /\ (k + 1) - 1 = k
    BY <1>1
  <2> QED BY <1>4, <2>1
<1>6. Power[0] = 1
  BY <1>1, <1>4
<1> QED BY <1>5, <1>6

LEMMA PowerType == \A k \in 0 .. MaxUnit + 1 : Power[k] \in Nat /\ Power[k] >= 1
<1> DEFINE Bad == {k \in 0 .. MaxUnit + 1 : ~ (Power[k] \in Nat /\ Power[k] >= 1)}
<1>1. MaxUnit \in Nat
  BY AmountsAssumption
<1>2. Bad = {}
  <2> SUFFICES ASSUME Bad # {} PROVE FALSE
    OBVIOUS
  <2>0. Bad \in SUBSET Nat
    BY <1>1
  <2>1. PICK m \in Bad : \A y \in Bad : m <= y
    <3> HIDE DEF Bad
    <3> QED BY <2>0, LeastOf
  <2>2. m # 0
    BY <2>1, PowerIs
  <2>3. m \in Nat /\ m - 1 \in 0 .. MaxUnit /\ ~ (m <= m - 1) /\ m - 1 \in 0 .. MaxUnit + 1
        /\ m = (m - 1) + 1
    BY <1>1, <2>1, <2>2
  <2>4. Power[m - 1] \in Nat /\ Power[m - 1] >= 1
    BY <2>1, <2>3
  <2>5. Power[m] = 10 * Power[m - 1]
    BY <2>3, PowerIs
  <2>6. Power[m] \in Nat /\ Power[m] >= 1
    BY <2>4, <2>5
  <2> QED BY <2>1, <2>6
<1> QED BY <1>2

LEMMA PowerSum ==
  ASSUME NEW a \in Nat, NEW b \in Nat, a + b <= MaxUnit + 1
  PROVE  Power[a + b] = Power[a] * Power[b]
<1> DEFINE Bad == {k \in 0 .. b : Power[a + k] # Power[a] * Power[k]}
<1>1. MaxUnit \in Nat
  BY AmountsAssumption
<1>2. a \in 0 .. MaxUnit + 1 /\ Power[a] \in Nat
  BY <1>1, PowerType
<1>3. Bad = {}
  <2> SUFFICES ASSUME Bad # {} PROVE FALSE
    OBVIOUS
  <2>0. Bad \in SUBSET Nat
    BY <1>1
  <2>1. PICK m \in Bad : \A y \in Bad : m <= y
    <3> HIDE DEF Bad
    <3> QED BY <2>0, LeastOf
  <2>2. m \in Nat /\ m <= b /\ Power[a + m] # Power[a] * Power[m]
    BY <2>1
  <2>3. m # 0
    BY <1>2, <2>2, PowerIs
  <2>4. /\ m - 1 \in 0 .. b /\ ~ (m <= m - 1) /\ m - 1 \in 0 .. MaxUnit /\ m = (m - 1) + 1
        /\ m - 1 \in 0 .. MaxUnit + 1 /\ a + (m - 1) \in 0 .. MaxUnit /\ a + m = (a + (m - 1)) + 1
    BY <1>1, <2>2, <2>3
  <2>5. Power[a + (m - 1)] = Power[a] * Power[m - 1]
    BY <2>1, <2>4
  <2>6. Power[a + m] = 10 * Power[a + (m - 1)]
    BY <2>4, PowerIs
  <2>7. Power[m] = 10 * Power[m - 1]
    BY <2>4, PowerIs
  <2>8. Power[m - 1] \in Nat
    BY <2>4, PowerType
  <2>9. Power[a] * (10 * Power[m - 1]) = 10 * (Power[a] * Power[m - 1])
    BY <1>2, <2>8
  <2> QED BY <2>2, <2>5, <2>6, <2>7, <2>9
<1> QED BY <1>3

(* Division, as far as it is needed. *)
LEMMA Multiples ==
  ASSUME NEW n \in Nat, NEW d \in Nat, d >= 1
  PROVE  /\ n \div d \in Nat /\ n % d \in Nat /\ n \div d <= n
         /\ n % d = 0 => n = (n \div d) * d
<1>1. n \div d \in Int /\ n \div d >= 0 /\ n % d \in Int /\ n % d >= 0
  OBVIOUS
<1>2. n = d * (n \div d) + (n % d)
  OBVIOUS
<1>3. PICK q \in Nat : q = n \div d
  BY <1>1
<1>4. PICK r \in Nat : r = n % d
  BY <1>1
<1>5. n = d * q + r
  BY <1>2, <1>3, <1>4
<1>6. q <= n
  BY <1>5
<1>7. r = 0 => n = q * d
  BY <1>5
<1> QED BY <1>3, <1>4, <1>6, <1>7

LEMMA MultipleOf ==
  ASSUME NEW q \in Nat, NEW d \in Nat, d >= 1
  PROVE  (q * d) % d = 0 /\ (q * d) \div d = q
<1>1. (q * d) % d = 0
  OBVIOUS
<1>2. (q * d) \div d = q
  OBVIOUS
<1> QED BY <1>1, <1>2

LEMMA TenOut ==
  ASSUME NEW n \in Nat, NEW p \in Nat, NEW q \in Nat, NEW c \in Nat, p >= 1,
         n * p = c * ((10 * p) * q)
  PROVE  n = (c * q) * 10 /\ c * q \in Nat
<1>1. c * ((10 * p) * q) = ((c * q) * 10) * p
  OBVIOUS
<1>2. (c * q) * 10 \in Nat /\ c * q \in Nat
  OBVIOUS
<1>3. ASSUME NEW x \in Nat, NEW y \in Nat, x * p = y * p PROVE x = y
  BY <1>3
<1> QED BY <1>1, <1>2, <1>3

(* Stripping keeps the amount, and leaves no zero unless the unit is the   *)
(* largest.                                                                *)
LEMMA StrippedIs ==
  ASSUME NEW m \in Nat, NEW u \in Nat, u <= MaxUnit
  PROVE  LET s == Stripped([mantissa |-> m, unit |-> u])
         IN /\ s = [mantissa |-> s.mantissa, unit |-> s.unit]
            /\ s.mantissa \in Nat /\ s.mantissa <= m /\ (m # 0 => s.mantissa # 0)
            /\ s.unit \in Nat /\ s.unit <= MaxUnit
            /\ s.mantissa * Power[s.unit] = m * Power[u]
            /\ s.unit < MaxUnit => s.mantissa % 10 # 0
<1> DEFINE t == [mantissa |-> m, unit |-> u]
           cap == MaxUnit - u
           Fits(n) == m % Power[n] = 0 /\ (u + n < MaxUnit => m % Power[n + 1] # 0)
           k == CHOOSE n \in 0 .. cap : Fits(n)
<1>1. MaxUnit \in Nat /\ cap \in Nat /\ u + cap = MaxUnit
  BY AmountsAssumption
<1>2. Stripped(t) = [mantissa |-> m \div Power[k], unit |-> u + k]
  BY DEF Stripped
<1> HIDE DEF cap
<1>3. \E n \in 0 .. cap : Fits(n)
  <2> DEFINE S == {j \in 0 .. cap : m % Power[cap - j] = 0}
  <2>1. m % 1 = 0
    OBVIOUS
  <2>2. cap \in S
    BY <1>1, <2>1, PowerIs
  <2>3. S \in SUBSET Nat
    BY <1>1
  <2>4. PICK j \in S : \A y \in S : j <= y
    <3> HIDE DEF S
    <3> QED BY <2>2, <2>3, LeastOf
  <2>5. j \in Nat /\ j <= cap /\ m % Power[cap - j] = 0
    BY <1>1, <2>4
  <2>6. CASE u + (cap - j) < MaxUnit
    <3>1. j - 1 \in 0 .. cap /\ ~ (j <= j - 1) /\ cap - (j - 1) = (cap - j) + 1
      BY <1>1, <2>5, <2>6
    <3>2. m % Power[(cap - j) + 1] # 0
      BY <2>4, <3>1
    <3>3. cap - j \in 0 .. cap
      BY <1>1, <2>5
    <3> QED BY <2>5, <3>2, <3>3
  <2>7. CASE ~ (u + (cap - j) < MaxUnit)
    <3>1. cap - j \in 0 .. cap
      BY <1>1, <2>5
    <3> QED BY <2>5, <2>7, <3>1
  <2> QED BY <2>6, <2>7
<1>4. k \in 0 .. cap /\ Fits(k)
  BY <1>3
<1> HIDE DEF k
<1>5. k \in Nat /\ u + k <= MaxUnit /\ u + k \in Nat
  BY <1>1, <1>4
<1>6. k \in 0 .. MaxUnit + 1 /\ u \in 0 .. MaxUnit + 1 /\ u + k <= MaxUnit + 1 /\ k + u = u + k
  BY <1>1, <1>5
<1>7. Power[k] \in Nat /\ Power[k] >= 1 /\ Power[u] \in Nat /\ Power[u + k] = Power[u] * Power[k]
  BY <1>5, <1>6, PowerType, PowerSum
<1> DEFINE q == m \div Power[k]
<1>8. q \in Nat /\ q <= m /\ m = q * Power[k]
  BY <1>4, <1>7, Multiples
<1> HIDE DEF q
<1>9. q * (Power[u] * Power[k]) = (q * Power[k]) * Power[u]
  BY <1>7, <1>8
<1>10. q * Power[u + k] = m * Power[u]
  BY <1>7, <1>8, <1>9
<1>11. m # 0 => q # 0
  BY <1>7, <1>8
<1>12. ASSUME u + k < MaxUnit PROVE q % 10 # 0
  <2> SUFFICES ASSUME q % 10 = 0 PROVE FALSE
    OBVIOUS
  <2>1. PICK c \in Nat : q = c * 10
    BY <1>8, Multiples
  <2>2. k \in 0 .. MaxUnit /\ k + 1 \in 0 .. MaxUnit + 1
    BY <1>1, <1>5, <1>12
  <2>3. Power[k + 1] = 10 * Power[k] /\ Power[k + 1] \in Nat /\ Power[k + 1] >= 1
    BY <2>2, PowerIs, PowerType
  <2>4. (c * 10) * Power[k] = c * (10 * Power[k])
    BY <1>7
  <2>5. m = c * Power[k + 1]
    BY <1>8, <2>1, <2>3, <2>4
  <2>6. m % Power[k + 1] = 0
    BY <2>3, <2>5, MultipleOf
  <2> QED BY <1>4, <1>12, <2>6
<1>13. Stripped(t) = [mantissa |-> q, unit |-> u + k]
  BY <1>2 DEF q
<1> HIDE DEF t
<1> QED BY <1>5, <1>8, <1>10, <1>11, <1>12, <1>13 DEF t

(* What an amount is worth, and whether the code can read it at all. *)
Worth(t) == t.mantissa * Power[t.unit]
Readable(t) == t.mantissa <= MaxWord /\ t.unit <= MaxUnit

Exact(t, zhu) ==
  /\ zhu # Error <=> /\ Readable(t) /\ Worth(t) % Power[UnitZhu] = 0
                     /\ Worth(t) \div Power[UnitZhu] <= MaxWord
  /\ zhu # Error => Worth(t) = zhu * Power[UnitZhu]

AnyText == [mantissa : Nat, unit : 0 .. MaxUnit + 1]

LEMMA Words ==
  /\ MaxWord \in Nat /\ MaxUnit \in Nat /\ UnitZhu \in Nat /\ UnitZhu <= MaxUnit
  /\ UnitMei \in Nat /\ UnitMei <= MaxUnit /\ \A n \in Nat : n # Error
  /\ Power[UnitZhu] \in Nat /\ Power[UnitZhu] >= 1
<1>1. /\ MaxWord \in Nat /\ MaxUnit \in Nat /\ UnitZhu \in Nat /\ UnitZhu <= MaxUnit
      /\ UnitMei \in Nat /\ UnitMei <= MaxUnit /\ \A n \in Nat : n # Error
  BY AmountsAssumption
<1>2. UnitZhu \in 0 .. MaxUnit + 1
  BY <1>1
<1> QED BY <1>1, <1>2, PowerType

(* Parse is exact: it refuses what is not a number of Zhu within the width *)
(* and nothing else.                                                       *)
LEMMA ParseExact ==
  ASSUME NEW t \in AnyText
  PROVE  (Parse(t) # Error => Parse(t) \in 0 .. MaxWord) /\ Exact(t, Parse(t))
<1> DEFINE m == t.mantissa
           u == t.unit
           d == Power[UnitZhu]
<1>1. m \in Nat /\ u \in Nat /\ u \in 0 .. MaxUnit + 1 /\ t = [mantissa |-> m, unit |-> u]
  BY Words DEF AnyText
<1>2. d \in Nat /\ d >= 1 /\ Power[u] \in Nat /\ Power[u] >= 1
  BY <1>1, Words, PowerType
<1>3. Worth(t) \in Nat
  BY <1>1, <1>2 DEF Worth
<1>4. CASE ~ Readable(t)
  <2>1. t # Empty
    BY <1>1, <1>4, Words DEF Readable, Empty
  <2>2. Parse(t) = Error
    BY <1>1, <1>4, <2>1, Words DEF Parse, Readable
  <2> QED BY <1>4, <2>2 DEF Exact
<1>5. CASE Readable(t) /\ m = 0
  <2>1. Parse(t) = 0
    BY <1>1, <1>5, Words DEF Parse, Readable
  <2>2. Worth(t) = 0
    BY <1>1, <1>2, <1>5 DEF Worth
  <2>3. 0 % d = 0 /\ 0 \div d = 0 /\ 0 * d = 0
    <3>1. d \in Nat /\ d > 0
      BY <1>2
    <3> HIDE DEF d
    <3>2. 0 * d = 0
      BY <3>1
    <3>3. (0 * d) % d = 0 /\ (0 * d) \div d = 0
      BY <3>1, MultipleOf
    <3> QED BY <3>2, <3>3
  <2> QED BY <1>5, <2>1, <2>2, <2>3, Words DEF Exact
<1>6. CASE Readable(t) /\ m # 0
  <2> DEFINE s == Stripped(t)
             n == s.mantissa
             v == s.unit
  <2>1. u <= MaxUnit /\ m <= MaxWord
    BY <1>6 DEF Readable
  <2>2. /\ n \in Nat /\ n # 0 /\ v \in Nat /\ v <= MaxUnit
        /\ n * Power[v] = m * Power[u] /\ (v < MaxUnit => n % 10 # 0)
    <3>1. t = [mantissa |-> m, unit |-> u] /\ m \in Nat /\ u \in Nat /\ m # 0
      BY <1>1, <1>6
    <3> HIDE DEF m, u
    <3>2. s = Stripped([mantissa |-> m, unit |-> u])
      BY <3>1
    <3> HIDE DEF s
    <3> QED BY <2>1, <3>1, <3>2, StrippedIs
  <2>3. t # Empty
    BY <1>6 DEF Empty
  <2>4. Parse(t) = IF v < UnitZhu \/ Power[v - UnitZhu] > MaxWord THEN Error
                   ELSE Checked(n * Power[v - UnitZhu])
    BY <1>1, <1>6, <2>1, <2>3, Words DEF Parse
  <2>5. Worth(t) = n * Power[v]
    BY <2>2 DEF Worth
  <2> HIDE DEF s, n, v, m, u, d
  <2>6. CASE v < UnitZhu
    <3>1. PICK j \in Nat : UnitZhu = v + 1 + j
      <4>1. UnitZhu - (v + 1) \in Nat /\ UnitZhu = v + 1 + (UnitZhu - (v + 1))
        BY <2>2, <2>6, Words
      <4> QED BY <4>1
    <3>2. /\ v \in 0 .. MaxUnit /\ v \in 0 .. MaxUnit + 1 /\ j \in 0 .. MaxUnit + 1
          /\ v + 1 \in Nat /\ (v + 1) + j <= MaxUnit + 1 /\ v < MaxUnit
      BY <2>2, <2>6, <3>1, Words
    <3>3. /\ Power[v] \in Nat /\ Power[v] >= 1 /\ Power[j] \in Nat
          /\ Power[v + 1] = 10 * Power[v] /\ Power[(v + 1) + j] = Power[v + 1] * Power[j]
      BY <3>1, <3>2, PowerType, PowerIs, PowerSum
    <3>4. d = (10 * Power[v]) * Power[j]
      BY <3>1, <3>3 DEF d
    <3>5. ASSUME Worth(t) % d = 0 PROVE FALSE
      <4>1. PICK c \in Nat : Worth(t) = c * d
        BY <1>2, <1>3, <3>5, Multiples
      <4>2. n * Power[v] = c * ((10 * Power[v]) * Power[j])
        BY <2>5, <3>4, <4>1
      <4>3. n = (c * Power[j]) * 10 /\ c * Power[j] \in Nat
        BY <2>2, <3>3, <4>2, TenOut
      <4>4. n % 10 = 0
        BY <4>3, MultipleOf
      <4> QED BY <2>2, <3>2, <4>4
    <3>6. Parse(t) = Error
      BY <2>4, <2>6
    <3> QED BY <3>5, <3>6 DEF Exact, d
  <2>7. CASE ~ (v < UnitZhu)
    <3>1. PICK j \in Nat : v = UnitZhu + j /\ j = v - UnitZhu
      <4>1. v - UnitZhu \in Nat /\ v = UnitZhu + (v - UnitZhu)
        BY <2>2, <2>7, Words
      <4> QED BY <4>1
    <3>2. j \in 0 .. MaxUnit + 1 /\ UnitZhu + j <= MaxUnit + 1
      BY <2>2, <3>1, Words
    <3>3. Power[j] \in Nat /\ Power[j] >= 1 /\ Power[v] = d * Power[j]
      BY <3>1, <3>2, PowerType, PowerSum, Words DEF d
    <3> DEFINE zhu == n * Power[j]
    <3>4. zhu \in Nat /\ zhu >= Power[j]
      BY <2>2, <3>3
    <3>5. Worth(t) = zhu * d
      BY <1>2, <2>2, <2>5, <3>3
    <3> HIDE DEF zhu
    <3>6. Worth(t) % d = 0 /\ Worth(t) \div d = zhu
      BY <1>2, <3>4, <3>5, MultipleOf
    <3>7. Parse(t) = IF zhu <= MaxWord THEN zhu ELSE Error
      <4>1. Parse(t) = IF Power[j] > MaxWord THEN Error ELSE Checked(zhu)
        BY <2>4, <2>7, <3>1 DEF zhu
      <4>2. Power[j] > MaxWord => ~ (zhu <= MaxWord)
        BY <3>3, <3>4, Words
      <4> QED BY <4>1, <4>2 DEF Checked
    <3> QED BY <1>6, <3>4, <3>5, <3>6, <3>7, Words DEF Exact, d
  <2> QED BY <2>6, <2>7
<1> QED BY <1>4, <1>5, <1>6 DEF m

(* The text in hand is worth what the request brought, and readable as it  *)
(* was; what was accepted of it is exact.                                  *)
AmountInv ==
  /\ AmountTypeOK
  /\ Worth(text) = Worth(first) /\ (Readable(text) <=> Readable(first))
  /\ value # Unparsed => Exact(text, value)

LEMMA ExactIsSame ==
  ASSUME NEW t, NEW f, NEW zhu, Exact(t, zhu), Worth(t) = Worth(f), Readable(t) <=> Readable(f)
  PROVE  Exact(f, zhu)
BY DEF Exact

LEMMA AmountStarts == ASSUME AmountInit PROVE AmountInv
<1>1. PICK t \in Texts, mei \in Counts, alias \in Counts : first = Resolve(t, mei, alias)
  BY DEF AmountInit
<1>2. text = first /\ value = Unparsed
  BY DEF AmountInit
<1>3. t \in AnyText /\ mei \in Nat /\ alias \in Nat /\ UnitMei \in 0 .. MaxUnit + 1
  <2>1. UnitMei \in 0 .. MaxUnit + 1
    BY Words
  <2>2. Mantissas \subseteq Nat /\ Counts \subseteq Nat
    BY AmountsAssumption
  <2> QED BY <2>1, <2>2 DEF Texts, AnyText
<1>4. first \in AnyText
  BY <1>1, <1>3 DEF Resolve, AnyText
<1> QED BY <1>2, <1>4 DEF AmountInv, AmountTypeOK, AnyText

LEMMA AmountGoesOn == ASSUME AmountInv, [AmountStep]_amountVars PROVE AmountInv'
<1>1. CASE ParseAmount
  <2>1. value' = Parse(text) /\ UNCHANGED <<text, first>>
    BY <1>1 DEF ParseAmount
  <2>2. text \in AnyText /\ first \in AnyText
    BY DEF AmountInv, AmountTypeOK, AnyText
  <2>3. (Parse(text) # Error => Parse(text) \in 0 .. MaxWord) /\ Exact(text, Parse(text))
    BY <2>2, ParseExact
  <2> QED BY <2>1, <2>2, <2>3 DEF AmountInv, AmountTypeOK, AnyText, Worth, Readable, Exact
<1>2. CASE FormatAmount
  <2>1. value # Unparsed /\ value # Error /\ text' = Format(value) /\ value' = Unparsed
        /\ first' = first
    BY <1>2 DEF FormatAmount
  <2>2. value \in Nat /\ value <= MaxWord /\ Exact(text, value)
    BY <2>1, Words DEF AmountInv, AmountTypeOK
  <2>3. Readable(text) /\ Worth(text) = value * Power[UnitZhu]
    BY <2>1, <2>2 DEF Exact
  <2>4. text' \in AnyText /\ Readable(text') /\ Worth(text') = value * Power[UnitZhu]
    <3>1. CASE value = 0
      <4>1. text' = Empty
        BY <2>1, <3>1 DEF Format
      <4>2. Worth(Empty) = 0
        BY PowerIs DEF Worth, Empty
      <4> QED BY <3>1, <4>1, <4>2, Words DEF AnyText, Readable, Empty
    <3>2. CASE value # 0
      <4> DEFINE s == Stripped([mantissa |-> value, unit |-> UnitZhu])
      <4>1. text' = s
        BY <2>1, <3>2 DEF Format
      <4>2. /\ s = [mantissa |-> s.mantissa, unit |-> s.unit]
            /\ s.mantissa \in Nat /\ s.mantissa <= value /\ s.unit \in Nat /\ s.unit <= MaxUnit
            /\ s.mantissa * Power[s.unit] = value * Power[UnitZhu]
        BY <2>2, Words, StrippedIs
      <4> HIDE DEF s
      <4>3. s \in AnyText
        <5>1. s.unit \in 0 .. MaxUnit + 1
          BY <4>2, Words
        <5> QED BY <4>2, <5>1 DEF AnyText
      <4>4. Readable(s) /\ Worth(s) = value * Power[UnitZhu]
        BY <2>2, <4>2, Words DEF Readable, Worth
      <4> QED BY <4>1, <4>3, <4>4
    <3> QED BY <3>1, <3>2
  <2> QED BY <2>1, <2>3, <2>4 DEF AmountInv, AmountTypeOK, AnyText, Worth, Readable
<1>3. CASE UNCHANGED amountVars
  BY <1>3 DEF amountVars, AmountInv, AmountTypeOK, Worth, Readable, Exact
<1> QED BY <1>1, <1>2, <1>3 DEF AmountStep

(***************************************************************************)
(* An amount is accepted exactly when it is a whole number of Zhu within   *)
(* the width, with that value, and stays so however often it is formatted  *)
(* and read again: HacAmount::parse, format_zhu, AmountInput::resolve, for *)
(* any width, any units, and any texts and counts.                         *)
(***************************************************************************)
THEOREM AmountsAreExact == AmountSpec => []AmountExact
<1>1. AmountInit => AmountInv
  BY AmountStarts
<1>2. AmountInv /\ [AmountStep]_amountVars => AmountInv'
  BY AmountGoesOn
<1>3. AmountInv => AmountExact
  <2> SUFFICES ASSUME AmountInv PROVE AmountExact
    OBVIOUS
  <2>1. AmountTypeOK /\ first \in AnyText
    BY DEF AmountInv, AmountTypeOK, AnyText
  <2>2. Readable(first) <=> (first = Empty \/ (first.mantissa <= MaxWord /\ first.unit <= MaxUnit))
    BY Words DEF Readable, Empty
  <2>3. value # Unparsed => Exact(first, value)
    BY ExactIsSame DEF AmountInv
  <2> QED BY <2>1, <2>2, <2>3 DEF AmountExact, ValueExact, Exact, Worth
<1> QED BY <1>1, <1>2, <1>3, PTL DEF AmountSpec

-----------------------------------------------------------------------------
(* f applies the step G[k] to what it has for k - 1, up to N. *)
Iterates(f, N, base, G) == f = [k \in 0 .. N |-> IF k = 0 THEN base ELSE G[k][f[k - 1]]]

LEMMA IterationExists ==
  ASSUME NEW N \in Nat, NEW A, NEW base \in A, NEW G \in [1 .. N -> [A -> A]]
  PROVE  \E f : Iterates(f, N, base, G) /\ \A k \in 0 .. N : f[k] \in A
<1> DEFINE Ok(f, n) == Iterates(f, n, base, G) /\ \A k \in 0 .. n : f[k] \in A
           Missing == {n \in 0 .. N : ~ \E f : Ok(f, n)}
<1>1. Missing = {}
  <2> SUFFICES ASSUME Missing # {} PROVE FALSE
    OBVIOUS
  <2>1. PICK m \in Missing : \A y \in Missing : m <= y
    <3>1. Missing \in SUBSET Nat
      OBVIOUS
    <3> HIDE DEF Missing
    <3> QED BY <3>1, LeastOf
  <2>2. CASE m = 0
    <3>1. Ok([k \in 0 .. 0 |-> base], 0)
      BY DEF Iterates
    <3> QED BY <2>1, <2>2, <3>1
  <2>3. CASE m # 0
    <3>1. m \in 1 .. N /\ m - 1 \in 0 .. N /\ ~ (m <= m - 1)
      BY <2>3
    <3>2. PICK f : Ok(f, m - 1)
      BY <2>1, <3>1
    <3>g. PICK g : g = [k \in 0 .. m |-> IF k = 0 THEN base ELSE G[k][f[k - 1]]]
      OBVIOUS
    <3>3. \A k \in 0 .. m - 1 : f[k] = g[k] /\ f[k] \in A
      BY <3>1, <3>2, <3>g DEF Iterates
    <3>4. \A k \in 0 .. m : k # 0 => k - 1 \in 0 .. m - 1 /\ k \in 1 .. N
      BY <3>1
    <3>5. \A k \in 0 .. m : k # 0 => f[k - 1] = g[k - 1]
      BY <3>3, <3>4
    <3>8. g = [k \in 0 .. m |-> IF k = 0 THEN base ELSE G[k][g[k - 1]]]
      <4>1. \A k \in 0 .. m : (IF k = 0 THEN base ELSE G[k][f[k - 1]])
                               = (IF k = 0 THEN base ELSE G[k][g[k - 1]])
        BY <3>5
      <4>2. [k \in 0 .. m |-> IF k = 0 THEN base ELSE G[k][f[k - 1]]]
             = [k \in 0 .. m |-> IF k = 0 THEN base ELSE G[k][g[k - 1]]]
        BY <4>1
      <4> QED BY <4>2, <3>g
    <3>6. ASSUME NEW k \in 0 .. m PROVE g[k] \in A
      <4>1. k # 0 => f[k - 1] \in A /\ k \in 1 .. N
        BY <3>3, <3>4
      <4>2. k # 0 => G[k][f[k - 1]] \in A
        BY <4>1
      <4> QED BY <3>g, <4>2
    <3>7. Ok(g, m)
      BY <3>6, <3>8 DEF Iterates
    <3> QED BY <2>1, <3>7
  <2> QED BY <2>2, <2>3
<1>2. N \notin Missing
  BY <1>1
<1> QED BY <1>2

-----------------------------------------------------------------------------
(* Walks. *)
LEMMA WalkIs ==
  ASSUME NEW S, NEW path \in Seq(S), NEW from
  PROVE  /\ Walk(from, path) = [i \in 1 .. Len(path) + 1 |-> Walk(from, path)[i]]
         /\ Walk(from, path)[1] = from
         /\ \A i \in 1 .. Len(path) : Walk(from, path)[i + 1] = Other(path[i], Walk(from, path)[i])
<1> DEFINE N == Len(path)
           A == {from} \cup {e.a : e \in S} \cup {e.b : e \in S}
           G == [k \in 1 .. N |-> [x \in A |-> Other(path[k], x)]]
           Is(f) == f = [i \in 0 .. N |-> IF i = 0 THEN from ELSE Other(path[i], f[i - 1])]
<1>1. N \in Nat /\ \A i \in 1 .. N : path[i] \in S
  OBVIOUS
<1>2. G \in [1 .. N -> [A -> A]] /\ from \in A
  BY <1>1 DEF Other
<1>3. \E f : Is(f)
  <2>1. PICK f : Iterates(f, N, from, G) /\ \A k \in 0 .. N : f[k] \in A
    <3> HIDE DEF N, A, G
    <3> QED BY <1>1, <1>2, IterationExists
  <2>2. \A k \in 0 .. N : k # 0 => k \in 1 .. N /\ k - 1 \in 0 .. N
    BY <1>1
  <2>3. \A k \in 0 .. N : k # 0 => G[k][f[k - 1]] = Other(path[k], f[k - 1])
    BY <2>1, <2>2
  <2>4. Is(f)
    <3> HIDE DEF G, A, N
    <3> QED BY <2>1, <2>3 DEF Iterates
  <2> QED BY <2>4
<1> DEFINE at == CHOOSE f : Is(f)
<1>4. Is(at)
  BY <1>3
<1>5. Walk(from, path) = [i \in 1 .. N + 1 |-> at[i - 1]]
  BY DEF Walk
<1> HIDE DEF at
<1>6. at[0] = from /\ \A i \in 1 .. N : at[i] = Other(path[i], at[i - 1])
  <2>1. 0 \in 0 .. N /\ \A i \in 1 .. N : i \in 0 .. N /\ i # 0
    BY <1>1
  <2> QED BY <1>4, <2>1
<1>7. /\ Walk(from, path) = [i \in 1 .. N + 1 |-> Walk(from, path)[i]]
      /\ Walk(from, path)[1] = from
      /\ \A i \in 1 .. N : Walk(from, path)[i + 1] = Other(path[i], Walk(from, path)[i])
  <2> HIDE DEF N
  <2>1. 1 \in 1 .. N + 1 /\ \A i \in 1 .. N : i \in 1 .. N + 1 /\ i + 1 \in 1 .. N + 1 /\ i + 1 - 1 = i
    BY <1>1
  <2> QED BY <1>5, <1>6, <2>1
<1> QED BY <1>7

LEMMA WalkOnce ==
  ASSUME NEW S, NEW path \in Seq(S), NEW from, NEW e \in S
  PROVE  LET at == Walk(from, path)
             longer == Walk(from, Append(path, e))
         IN /\ \A i \in 1 .. Len(path) + 1 : longer[i] = at[i]
            /\ longer[Len(path) + 2] = Other(e, at[Len(path) + 1])
<1> DEFINE N == Len(path)
           p == Append(path, e)
           at == Walk(from, path)
           longer == Walk(from, p)
           Differ == {i \in 1 .. N + 1 : longer[i] # at[i]}
<1>1. N \in Nat /\ p \in Seq(S) /\ Len(p) = N + 1 /\ p[N + 1] = e /\ \A i \in 1 .. N : p[i] = path[i]
  OBVIOUS
<1>2. at[1] = from /\ \A i \in 1 .. N : at[i + 1] = Other(path[i], at[i])
  BY WalkIs
<1>3. longer[1] = from /\ \A i \in 1 .. N + 1 : longer[i + 1] = Other(p[i], longer[i])
  <2> HIDE DEF p
  <2> QED BY <1>1, WalkIs
<1> HIDE DEF p, at, longer, N
<1>4. Differ = {}
  <2> SUFFICES ASSUME Differ # {} PROVE FALSE
    OBVIOUS
  <2>1. PICK m \in Differ : \A y \in Differ : m <= y
    <3>1. Differ \in SUBSET Nat
      BY <1>1
    <3> HIDE DEF Differ
    <3> QED BY <3>1, LeastOf
  <2>2. m # 1
    BY <1>2, <1>3, <2>1
  <2>3. m - 1 \in 1 .. N /\ m - 1 \in 1 .. N + 1 /\ ~ (m <= m - 1) /\ m - 1 + 1 = m
    BY <1>1, <2>1, <2>2
  <2>4. longer[m - 1] = at[m - 1]
    BY <2>1, <2>3
  <2>5. longer[m] = at[m]
    BY <1>1, <1>2, <1>3, <2>3, <2>4
  <2> QED BY <2>1, <2>5
<1>5. N + 1 \in 1 .. N + 1 /\ N + 1 + 1 = N + 2
  BY <1>1
<1>6. longer[N + 2] = Other(e, at[N + 1])
  BY <1>1, <1>3, <1>4, <1>5
<1> QED BY <1>4, <1>6 DEF N, p, at, longer

-----------------------------------------------------------------------------
(* Layers. *)
Around(S, amount, X) == X \cup UNION {{Other(e, x) : e \in Usable(S, amount, x)} : x \in X}

LEMMA LayersAre ==
  ASSUME NEW S, NEW q, q.hops \in Nat
  PROVE  /\ Layers(S, q)[0] = {q.payer}
         /\ \A k \in 1 .. q.hops :
              Layers(S, q)[k] = Around(S, q.amount, Layers(S, q)[k - 1])
<1> DEFINE N == q.hops
           P == {q.payer}
           A == SUBSET (P \cup {e.a : e \in S} \cup {e.b : e \in S})
           G == [k \in 1 .. N |-> [X \in A |-> Around(S, q.amount, X)]]
           Is(f) == f = [k \in 0 .. N |-> IF k = 0 THEN P ELSE Around(S, q.amount, f[k - 1])]
<1>1. \A X \in A : Around(S, q.amount, X) \in A
  <2>1. \A x, e : e \in Usable(S, q.amount, x) => e \in S /\ Other(e, x) \in {e.a, e.b}
    BY DEF Usable, Other
  <2> QED BY <2>1 DEF Around
<1>2. G \in [1 .. N -> [A -> A]] /\ P \in A
  BY <1>1
<1>3. \E f : Is(f)
  <2>1. PICK f : Iterates(f, N, P, G) /\ \A k \in 0 .. N : f[k] \in A
    <3> HIDE DEF A, G, P
    <3> QED BY <1>2, IterationExists
  <2>2. \A k \in 0 .. N : k # 0 => k \in 1 .. N /\ k - 1 \in 0 .. N
    OBVIOUS
  <2>3. \A k \in 0 .. N : k # 0 => G[k][f[k - 1]] = Around(S, q.amount, f[k - 1])
    <3> HIDE DEF A
    <3> QED BY <2>1, <2>2
  <2>4. Is(f)
    <3> HIDE DEF G, A, N, P
    <3> QED BY <2>1, <2>3 DEF Iterates
  <2> QED BY <2>4
<1> DEFINE within == CHOOSE f : Is(f)
<1>4. Is(within)
  BY <1>3
<1>5. Layers(S, q) = within
  BY DEF Layers, Around
<1> HIDE DEF within
<1>6. within[0] = P /\ \A k \in 1 .. N : within[k] = Around(S, q.amount, within[k - 1])
  <2>1. 0 \in 0 .. N /\ \A k \in 1 .. N : k \in 0 .. N /\ k # 0
    OBVIOUS
  <2> HIDE DEF P, N
  <2> QED BY <1>4, <2>1
<1> QED BY <1>5, <1>6

LEMMA LayersStep ==
  ASSUME NEW S, NEW q, q.hops \in Nat, NEW k \in Nat, k < q.hops,
         NEW y \in Layers(S, q)[k]
  PROVE  /\ y \in Layers(S, q)[k + 1]
         /\ \A e \in Usable(S, q.amount, y) : Other(e, y) \in Layers(S, q)[k + 1]
<1>1. k + 1 \in 1 .. q.hops /\ k + 1 - 1 = k
  OBVIOUS
<1>2. Layers(S, q)[k + 1] = Around(S, q.amount, Layers(S, q)[k])
  BY <1>1, LayersAre
<1> QED BY <1>2 DEF Around

LEMMA LayersGrow ==
  ASSUME NEW S, NEW q, q.hops \in Nat, NEW j \in Nat, NEW y \in Layers(S, q)[j]
  PROVE  \A k \in j .. q.hops : y \in Layers(S, q)[k]
<1> DEFINE Wrong == {k \in j .. q.hops : y \notin Layers(S, q)[k]}
<1> SUFFICES ASSUME Wrong # {} PROVE FALSE
  OBVIOUS
<1>1. PICK m \in Wrong : \A x \in Wrong : m <= x
  <2>1. Wrong \in SUBSET Nat
    OBVIOUS
  <2> HIDE DEF Wrong
  <2> QED BY <2>1, LeastOf
<1>2. m # j
  BY <1>1
<1>3. m - 1 \in j .. q.hops /\ m - 1 \in Nat /\ m - 1 < q.hops /\ ~ (m <= m - 1) /\ m - 1 + 1 = m
  BY <1>1, <1>2
<1>4. y \in Layers(S, q)[m - 1]
  BY <1>1, <1>3
<1>5. y \in Layers(S, q)[m]
  <2> HIDE DEF Wrong
  <2>1. y \in Layers(S, q)[m - 1 + 1]
    BY <1>3, <1>4, LayersStep
  <2> QED BY <1>3, <2>1
<1> QED BY <1>1, <1>5

(* A path with liquidity goes up by one layer with each edge. *)
LEMMA WalkClimbs ==
  ASSUME NEW S, NEW q, q.hops \in Nat, NEW path \in Seq(S), NEW to,
         Carries(path, q.payer, to, q.amount),
         NEW m \in 1 .. Len(path) + 1, NEW c \in Nat,
         Walk(q.payer, path)[m] \in Layers(S, q)[c], c + (Len(path) + 1 - m) <= q.hops
  PROVE  \A k \in m .. Len(path) + 1 : Walk(q.payer, path)[k] \in Layers(S, q)[c + (k - m)]
<1> DEFINE at == Walk(q.payer, path)
           L == Layers(S, q)
           Wrong == {k \in m .. Len(path) + 1 : at[k] \notin L[c + (k - m)]}
<1>0. Len(path) \in Nat /\ \A i \in 1 .. Len(path) : path[i] \in S
  OBVIOUS
<1> SUFFICES ASSUME Wrong # {} PROVE FALSE
  OBVIOUS
<1>1. PICK k \in Wrong : \A x \in Wrong : k <= x
  <2>1. Wrong \in SUBSET Nat
    BY <1>0
  <2> HIDE DEF Wrong
  <2> QED BY <2>1, LeastOf
<1>2. k # m
  <2>1. c + (m - m) = c
    BY <1>0
  <2> QED BY <1>1, <2>1
<1>3. /\ k \in Nat /\ k - 1 \in m .. Len(path) + 1 /\ k - 1 \in 1 .. Len(path) /\ ~ (k <= k - 1)
      /\ k - 1 + 1 = k /\ c + (k - 1 - m) + 1 = c + (k - m)
      /\ c + (k - 1 - m) \in Nat /\ c + (k - 1 - m) < q.hops
  BY <1>0, <1>1, <1>2
<1>4. at[k - 1] \in L[c + (k - 1 - m)]
  BY <1>1, <1>3
<1>5. path[k - 1] \in Usable(S, q.amount, at[k - 1])
  BY <1>0, <1>3 DEF Carries, Usable
<1>6. at[k] = Other(path[k - 1], at[k - 1])
  <2>1. at[k - 1 + 1] = Other(path[k - 1], at[k - 1])
    BY <1>3, WalkIs
  <2> QED BY <1>3, <2>1
<1>7. at[k] \in L[c + (k - m)]
  <2> HIDE DEF at
  <2>1. Other(path[k - 1], at[k - 1]) \in L[c + (k - 1 - m) + 1]
    BY <1>3, <1>4, <1>5, LayersStep
  <2> QED BY <1>3, <1>6, <2>1
<1> QED BY <1>1, <1>7

-----------------------------------------------------------------------------
(* Simple paths. *)

LEMMA OtherTwice ==
  ASSUME NEW e, NEW x \in {e.a, e.b}
  PROVE  Other(e, x) \in {e.a, e.b} /\ Other(e, Other(e, x)) = x /\ {e.a, e.b} = {x, Other(e, x)}
BY DEF Other

LEMMA ChannelsOnce ==
  ASSUME NEW S, NEW from, NEW to, NEW amount, NEW path \in Seq(S),
         \A e, f \in S : e.id = f.id => e = f,
         Carries(path, from, to, amount), IsInjective(Walk(from, path))
  PROVE  IsSimple(from, path)
<1> DEFINE at == Walk(from, path)
<1>0. Len(path) \in Nat /\ DOMAIN path = 1 .. Len(path) /\ \A i \in 1 .. Len(path) : path[i] \in S
  OBVIOUS
<1>1. DOMAIN at = 1 .. Len(path) + 1
  BY DEF Walk
<1>2. \A i \in 1 .. Len(path) : at[i] \in {path[i].a, path[i].b} /\ at[i + 1] = Other(path[i], at[i])
  BY <1>0, WalkIs DEF Carries
<1>3. ASSUME NEW i \in 1 .. Len(path), NEW j \in 1 .. Len(path), i < j, path[i].id = path[j].id
      PROVE  FALSE
  <2>1. path[i] = path[j]
    BY <1>0, <1>3
  <2>2. at[j] \in {at[i], at[i + 1]}
    <3>1. at[i] \in {path[i].a, path[i].b} /\ at[j] \in {path[i].a, path[i].b}
          /\ at[i + 1] = Other(path[i], at[i])
      BY <1>2, <2>1
    <3> HIDE DEF at
    <3>2. {path[i].a, path[i].b} = {at[i], at[i + 1]}
      BY <3>1, OtherTwice
    <3> QED BY <3>1, <3>2
  <2>3. i \in 1 .. Len(path) + 1 /\ j \in 1 .. Len(path) + 1 /\ i + 1 \in 1 .. Len(path) + 1
        /\ j + 1 \in 1 .. Len(path) + 1 /\ i # j /\ j + 1 # i
    BY <1>0, <1>3
  <2> HIDE DEF at
  <2>4. j = i + 1
    <3>1. \A k, l \in 1 .. Len(path) + 1 : at[k] = at[l] => k = l
      BY <1>1 DEF IsInjective, at
    <3> QED BY <2>2, <2>3, <3>1
  <2>5. at[j + 1] = at[i]
    BY <1>2, <2>1, <2>4, OtherTwice
  <2> QED BY <1>1, <2>3, <2>5 DEF IsInjective, at
<1>4. ASSUME NEW i \in DOMAIN path, NEW j \in DOMAIN path, path[i].id = path[j].id
      PROVE  i = j
  <2>1. i \in 1 .. Len(path) /\ j \in 1 .. Len(path) /\ (i < j \/ j < i \/ i = j)
    BY <1>0
  <2> QED BY <1>3, <1>4, <2>1
<1>5. IsInjective([i \in DOMAIN path |-> path[i].id])
  BY <1>4 DEF IsInjective
<1> QED BY <1>5 DEF IsSimple

LEMMA ShortestIsSimple ==
  ASSUME NEW S, NEW q, q.hops \in Nat, NEW path \in Seq(S), NEW to,
         \A e, f \in S : e.id = f.id => e = f,
         Carries(path, q.payer, to, q.amount), path # << >>, Len(path) <= q.hops,
         to \notin Layers(S, q)[Len(path) - 1]
  PROVE  IsSimple(q.payer, path)
<1> DEFINE at == Walk(q.payer, path)
           L == Layers(S, q)
           n == Len(path)
<1>0. n \in Nat /\ n # 0 /\ n - 1 \in Nat /\ DOMAIN at = 1 .. n + 1 /\ n <= q.hops
  BY DEF Walk
<1>1. at[1] \in L[0] /\ at[n + 1] = to
  BY WalkIs, LayersAre DEF Carries
<1>2. \A k \in 1 .. n + 1 : at[k] \in L[0 + (k - 1)]
  <2>1. 1 \in 1 .. n + 1 /\ 0 \in Nat /\ 0 + (n + 1 - 1) <= q.hops
    BY <1>0
  <2> HIDE DEF L, at
  <2>2. Walk(q.payer, path)[1] \in Layers(S, q)[0]
    BY <1>1 DEF L, at
  <2> QED BY <2>1, <2>2, WalkClimbs DEF L, at
<1>3. ASSUME NEW i \in 1 .. n + 1, NEW j \in 1 .. n + 1, i < j, at[i] = at[j]
      PROVE  FALSE
  <2>1. /\ i - 1 \in Nat /\ 0 + (i - 1) = i - 1 /\ i - 1 + (n + 1 - j) <= n - 1
        /\ i - 1 + (n + 1 - j) \in Nat /\ i - 1 + (n + 1 - j) <= q.hops
        /\ n + 1 \in j .. n + 1 /\ n - 1 \in (i - 1 + (n + 1 - j)) .. q.hops
    BY <1>0, <1>3
  <2> HIDE DEF L, at
  <2>2. at[j] \in L[i - 1]
    BY <1>2, <1>3, <2>1
  <2>3. \A k \in j .. n + 1 : at[k] \in L[i - 1 + (k - j)]
    BY <2>1, <2>2, WalkClimbs DEF L, at
  <2>4. to \in L[i - 1 + (n + 1 - j)]
    <3> HIDE DEF n
    <3>1. n + 1 \in j .. n + 1
      BY <2>1
    <3>2. at[n + 1] \in L[i - 1 + ((n + 1) - j)]
      BY <2>3, <3>1
    <3>3. at[n + 1] = to
      BY <1>1
    <3>4. i - 1 + ((n + 1) - j) = i - 1 + (n + 1 - j)
      BY <1>0
    <3> QED BY <3>2, <3>3, <3>4
  <2>5. to \in L[n - 1]
    BY <2>1, <2>4, LayersGrow DEF L
  <2> QED BY <2>5 DEF L
<1>4. IsInjective(at)
  <2>1. ASSUME NEW i \in 1 .. n + 1, NEW j \in 1 .. n + 1, at[i] = at[j] PROVE i = j
    <3>1. i < j \/ j < i \/ i = j
      BY <1>0
    <3> HIDE DEF at, n
    <3> QED BY <1>3, <2>1, <3>1
  <2> HIDE DEF at
  <2> QED BY <1>0, <2>1 DEF IsInjective
<1> QED BY <1>4, ChannelsOnce

-----------------------------------------------------------------------------
(* Signers. *)

LEMMA SignersExist ==
  ASSUME NEW S, NEW path \in Seq(S), NEW payer, NEW payee
  PROVE  \E back : /\ back[0] = [at |-> payee, signers |-> <<payee>>]
                   /\ \A k \in 1 .. Len(path) :
                        back[k] = Signed(back[k - 1], path[Len(path) - k + 1], payer, payee)
                   /\ OrderedSigners(path, payer, payee) =
                        IF Contains(back[Len(path)].signers, payer) THEN back[Len(path)].signers
                        ELSE Append(back[Len(path)].signers, payer)
<1> DEFINE N == Len(path)
           X == {payer, payee} \cup {e.a : e \in S} \cup {e.b : e \in S}
           A == [at : X, signers : Seq(X)]
           base == [at |-> payee, signers |-> <<payee>>]
           G == [k \in 1 .. N |-> [acc \in A |-> Signed(acc, path[N - k + 1], payer, payee)]]
           Is(f) == f = [k \in 0 .. N |-> IF k = 0 THEN base
                                         ELSE Signed(f[k - 1], path[N - k + 1], payer, payee)]
<1>0. N \in Nat /\ \A k \in 1 .. N : path[N - k + 1] \in S
  OBVIOUS
<1>1. ASSUME NEW acc \in A, NEW e \in S PROVE Signed(acc, e, payer, payee) \in A
  <2>1. Other(e, acc.at) \in X
    BY DEF Other
  <2>2. acc.signers \in Seq(X) /\ Append(acc.signers, Other(e, acc.at)) \in Seq(X)
    BY <2>1
  <2> HIDE DEF X
  <2> QED BY <2>1, <2>2 DEF Signed
<1>2. G \in [1 .. N -> [A -> A]]
  <2> HIDE DEF A, N
  <2> QED BY <1>0, <1>1
<1>3. base \in A
  <2>1. payee \in X
    OBVIOUS
  <2> HIDE DEF X
  <2> QED BY <2>1
<1>4. \E f : Is(f)
  <2>1. PICK f : Iterates(f, N, base, G) /\ \A k \in 0 .. N : f[k] \in A
    <3> HIDE DEF N, A, G, base
    <3> QED BY <1>0, <1>2, <1>3, IterationExists
  <2>2. \A k \in 0 .. N : k # 0 => k \in 1 .. N /\ k - 1 \in 0 .. N
    BY <1>0
  <2>3. \A k \in 0 .. N : k # 0 => G[k][f[k - 1]] = Signed(f[k - 1], path[N - k + 1], payer, payee)
    <3> HIDE DEF A, N
    <3> QED BY <2>1, <2>2
  <2>4. Is(f)
    <3> HIDE DEF G, A, N, base
    <3> QED BY <2>1, <2>3 DEF Iterates
  <2> QED BY <2>4
<1> DEFINE back == CHOOSE f : Is(f)
<1>5. Is(back)
  BY <1>4
<1>6. OrderedSigners(path, payer, payee) =
        IF Contains(back[N].signers, payer) THEN back[N].signers ELSE Append(back[N].signers, payer)
  BY DEF OrderedSigners
<1> HIDE DEF back, base
<1>7. back[0] = base /\ \A k \in 1 .. N : back[k] = Signed(back[k - 1], path[N - k + 1], payer, payee)
  <2>1. 0 \in 0 .. N /\ \A k \in 1 .. N : k \in 0 .. N /\ k # 0
    BY <1>0
  <2> HIDE DEF N
  <2> QED BY <1>5, <2>1
<1> QED BY <1>6, <1>7 DEF base

LEMMA ReverseIs ==
  ASSUME NEW s, NEW m, m = Len(s)
  PROVE  Reverse(s) = [i \in 1 .. m |-> s[m - i + 1]]
BY DEF Reverse

(* Along a simple path every address signs, the payee first. *)
LEMMA SignersAre ==
  ASSUME NEW S, NEW path \in Seq(S), NEW payer, NEW payee, NEW amount, payer # payee,
         Carries(path, payer, payee, amount), IsInjective(Walk(payer, path))
  PROVE  OrderedSigners(path, payer, payee) = Reverse(Walk(payer, path))
<1> DEFINE at == Walk(payer, path)
           n == Len(path)
           Back(k) == [i \in 1 .. k |-> at[n + 2 - i]]
<1>0. n \in Nat /\ DOMAIN path = 1 .. n
  OBVIOUS
<1>1. /\ DOMAIN at = 1 .. n + 1 /\ Len(at) = n + 1 /\ at[1] = payer /\ at[n + 1] = payee
      /\ \A i, j \in 1 .. n + 1 : at[i] = at[j] => i = j
  <2>1. DOMAIN at = 1 .. n + 1 /\ at = [i \in 1 .. n + 1 |-> at[i]]
    BY WalkIs DEF Walk
  <2>2. at[1] = payer /\ at[n + 1] = payee
    BY WalkIs DEF Carries
  <2>3. \A i, j \in 1 .. n + 1 : at[i] = at[j] => i = j
    BY <2>1 DEF IsInjective
  <2>4. Len(at) = n + 1
    <3> HIDE DEF at, n
    <3> QED BY <1>0, <2>1
  <2> QED BY <2>1, <2>2, <2>3, <2>4
<1>2. n # 0
  BY <1>0, <1>1
<1>3. \A i \in 1 .. n : /\ at[i + 1] \in {path[i].a, path[i].b}
                        /\ Other(path[i], at[i + 1]) = at[i]
  <2>1. \A i \in 1 .. n : at[i] \in {path[i].a, path[i].b} /\ at[i + 1] = Other(path[i], at[i])
    <3>1. \A i \in 1 .. n : at[i + 1] = Other(path[i], at[i])
      BY WalkIs
    <3>2. \A i \in DOMAIN path : at[i] \in {path[i].a, path[i].b}
      BY DEF Carries
    <3> HIDE DEF at
    <3> QED BY <1>0, <3>1, <3>2
  <2> TAKE i \in 1 .. n
  <2> HIDE DEF at, n
  <2>2. at[i] \in {path[i].a, path[i].b} /\ at[i + 1] = Other(path[i], at[i])
    BY <2>1
  <2> QED BY <2>2, OtherTwice
<1>4. PICK back : /\ back[0] = [at |-> payee, signers |-> <<payee>>]
                  /\ \A k \in 1 .. n : back[k] = Signed(back[k - 1], path[n - k + 1], payer, payee)
                  /\ OrderedSigners(path, payer, payee) =
                       IF Contains(back[n].signers, payer) THEN back[n].signers
                       ELSE Append(back[n].signers, payer)
  BY SignersExist
<1> HIDE DEF at, n
<1>5. ASSUME NEW k \in 1 .. n, NEW acc, acc = [at |-> at[n + 2 - k], signers |-> Back(k)]
      PROVE  Signed(acc, path[n - k + 1], payer, payee)
               = [at |-> at[n - k + 1], signers |-> IF k = n THEN Back(n) ELSE Back(k + 1)]
  <2> DEFINE e == path[n - k + 1]
             x == at[n - k + 1]
  <2>1. n - k + 1 \in 1 .. n /\ n - k + 1 + 1 = n + 2 - k /\ n - k + 1 \in 1 .. n + 1
    BY <1>0
  <2>2. at[n + 2 - k] \in {e.a, e.b} /\ Other(e, at[n + 2 - k]) = x
    BY <1>3, <2>1
  <2>3. x = payer <=> k = n
    <3>1. 1 \in 1 .. n + 1 /\ (n - k + 1 = 1 <=> k = n)
      BY <1>0
    <3> QED BY <1>1, <2>1, <3>1
  <2>4. x # payee
    <3>1. n + 1 \in 1 .. n + 1 /\ n - k + 1 # n + 1
      BY <1>0
    <3> QED BY <1>1, <2>1, <3>1
  <2>5. Len(Back(k)) = k /\ Back(k) = [i \in 1 .. k |-> at[n + 2 - i]]
    OBVIOUS
  <2>6. ~ Contains(Back(k), x)
    <3>1. \A i \in 1 .. k : n + 2 - i \in 1 .. n + 1 /\ n + 2 - i # n - k + 1
      BY <1>0
    <3>2. \A i \in 1 .. k : Back(k)[i] # x
      BY <1>1, <2>1, <3>1
    <3> HIDE DEF Back
    <3> QED BY <2>5, <3>2 DEF Contains
  <2>7. Append(Back(k), x) = Back(k + 1)
    <3>1. k \in Nat /\ n + 2 - (k + 1) = n - k + 1
      BY <1>0
    <3> HIDE DEF x
    <3>2. Append(Back(k), x) = [i \in 1 .. k + 1 |-> IF i = k + 1 THEN x ELSE at[n + 2 - i]]
      BY <3>1
    <3>3. \A i \in 1 .. k + 1 : i = k + 1 => at[n + 2 - i] = x
      BY <3>1 DEF x
    <3> QED BY <3>2, <3>3
  <2>8. acc.at = at[n + 2 - k] /\ acc.signers = Back(k)
    BY <1>5
  <2> HIDE DEF x, e, Back
  <2>9. Signed(acc, e, payer, payee) =
          [at |-> x, signers |-> IF x = payer THEN Back(k) ELSE Append(Back(k), x)]
    BY <2>2, <2>4, <2>6, <2>8 DEF Signed
  <2> QED BY <2>3, <2>7, <2>9 DEF x, e
<1>6. \A k \in 0 .. n - 1 : back[k] = [at |-> at[n + 1 - k], signers |-> Back(k + 1)]
  <2> DEFINE Wrong == {k \in 0 .. n - 1 : back[k] # [at |-> at[n + 1 - k], signers |-> Back(k + 1)]}
  <2> SUFFICES ASSUME Wrong # {} PROVE FALSE
    OBVIOUS
  <2>1. PICK k \in Wrong : \A y \in Wrong : k <= y
    <3>1. Wrong \in SUBSET Nat
      BY <1>0
    <3> HIDE DEF Wrong
    <3> QED BY <3>1, LeastOf
  <2>2. k # 0
    <3>1. Back(0 + 1) = <<payee>>
      <4>1. n + 2 - 1 = n + 1
        BY <1>0
      <4>2. Back(1) = [i \in 1 .. 1 |-> payee]
        BY <1>1, <4>1
      <4> QED BY <4>2
    <3>2. at[n + 1 - 0] = payee
      BY <1>0, <1>1
    <3> HIDE DEF Back
    <3> QED BY <1>4, <2>1, <3>1, <3>2
  <2>3. k \in 1 .. n /\ k # n /\ k - 1 \in 0 .. n - 1 /\ ~ (k <= k - 1)
        /\ n + 1 - (k - 1) = n + 2 - k /\ k - 1 + 1 = k /\ n - k + 1 = n + 1 - k
    BY <1>0, <2>1, <2>2
  <2>4. back[k - 1] = [at |-> at[n + 2 - k], signers |-> Back(k)]
    <3> HIDE DEF Back
    <3> QED BY <2>1, <2>3
  <2>5. Signed(back[k - 1], path[n - k + 1], payer, payee)
          = [at |-> at[n - k + 1], signers |-> Back(k + 1)]
    <3> HIDE DEF Back, Wrong
    <3> QED BY <1>5, <2>3, <2>4
  <2>6. back[k] = [at |-> at[n + 1 - k], signers |-> Back(k + 1)]
    <3> HIDE DEF Back, Wrong
    <3> QED BY <1>4, <2>3, <2>5
  <2> QED BY <2>1, <2>6
<1>7. back[n] = [at |-> payer, signers |-> Back(n)]
  <2>1. n \in 1 .. n /\ n - 1 \in 0 .. n - 1 /\ n + 1 - (n - 1) = n + 2 - n /\ n - 1 + 1 = n
        /\ n - n + 1 = 1
    BY <1>0, <1>2
  <2> HIDE DEF Back
  <2>2. back[n - 1] = [at |-> at[n + 2 - n], signers |-> Back(n)]
    BY <1>6, <2>1
  <2>3. Signed(back[n - 1], path[n - n + 1], payer, payee) = [at |-> at[n - n + 1], signers |-> Back(n)]
    BY <1>5, <2>1, <2>2
  <2> QED BY <1>1, <1>4, <2>1, <2>3
<1>8. OrderedSigners(path, payer, payee) = Append(Back(n), payer)
  <2>1. \A i \in 1 .. n : n + 2 - i \in 1 .. n + 1 /\ n + 2 - i # 1 /\ 1 \in 1 .. n + 1
    BY <1>0
  <2>2. \A i \in 1 .. n : Back(n)[i] # payer
    BY <1>1, <2>1
  <2>3. Len(Back(n)) = n
    BY <1>0
  <2> HIDE DEF Back
  <2>4. ~ Contains(Back(n), payer)
    BY <2>2, <2>3 DEF Contains
  <2> QED BY <1>4, <1>7, <2>4
<1>9. Append(Back(n), payer) = Back(n + 1)
  <2>1. n + 2 - (n + 1) = 1
    BY <1>0
  <2>2. Append(Back(n), payer) = [i \in 1 .. n + 1 |-> IF i = n + 1 THEN payer ELSE at[n + 2 - i]]
    BY <1>0
  <2>3. \A i \in 1 .. n + 1 : i = n + 1 => at[n + 2 - i] = payer
    BY <1>1, <2>1
  <2> QED BY <2>2, <2>3
<1>10. Back(n + 1) = Reverse(at)
  <2> DEFINE m == n + 1
  <2>1. m = Len(at)
    BY <1>0, <1>1
  <2>2. \A i \in 1 .. m : n + 2 - i = m - i + 1
    BY <1>0
  <2> HIDE DEF m
  <2>3. Reverse(at) = [i \in 1 .. m |-> at[m - i + 1]]
    BY <2>1, ReverseIs
  <2>4. Back(m) = [i \in 1 .. m |-> at[m - i + 1]]
    BY <2>2
  <2>5. Back(m) = Reverse(at)
    BY <2>3, <2>4
  <2> HIDE DEF Back
  <2> QED BY <2>5 DEF m
<1> QED BY <1>8, <1>9, <1>10 DEF at

-----------------------------------------------------------------------------
(* The routing graph, the search and the plan. *)

(* Every edge is of a channel of this hub or of an advertised one, and no  *)
(* two edges have one identifier.                                          *)
OfChannels(S, channels) ==
  \A e \in S : \E ch \in channels :
    e = IF ch.owner = Self THEN EdgeFromLocal(ch) ELSE EdgeFromAdvertised(ch)
OneEach(S) == \A e, f \in S : e.id = f.id => e = f

EdgesInv ==
  query \in Queries /\ IsFiniteSet(edges) /\ OfChannels(edges, query.channels) /\ OneEach(edges)

(* What is known of the path to an address: it is a shortest one. *)
Shortest(S, q, path, x) ==
  /\ path \in Seq(S) /\ Len(path) <= q.hops /\ Carries(path, q.payer, x, q.amount)
  /\ path # << >> => x \notin Layers(S, q)[Len(path) - 1]

(* Addresses are queued by their distance; those that were visited lie no  *)
(* further, and so do their neighbours.                                    *)
Depth(paths, x) == Len(paths[x])
Visited(paths, wait) == {x \in DOMAIN paths : \A i \in DOMAIN wait : wait[i] # x}

QueueOk(paths, wait) ==
  /\ wait \in Seq(DOMAIN paths)
  /\ \A i, j \in DOMAIN wait : i # j => wait[i] # wait[j]
  /\ \A i, j \in DOMAIN wait :
       i < j => /\ Depth(paths, wait[i]) <= Depth(paths, wait[j])
                /\ Depth(paths, wait[j]) <= Depth(paths, wait[i]) + 1

NearBy(S, q, paths, v) ==
  Depth(paths, v) < q.hops =>
    \A e \in Usable(S, q.amount, v) :
      Other(e, v) \in DOMAIN paths /\ Depth(paths, Other(e, v)) <= Depth(paths, v) + 1

SearchOk(S, q, paths, wait) ==
  /\ q.route = << >> /\ QueueOk(paths, wait)
  /\ q.payer \in DOMAIN paths /\ paths[q.payer] = << >>
  /\ \A x \in DOMAIN paths : Shortest(S, q, paths[x], x)
  /\ \A v \in Visited(paths, wait) :
       /\ v # q.payee /\ NearBy(S, q, paths, v)
       /\ \A i \in DOMAIN wait : Depth(paths, v) <= Depth(paths, wait[i])

SearchInv == SearchOk(edges, query, reached, queue)

FoundInv ==
  /\ query.payee \in DOMAIN reached /\ reached[query.payee] \in Seq(edges)
  /\ Carries(reached[query.payee], query.payer, query.payee, query.amount)
  /\ query.route = << >> => Shortest(edges, query, reached[query.payee], query.payee)

PlanOf(path, q) ==
  LET at == Walk(q.payer, path)
  IN [route |-> [i \in DOMAIN path |-> path[i].id],
      signers |-> OrderedSigners(path, q.payer, q.payee),
      hops |-> {[channel |-> path[i].id, from |-> at[i], to |-> at[i + 1], via |-> path[i].via] :
                i \in DOMAIN path}]

PlannedInv ==
  /\ IsSimple(query.payer, reached[query.payee])
  /\ plan = PlanOf(reached[query.payee], query)

Nowhere == query.payee \notin Layers(edges, query)[query.hops]

RoutingInv ==
  /\ RoutingTypeOK /\ EdgesInv
  /\ stage = "search" => SearchInv
  /\ stage = "walk" => query.route # << >>
  /\ stage \in {"found", "planned"} => FoundInv
  /\ IF stage = "planned" THEN PlannedInv ELSE plan = NoPlan
  /\ query.route = << >> => stage # "refused" /\ (stage = "none" => Nowhere)

LEMMA QueryIs ==
  ASSUME query \in Queries
  PROVE  /\ query.payer # query.payee /\ query.amount \in Nat
         /\ query.hops \in Nat /\ query.hops <= MaxRoute /\ MaxRoute \in Nat
         /\ query.route \in Seq(ToSet(query.route)) /\ IsFiniteSet(query.channels)
         /\ \A ch \in query.channels : ch.left \in Nat /\ ch.right \in Nat
         /\ \A c, d \in query.channels : c.id = d.id /\ c.owner = d.owner => c = d
BY RoutingAssumption

LEMMA ImageIsFinite ==
  ASSUME NEW S, IsFiniteSet(S), NEW f, f = [x \in S |-> f[x]]
  PROVE  IsFiniteSet({f[x] : x \in S})
<1>1. f \in Surjection(S, {f[x] : x \in S})
  BY DEF Surjection
<1> QED BY <1>1, FS_Surjection

LEMMA MergedEdges ==
  ASSUME NEW C, IsFiniteSet(C), NEW S \in Merges(C)
  PROVE  IsFiniteSet(S) /\ OfChannels(S, C) /\ OneEach(S)
<1> DEFINE All == {EdgeFromLocal(ch) : ch \in C} \cup {EdgeFromAdvertised(ch) : ch \in C}
<1>1. IsFiniteSet(All)
  <2>1. IsFiniteSet({EdgeFromLocal(ch) : ch \in C}) /\ IsFiniteSet({EdgeFromAdvertised(ch) : ch \in C})
    <3> DEFINE f == [ch \in C |-> EdgeFromLocal(ch)]
               g == [ch \in C |-> EdgeFromAdvertised(ch)]
    <3>1. f = [ch \in C |-> f[ch]] /\ {f[ch] : ch \in C} = {EdgeFromLocal(ch) : ch \in C}
      OBVIOUS
    <3>2. g = [ch \in C |-> g[ch]] /\ {g[ch] : ch \in C} = {EdgeFromAdvertised(ch) : ch \in C}
      OBVIOUS
    <3> HIDE DEF f, g
    <3>3. IsFiniteSet({f[ch] : ch \in C}) /\ IsFiniteSet({g[ch] : ch \in C})
      BY <3>1, <3>2, ImageIsFinite
    <3> QED BY <3>1, <3>2, <3>3
  <2> QED BY <2>1, FS_Union
<1>2. /\ S \subseteq All /\ OfChannels(S, C)
      /\ \A id \in {ch.id : ch \in C} : Cardinality({e \in S : e.id = id}) = 1
  <2> DEFINE copies(id) == {ch \in C : ch.id = id}
             local(id) == {ch \in copies(id) : ch.owner = Self}
             candidates(id) == IF local(id) # {} THEN {EdgeFromLocal(ch) : ch \in local(id)}
                               ELSE {EdgeFromAdvertised(ch) : ch \in copies(id)}
             ids == {ch.id : ch \in C}
  <2>1. S \in SUBSET UNION {candidates(id) : id \in ids}
        /\ \A id \in ids : Cardinality({e \in S : e.id = id}) = 1
    BY DEF Merges
  <2>2. \A id : candidates(id) \subseteq All
    OBVIOUS
  <2>3. ASSUME NEW id PROVE OfChannels(candidates(id), C)
    <3>1. CASE local(id) # {}
      <4>1. \A ch \in local(id) : ch \in C /\ ch.owner = Self
        OBVIOUS
      <4>2. candidates(id) = {EdgeFromLocal(ch) : ch \in local(id)}
        BY <3>1
      <4> HIDE DEF local, candidates
      <4> QED BY <4>1, <4>2 DEF OfChannels
    <3>2. CASE local(id) = {}
      <4>1. \A ch \in copies(id) : ch \in C /\ ch.owner # Self
        BY <3>2
      <4>2. candidates(id) = {EdgeFromAdvertised(ch) : ch \in copies(id)}
        BY <3>2
      <4> HIDE DEF copies, candidates
      <4> QED BY <4>1, <4>2 DEF OfChannels
    <3> QED BY <3>1, <3>2
  <2> HIDE DEF candidates, All
  <2>4. OfChannels(S, C)
    BY <2>1, <2>3 DEF OfChannels
  <2> QED BY <2>1, <2>2, <2>4
<1>3. IsFiniteSet(S)
  BY <1>1, <1>2, FS_Subset
<1>5. ASSUME NEW e \in S, NEW f \in S, e.id = f.id PROVE e = f
  <2> DEFINE T == {g \in S : g.id = e.id}
  <2>1. e.id \in {ch.id : ch \in C}
    <3>1. \A ch : EdgeFromLocal(ch).id = ch.id /\ EdgeFromAdvertised(ch).id = ch.id
      BY DEF EdgeFromLocal, EdgeFromAdvertised
    <3> QED BY <1>2, <3>1
  <2>2. IsFiniteSet(T) /\ Cardinality(T) = 1
    BY <1>2, <1>3, <2>1, FS_Subset
  <2>3. PICK g : T = {g}
    <3> HIDE DEF T
    <3> QED BY <2>2, FS_Singleton
  <2>4. e \in T /\ f \in T
    BY <1>5
  <2> QED BY <2>3, <2>4
<1> QED BY <1>2, <1>3, <1>5 DEF OneEach

(* An address without a channel is neither left nor reached. *)
LEMMA NoEnds ==
  ASSUME NEW S, NEW q, q.hops \in Nat, q.payer # q.payee,
         ~ ({q.payer, q.payee} \subseteq {e.a : e \in S} \cup {e.b : e \in S})
  PROVE  q.payee \notin Layers(S, q)[q.hops]
<1> DEFINE L == Layers(S, q)
           Ends == {e.a : e \in S} \cup {e.b : e \in S}
           Fine(k) == L[k] \subseteq {q.payer} \cup Ends /\ (q.payer \notin Ends => L[k] = {q.payer})
           Wrong == {k \in 0 .. q.hops : ~ Fine(k)}
<1>1. Wrong = {}
  <2> SUFFICES ASSUME Wrong # {} PROVE FALSE
    OBVIOUS
  <2>1. PICK k \in Wrong : \A y \in Wrong : k <= y
    <3>1. Wrong \in SUBSET Nat
      OBVIOUS
    <3> HIDE DEF Wrong
    <3> QED BY <3>1, LeastOf
  <2>2. k # 0
    <3>1. L[0] = {q.payer}
      BY LayersAre
    <3> QED BY <2>1, <3>1
  <2>3. k \in 1 .. q.hops /\ k - 1 \in 0 .. q.hops /\ ~ (k <= k - 1)
    BY <2>1, <2>2
  <2>4. Fine(k - 1)
    BY <2>1, <2>3
  <2>5. L[k] = Around(S, q.amount, L[k - 1])
    BY <2>3, LayersAre
  <2>6. \A x, e : e \in Usable(S, q.amount, x) => x \in Ends /\ Other(e, x) \in Ends
    BY DEF Usable, Other
  <2>7. Fine(k)
    <3> HIDE DEF L, Ends
    <3> QED BY <2>4, <2>5, <2>6 DEF Around
  <2> QED BY <2>1, <2>7
<1>2. Fine(q.hops)
  BY <1>1
<1> QED BY <1>2

(* What lies nearer than all that is queued was seen. *)
LEMMA Covered ==
  ASSUME NEW S, NEW q, NEW paths, NEW wait, SearchOk(S, q, paths, wait), q.hops \in Nat,
         NEW n \in 0 .. q.hops,
         \A i \in DOMAIN wait : n <= Depth(paths, wait[i])
  PROVE  \A y \in Layers(S, q)[n] : y \in DOMAIN paths /\ Depth(paths, y) <= n
<1> DEFINE L == Layers(S, q)
           Fine(k) == \A y \in L[k] : y \in DOMAIN paths /\ Depth(paths, y) <= k
           Wrong == {k \in 0 .. n : ~ Fine(k)}
<1>0. \A x \in DOMAIN paths : Depth(paths, x) \in Nat
  BY DEF SearchOk, Shortest, Depth
<1>1. Wrong = {}
  <2> SUFFICES ASSUME Wrong # {} PROVE FALSE
    OBVIOUS
  <2>1. PICK k \in Wrong : \A y \in Wrong : k <= y
    <3>1. Wrong \in SUBSET Nat
      OBVIOUS
    <3> HIDE DEF Wrong
    <3> QED BY <3>1, LeastOf
  <2>2. k # 0
    <3>1. L[0] = {q.payer}
      BY LayersAre
    <3>2. q.payer \in DOMAIN paths /\ Depth(paths, q.payer) = 0
      BY DEF SearchOk, Depth
    <3> QED BY <2>1, <3>1, <3>2
  <2>3. k \in 1 .. q.hops /\ k - 1 \in 0 .. n /\ ~ (k <= k - 1) /\ k <= n /\ k \in Nat
    BY <2>1, <2>2
  <2>4. Fine(k - 1)
    BY <2>1, <2>3
  <2>5. L[k] = Around(S, q.amount, L[k - 1])
    BY <2>3, LayersAre
  <2>6. ASSUME NEW x \in L[k - 1], NEW e \in Usable(S, q.amount, x)
        PROVE  Other(e, x) \in DOMAIN paths /\ Depth(paths, Other(e, x)) <= k
    <3>1. x \in DOMAIN paths /\ Depth(paths, x) <= k - 1 /\ Depth(paths, x) \in Nat
      BY <1>0, <2>4
    <3>2. \A i \in DOMAIN wait : wait[i] # x
      BY <2>3, <3>1
    <3>3. x \in Visited(paths, wait) /\ Depth(paths, x) < q.hops
      BY <2>3, <3>1, <3>2 DEF Visited
    <3>4. Other(e, x) \in DOMAIN paths /\ Depth(paths, Other(e, x)) <= Depth(paths, x) + 1
      BY <3>3 DEF SearchOk, NearBy
    <3> QED BY <1>0, <2>3, <3>1, <3>4
  <2>7. \A y \in L[k - 1] : y \in DOMAIN paths /\ Depth(paths, y) <= k
    BY <1>0, <2>3, <2>4
  <2>8. Fine(k)
    <3> HIDE DEF L
    <3> QED BY <2>5, <2>6, <2>7 DEF Around
  <2> QED BY <2>1, <2>8
<1>2. Fine(n)
  BY <1>1
<1> QED BY <1>2

LEMMA Permuted ==
  ASSUME NEW F, IsFiniteSet(F), NEW order \in SetToAllKPermutations(F), Len(order) = Cardinality(F)
  PROVE  /\ order \in Seq(F)
         /\ \A i, j \in 1 .. Len(order) : i # j => order[i] # order[j]
         /\ \A y \in F : \E i \in 1 .. Len(order) : order[i] = y
<1>1. PICK s \in SUBSET F : order \in SetToSeqs(s)
  BY DEF SetToAllKPermutations
<1>2. IsFiniteSet(s) /\ Cardinality(s) \in Nat /\ Cardinality(F) \in Nat
  BY FS_Subset, FS_CardinalityType
<1> DEFINE c == Cardinality(s)
<1>3. order \in [1 .. c -> s] /\ \A i, j \in 1 .. c : i # j => order[i] # order[j]
  BY <1>1 DEF SetToSeqs
<1> HIDE DEF c
<1>4. c \in Nat /\ order \in Seq(F) /\ Len(order) = c
  BY <1>2, <1>3 DEF c
<1>5. s = F
  BY <1>4, FS_Subset DEF c
<1>6. order \in Injection(1 .. c, F)
  BY <1>3, <1>5 DEF Injection, IsInjective
<1>7. IsFiniteSet(1 .. c) /\ Cardinality(1 .. c) = c
  BY <1>4, FS_Interval
<1>8. order \in Surjection(1 .. c, F)
  BY <1>4, <1>6, <1>7, FS_Injection
<1>9. \A y \in F : \E i \in 1 .. c : order[i] = y
  BY <1>8 DEF Surjection
<1> QED BY <1>3, <1>4, <1>9

-----------------------------------------------------------------------------
LEMMA RoutingStarts == ASSUME RoutingInit PROVE RoutingInv
<1>1. query \in Queries /\ edges = {} /\ queue = << >> /\ reached = << >>
      /\ stage = "asked" /\ plan = NoPlan
  BY DEF RoutingInit
<1>2. IsFiniteSet(edges) /\ EdgesInv
  BY <1>1, FS_EmptySet DEF EdgesInv, OfChannels, OneEach
<1>3. RoutingTypeOK
  BY <1>1 DEF RoutingTypeOK, NoPlan
<1> QED BY <1>1, <1>2, <1>3 DEF RoutingInv

LEMMA GraphIsBuilt == ASSUME RoutingInv, BuildGraph PROVE RoutingInv'
<1>0. stage = "asked" /\ query \in Queries /\ UNCHANGED <<query, plan>> /\ plan = NoPlan
  BY DEF BuildGraph, RoutingInv, EdgesInv
<1>1. /\ query.payer # query.payee /\ query.hops \in Nat /\ IsFiniteSet(query.channels)
  BY <1>0, QueryIs
<1>2. PICK S \in Merges(query.channels) : edges' = LargeEnough(S, query.amount)
  BY DEF BuildGraph
<1>3. queue' = <<query.payer>> /\ reached' = [x \in {query.payer} |-> << >>]
  BY DEF BuildGraph
<1>4. IsFiniteSet(S) /\ OfChannels(S, query.channels) /\ OneEach(S)
  BY <1>1, MergedEdges
<1>5. edges' \subseteq S
  BY <1>2 DEF LargeEnough
<1>6. IsFiniteSet(edges') /\ OfChannels(edges', query.channels) /\ OneEach(edges')
  BY <1>4, <1>5, FS_Subset DEF OfChannels, OneEach
<1>7. EdgesInv'
  BY <1>0, <1>6 DEF EdgesInv
<1>8. \/ query.route # << >> /\ stage' = "walk"
      \/ query.route = << >> /\ stage' = "search"
      \/ /\ query.route = << >> /\ stage' = "none"
         /\ ~ ({query.payer, query.payee} \subseteq {e.a : e \in edges'} \cup {e.b : e \in edges'})
  BY DEF BuildGraph
<1>9. RoutingTypeOK'
  <2>1. \A e, f \in edges' : e.id = f.id => e = f
    BY <1>6 DEF OneEach
  <2>2. \A x \in DOMAIN reached' : Len(reached'[x]) <= query'.hops
    BY <1>0, <1>1, <1>3
  <2>3. \A i, j \in DOMAIN queue' : i # j => queue'[i] # queue'[j]
    BY <1>3
  <2>4. \A h \in plan'.hops : DOMAIN h = {"channel", "from", "to", "via"}
    BY <1>0 DEF NoPlan
  <2>5. stage' \in {"asked", "search", "walk", "found", "none", "planned", "refused"}
    BY <1>8
  <2> QED BY <1>0, <2>1, <2>2, <2>3, <2>4, <2>5 DEF RoutingTypeOK
<1>10. stage' = "search" => SearchInv'
  <2> SUFFICES ASSUME stage' = "search" PROVE SearchInv'
    OBVIOUS
  <2>1. query'.route = << >>
    BY <1>0, <1>8
  <2>2. QueueOk(reached', queue')
    <3>1. DOMAIN queue' = {1} /\ queue' \in Seq(DOMAIN reached')
      BY <1>3
    <3> QED BY <3>1 DEF QueueOk
  <2>3. query'.payer \in DOMAIN reached' /\ reached'[query'.payer] = << >>
    BY <1>0, <1>3
  <2>4. \A x \in DOMAIN reached' : Shortest(edges', query', reached'[x], x)
    <3>1. << >> \in Seq(edges') /\ Len(<< >>) = 0
      OBVIOUS
    <3>2. Carries(<< >>, query.payer, query.payer, query.amount)
      <4>1. Walk(query.payer, << >>)[1] = query.payer
        BY <3>1, WalkIs
      <4> QED BY <4>1 DEF Carries
    <3>3. Shortest(edges', query', << >>, query.payer)
      BY <1>0, <1>1, <3>1, <3>2 DEF Shortest
    <3> QED BY <1>3, <3>3
  <2>5. Visited(reached', queue') = {}
    <3>1. 1 \in DOMAIN queue' /\ queue'[1] = query.payer /\ DOMAIN reached' = {query.payer}
      BY <1>3
    <3> QED BY <3>1 DEF Visited
  <2> QED BY <2>1, <2>2, <2>3, <2>4, <2>5 DEF SearchInv, SearchOk
<1>11. query'.route = << >> => stage' # "refused" /\ (stage' = "none" => Nowhere')
  BY <1>0, <1>1, <1>8, NoEnds DEF Nowhere
<1> QED BY <1>0, <1>7, <1>8, <1>9, <1>10, <1>11 DEF RoutingInv

LEMMA SearchGivesUp == ASSUME RoutingInv, GiveUp PROVE RoutingInv'
<1>1. /\ stage = "search" /\ queue = << >> /\ stage' = "none"
      /\ UNCHANGED <<query, edges, queue, reached, plan>> /\ SearchInv /\ plan = NoPlan
  BY DEF GiveUp, RoutingInv
<1>2. query \in Queries /\ query.hops \in Nat /\ query.hops \in 0 .. query.hops
  BY QueryIs DEF RoutingInv, EdgesInv
<1>3. Nowhere
  <2>1. \A i \in DOMAIN queue : query.hops <= Depth(reached, queue[i])
    BY <1>1
  <2>2. query.payee \in Layers(edges, query)[query.hops] => query.payee \in DOMAIN reached
    BY <1>1, <1>2, <2>1, Covered DEF SearchInv
  <2>3. query.payee \in DOMAIN reached => query.payee \in Visited(reached, queue)
    BY <1>1 DEF Visited
  <2> QED BY <1>1, <2>2, <2>3 DEF SearchInv, SearchOk, Nowhere
<1>4. Nowhere' /\ EdgesInv' /\ RoutingTypeOK'
  BY <1>1, <1>3 DEF Nowhere, RoutingInv, EdgesInv, RoutingTypeOK
<1> QED BY <1>1, <1>4 DEF RoutingInv

LEMMA RouteIsWalked == ASSUME RoutingInv, WalkRoute PROVE RoutingInv'
<1> DEFINE path == [i \in DOMAIN query.route |-> CHOOSE e \in edges : e.id = query.route[i]]
<1>1. /\ stage = "walk" /\ query.route # << >> /\ plan = NoPlan
      /\ UNCHANGED <<query, edges, queue, plan>>
  BY DEF WalkRoute, RoutingInv
<1>2. \/ /\ ToSet(query.route) \subseteq {e.id : e \in edges}
         /\ Carries(path, query.payer, query.payee, query.amount)
         /\ stage' = "found" /\ reached' = [x \in {query.payee} |-> path]
      \/ stage' = "none" /\ UNCHANGED reached
  BY DEF WalkRoute
<1>3. EdgesInv' /\ RoutingTypeOK'
  <2>1. EdgesInv'
    BY <1>1 DEF RoutingInv, EdgesInv
  <2>2. RoutingTypeOK'
    BY <1>1, <1>2 DEF RoutingInv, RoutingTypeOK
  <2> QED BY <2>1, <2>2
<1>4. stage' = "found" => FoundInv'
  <2> SUFFICES ASSUME stage' = "found" PROVE FoundInv'
    OBVIOUS
  <2>1. /\ ToSet(query.route) \subseteq {e.id : e \in edges}
        /\ Carries(path, query.payer, query.payee, query.amount)
        /\ reached' = [x \in {query.payee} |-> path]
    BY <1>2
  <2>2. query.route \in Seq(ToSet(query.route))
    BY QueryIs DEF RoutingInv, EdgesInv
  <2>3. \A i \in DOMAIN query.route : path[i] \in edges
    <3> TAKE i \in DOMAIN query.route
    <3>1. \E e \in edges : e.id = query.route[i]
      BY <2>1 DEF ToSet
    <3> QED BY <3>1
  <2>4. path \in Seq(edges)
    <3>1. DOMAIN query.route = 1 .. Len(query.route) /\ Len(query.route) \in Nat
      BY <2>2
    <3>2. path = [i \in 1 .. Len(query.route) |-> path[i]]
      BY <3>1
    <3> HIDE DEF path
    <3> QED BY <2>3, <3>1, <3>2
  <2>5. query'.payee \in DOMAIN reached' /\ reached'[query'.payee] = path
    BY <1>1, <2>1
  <2> HIDE DEF path
  <2> QED BY <1>1, <2>1, <2>4, <2>5 DEF FoundInv
<1> HIDE DEF path
<1> QED BY <1>1, <1>2, <1>3, <1>4 DEF RoutingInv

-----------------------------------------------------------------------------
(* The neighbours of an address are queued after all that was queued.      *)
Queued(S, q, paths, wait, fresh, via, order, paths2, wait2) ==
  /\ wait # << >> /\ Head(wait) # q.payee /\ Len(paths[Head(wait)]) < q.hops
  /\ fresh = {Other(e, Head(wait)) : e \in Usable(S, q.amount, Head(wait))} \ DOMAIN paths
  /\ via \in [fresh -> Usable(S, q.amount, Head(wait))]
  /\ \A y \in fresh : Other(via[y], Head(wait)) = y
  /\ order \in SetToAllKPermutations(fresh) /\ Len(order) = Cardinality(fresh)
  /\ wait2 = Tail(wait) \o order
  /\ paths2 = [y \in DOMAIN paths \cup fresh |->
                 IF y \in fresh THEN Append(paths[Head(wait)], via[y]) ELSE paths[y]]

LEMMA NeighboursQueued ==
  ASSUME NEW S, NEW q, NEW paths, NEW wait, SearchOk(S, q, paths, wait),
         IsFiniteSet(S), q.hops \in Nat,
         NEW fresh, NEW via, NEW order, NEW paths2, NEW wait2,
         Queued(S, q, paths, wait, fresh, via, order, paths2, wait2)
  PROVE  SearchOk(S, q, paths2, wait2)
<1>q. PICK x : /\ x = Head(wait) /\ wait # << >> /\ x # q.payee /\ Len(paths[x]) < q.hops
               /\ fresh = {Other(e, x) : e \in Usable(S, q.amount, x)} \ DOMAIN paths
               /\ via \in [fresh -> Usable(S, q.amount, x)] /\ \A y \in fresh : Other(via[y], x) = y
               /\ order \in SetToAllKPermutations(fresh) /\ Len(order) = Cardinality(fresh)
               /\ wait2 = Tail(wait) \o order
               /\ paths2 = [y \in DOMAIN paths \cup fresh |->
                              IF y \in fresh THEN Append(paths[x], via[y]) ELSE paths[y]]
  BY DEF Queued
<1> DEFINE n == Len(wait)
           m == Len(order)
           d == Len(paths[x])
<1>1. /\ wait \in Seq(DOMAIN paths) /\ n \in Nat /\ n >= 1 /\ DOMAIN wait = 1 .. n /\ wait[1] = x
      /\ x \in DOMAIN paths
  <2>1. wait \in Seq(DOMAIN paths)
    BY DEF SearchOk, QueueOk
  <2>2. x = Head(wait) /\ wait # << >>
    BY <1>q
  <2> QED BY <2>1, <2>2
<1>2. \A y \in DOMAIN paths : Shortest(S, q, paths[y], y) /\ Depth(paths, y) \in Nat
  BY DEF SearchOk, Shortest, Depth
<1>3. d \in Nat /\ d = Depth(paths, x) /\ d < q.hops /\ paths[x] \in Seq(S)
  BY <1>q, <1>1, <1>2 DEF Depth, Shortest
<1>4. IsFiniteSet(fresh)
  <2> DEFINE U == Usable(S, q.amount, x)
             f == [e \in U |-> Other(e, x)]
  <2>1. IsFiniteSet(U)
    BY FS_Subset DEF Usable
  <2>2. f = [e \in U |-> f[e]] /\ {f[e] : e \in U} = {Other(e, x) : e \in U}
    OBVIOUS
  <2> HIDE DEF f, U
  <2>3. IsFiniteSet({f[e] : e \in U})
    BY <2>1, <2>2, ImageIsFinite
  <2>4. fresh \subseteq {f[e] : e \in U}
    BY <1>q, <2>2 DEF U
  <2> QED BY <2>3, <2>4, FS_Subset
<1>5. /\ order \in Seq(fresh) /\ m \in Nat /\ \A i \in 1 .. m : order[i] \in fresh
      /\ \A i, j \in 1 .. m : i # j => order[i] # order[j]
      /\ \A y \in fresh : \E i \in 1 .. m : order[i] = y
  <2>1. /\ order \in Seq(fresh) /\ \A i, j \in 1 .. m : i # j => order[i] # order[j]
        /\ \A y \in fresh : \E i \in 1 .. m : order[i] = y
    <3>1. order \in SetToAllKPermutations(fresh) /\ Len(order) = Cardinality(fresh)
      BY <1>q
    <3> QED BY <1>4, <3>1, Permuted
  <2>2. m \in Nat /\ \A i \in 1 .. m : order[i] \in fresh
    BY <2>1
  <2> QED BY <2>1, <2>2
<1>6. /\ DOMAIN paths2 = DOMAIN paths \cup fresh
      /\ \A y \in DOMAIN paths : y \notin fresh /\ paths2[y] = paths[y]
      /\ \A y \in fresh : paths2[y] = Append(paths[x], via[y])
  BY <1>q
<1>7. /\ \A y \in DOMAIN paths : Depth(paths2, y) = Depth(paths, y)
      /\ \A y \in fresh : Depth(paths2, y) = d + 1 /\ via[y] \in S
  <2>1. \A y \in DOMAIN paths : Depth(paths2, y) = Depth(paths, y)
    BY <1>6 DEF Depth
  <2>2. ASSUME NEW y \in fresh PROVE Depth(paths2, y) = d + 1 /\ via[y] \in S
    <3>1. via[y] \in S
      BY <1>q DEF Usable
    <3>2. Len(Append(paths[x], via[y])) = d + 1
      BY <1>3, <3>1
    <3> QED BY <1>6, <3>1, <3>2 DEF Depth
  <2> QED BY <2>1, <2>2
<1>8. /\ wait2 \in Seq(DOMAIN paths2) /\ Len(wait2) = n - 1 + m /\ DOMAIN wait2 = 1 .. n - 1 + m
      /\ \A i \in 1 .. n - 1 : wait2[i] = wait[i + 1] /\ i + 1 \in 1 .. n
      /\ \A i \in 1 .. m : wait2[n - 1 + i] = order[i]
  <2> DEFINE t == Tail(wait)
             D == DOMAIN paths \cup fresh
  <2>1. t \in Seq(D) /\ Len(t) = n - 1 /\ \A i \in 1 .. n - 1 : t[i] = wait[i + 1] /\ i + 1 \in 1 .. n
    <3>1. wait \in Seq(D)
      <4>1. \A i \in 1 .. n : wait[i] \in D
        BY <1>1
      <4>2. wait = [i \in 1 .. n |-> wait[i]]
        BY <1>1
      <4> HIDE DEF D, n
      <4> QED BY <1>1, <4>1, <4>2
    <3> HIDE DEF D
    <3> QED BY <1>1, <3>1
  <2>2. order \in Seq(D)
    <3>1. \A i \in 1 .. m : order[i] \in D
      BY <1>5
    <3>2. order = [i \in 1 .. m |-> order[i]]
      BY <1>5
    <3> HIDE DEF D, m
    <3> QED BY <1>5, <3>1, <3>2
  <2> HIDE DEF t, D
  <2>3. t \o order \in Seq(D) /\ Len(t \o order) = Len(t) + m
    <3>1. t \in Seq(D)
      BY <2>1
    <3> QED BY <2>2, <3>1
  <2>4. \A i \in 1 .. n - 1 : (t \o order)[i] = t[i]
    BY <1>1, <2>1, <2>2
  <2>5. \A i \in 1 .. m : (t \o order)[n - 1 + i] = order[i]
    <3>1. t \in Seq(D) /\ order \in Seq(D) /\ Len(t) \in Nat /\ m \in Nat /\ n - 1 = Len(t)
      BY <1>1, <1>5, <2>1, <2>2
    <3> HIDE DEF n
    <3>2. \A i \in 1 .. m : (t \o order)[Len(t) + i] = order[i]
      BY <3>1
    <3> QED BY <3>1, <3>2
  <2>6. wait2 = t \o order /\ D = DOMAIN paths2
    BY <1>q, <1>6 DEF t, D
  <2>7. DOMAIN wait2 = 1 .. n - 1 + m
    BY <2>1, <2>3, <2>6
  <2> HIDE DEF n, m
  <2> QED BY <2>1, <2>3, <2>4, <2>5, <2>6, <2>7
<1> HIDE DEF n, m, d
<1>9. \A k \in 1 .. n - 1 + m : \/ k \in 1 .. n - 1
                               \/ \E i \in 1 .. m : k = n - 1 + i
  <2> TAKE k \in 1 .. n - 1 + m
  <2>1. CASE k <= n - 1
    BY <1>1, <1>5, <2>1
  <2>2. CASE ~ (k <= n - 1)
    <3>1. k - (n - 1) \in 1 .. m /\ k = n - 1 + (k - (n - 1))
      BY <1>1, <1>5, <2>2
    <3> QED BY <3>1
  <2> QED BY <2>1, <2>2
<1>10. \A i \in 1 .. n : wait[i] \in DOMAIN paths /\ Depth(paths, wait[i]) \in Nat
                        /\ d <= Depth(paths, wait[i]) /\ Depth(paths, wait[i]) <= d + 1
  <2> TAKE i \in 1 .. n
  <2>1. wait[i] \in DOMAIN paths /\ Depth(paths, wait[i]) \in Nat
    BY <1>1, <1>2
  <2>2. i = 1 \/ 1 < i
    BY <1>1
  <2>3. 1 \in 1 .. n
    BY <1>1
  <2>4. 1 < i => Depth(paths, x) <= Depth(paths, wait[i]) /\ Depth(paths, wait[i]) <= Depth(paths, x) + 1
    BY <1>1, <2>3 DEF SearchOk, QueueOk
  <2> QED BY <1>1, <1>3, <2>1, <2>2, <2>4
<1>11. \A k \in 1 .. n - 1 : wait2[k] \in DOMAIN paths /\ Depth(paths2, wait2[k]) = Depth(paths, wait[k + 1])
  BY <1>7, <1>8, <1>10
<1>12. \A k \in 1 .. m : wait2[n - 1 + k] \in fresh /\ Depth(paths2, wait2[n - 1 + k]) = d + 1
  BY <1>5, <1>7, <1>8
<1>13. ASSUME NEW i \in DOMAIN wait2, NEW j \in DOMAIN wait2, i < j
       PROVE  /\ wait2[i] # wait2[j]
              /\ Depth(paths2, wait2[i]) <= Depth(paths2, wait2[j]) /\ Depth(paths2, wait2[j]) <= Depth(paths2, wait2[i]) + 1
  <2>0. i \in 1 .. n - 1 + m /\ j \in 1 .. n - 1 + m
    BY <1>8
  <2>1. CASE i \in 1 .. n - 1 /\ j \in 1 .. n - 1
    <3>1. i + 1 \in 1 .. n /\ j + 1 \in 1 .. n /\ i + 1 < j + 1 /\ i + 1 # j + 1
      BY <1>1, <1>13, <2>1
    <3>2. /\ wait[i + 1] # wait[j + 1]
          /\ Depth(paths, wait[i + 1]) <= Depth(paths, wait[j + 1]) /\ Depth(paths, wait[j + 1]) <= Depth(paths, wait[i + 1]) + 1
      BY <1>1, <3>1 DEF SearchOk, QueueOk
    <3> QED BY <1>8, <1>11, <2>1, <3>2
  <2>2. ASSUME i \in 1 .. n - 1, NEW k \in 1 .. m, j = n - 1 + k
        PROVE  /\ wait2[i] # wait2[j]
               /\ Depth(paths2, wait2[i]) <= Depth(paths2, wait2[j]) /\ Depth(paths2, wait2[j]) <= Depth(paths2, wait2[i]) + 1
    <3>1. wait2[i] # wait2[j]
      BY <1>6, <1>11, <1>12, <2>2
    <3>2. Depth(paths2, wait2[j]) = d + 1 /\ Depth(paths2, wait2[i]) = Depth(paths, wait[i + 1]) /\ i + 1 \in 1 .. n
      BY <1>8, <1>11, <1>12, <2>2
    <3>3. d <= Depth(paths2, wait2[i]) /\ Depth(paths2, wait2[i]) <= d + 1 /\ Depth(paths2, wait2[i]) \in Nat
      BY <1>10, <3>2
    <3> QED BY <1>3, <3>1, <3>2, <3>3
  <2>3. ASSUME NEW k \in 1 .. m, i = n - 1 + k, NEW l \in 1 .. m, j = n - 1 + l
        PROVE  /\ wait2[i] # wait2[j]
               /\ Depth(paths2, wait2[i]) <= Depth(paths2, wait2[j]) /\ Depth(paths2, wait2[j]) <= Depth(paths2, wait2[i]) + 1
    <3>1. k # l
      <4>1. i # j /\ (k = l => i = j)
        BY <1>1, <1>8, <1>13, <2>3
      <4> QED BY <4>1
    <3>2. wait2[i] # wait2[j]
      BY <1>5, <1>8, <2>3, <3>1
    <3> QED BY <1>3, <1>12, <2>3, <3>2
  <2>4. ASSUME NEW k \in 1 .. m, i = n - 1 + k, j \in 1 .. n - 1 PROVE FALSE
    BY <1>1, <1>5, <1>13, <2>4
  <2> QED BY <1>9, <2>0, <2>1, <2>2, <2>3, <2>4
<1>14. QueueOk(paths2, wait2)
  <2>1. \A i, j \in DOMAIN wait2 : i # j => wait2[i] # wait2[j]
    <3>1. ASSUME NEW i \in DOMAIN wait2, NEW j \in DOMAIN wait2, i # j
          PROVE  wait2[i] # wait2[j]
      <4>1. i < j \/ j < i
        BY <1>1, <1>5, <1>8, <3>1
      <4> QED BY <1>13, <4>1
    <3> QED BY <3>1
  <2>2. \A i, j \in DOMAIN wait2 : i < j => /\ Depth(paths2, wait2[i]) <= Depth(paths2, wait2[j])
                                             /\ Depth(paths2, wait2[j]) <= Depth(paths2, wait2[i]) + 1
    BY <1>13
  <2> QED BY <1>8, <2>1, <2>2 DEF QueueOk
<1>15. \A y \in DOMAIN paths2 : Shortest(S, q, paths2[y], y)
  <2>1. ASSUME NEW y \in fresh PROVE Shortest(S, q, paths2[y], y)
    <3> DEFINE e == via[y]
               path == paths[x]
               longer == Append(path, e)
    <3>1. /\ e \in S /\ x \in {e.a, e.b} /\ CanSend(e, x, q.amount) /\ Other(e, x) = y
      BY <1>q DEF Usable
    <3>2. path \in Seq(S) /\ Carries(path, q.payer, x, q.amount) /\ Len(path) = d
      BY <1>1, <1>2 DEF Shortest, d
    <3> HIDE DEF e, path
    <3>3. /\ longer \in Seq(S) /\ Len(longer) = d + 1 /\ DOMAIN longer = 1 .. d + 1
          /\ longer[d + 1] = e /\ \A i \in 1 .. d : longer[i] = path[i] /\ i \in DOMAIN path
      BY <1>3, <3>1, <3>2
    <3> DEFINE at == Walk(q.payer, path)
               ahead == Walk(q.payer, longer)
    <3>4. (\A i \in 1 .. d + 1 : ahead[i] = at[i]) /\ ahead[d + 2] = Other(e, at[d + 1])
      BY <3>1, <3>2, WalkOnce
    <3>5. /\ at[d + 1] = x
          /\ \A i \in DOMAIN path : at[i] \in {path[i].a, path[i].b} /\ CanSend(path[i], at[i], q.amount)
      BY <3>2 DEF Carries
    <3> HIDE DEF at, ahead, longer
    <3>6. \A i \in 1 .. d + 1 : /\ ahead[i] \in {longer[i].a, longer[i].b}
                               /\ CanSend(longer[i], ahead[i], q.amount)
      <4> TAKE i \in 1 .. d + 1
      <4>1. CASE i = d + 1
        BY <3>1, <3>3, <3>4, <3>5, <4>1
      <4>2. CASE i # d + 1
        <5>1. i \in 1 .. d
          BY <1>3, <4>2
        <5> QED BY <3>3, <3>4, <3>5, <5>1
      <4> QED BY <4>1, <4>2
    <3>7. Carries(longer, q.payer, y, q.amount)
      <4>1. d + 1 + 1 = d + 2
        BY <1>3
      <4> QED BY <3>1, <3>3, <3>4, <3>5, <3>6, <4>1 DEF Carries, ahead
    <3>8. y \notin Layers(S, q)[d]
      <4>1. d \in 0 .. q.hops
        BY <1>3
      <4>2. \A i \in DOMAIN wait : d <= Depth(paths, wait[i])
        BY <1>1, <1>10
      <4>3. \A z \in Layers(S, q)[d] : z \in DOMAIN paths
        BY <4>1, <4>2, Covered
      <4> QED BY <1>6, <4>3
    <3>9. d + 1 <= q.hops /\ d + 1 - 1 = d
      BY <1>3
    <3>10. Shortest(S, q, longer, y)
      <4>2. Len(longer) = d + 1
        BY <3>3
      <4>1. Len(longer) <= q.hops /\ Len(longer) - 1 = d
        BY <1>3, <3>9, <4>2
      <4> QED BY <3>3, <3>7, <3>8, <4>1 DEF Shortest
    <3> QED BY <1>6, <3>10 DEF longer, path, e
  <2>2. \A y \in DOMAIN paths : Shortest(S, q, paths2[y], y)
    BY <1>2, <1>6
  <2> QED BY <1>6, <2>1, <2>2
<1>16. ASSUME NEW v \in Visited(paths2, wait2)
       PROVE  /\ v \in DOMAIN paths /\ v # q.payee /\ Depth(paths, v) \in Nat /\ Depth(paths, v) <= d
              /\ v = x \/ v \in Visited(paths, wait)
  <2>1. v \in DOMAIN paths2 /\ \A i \in DOMAIN wait2 : wait2[i] # v
    BY DEF Visited
  <2>2. v \notin fresh
    <3>1. \A i \in 1 .. m : n - 1 + i \in DOMAIN wait2
      BY <1>1, <1>5, <1>8
    <3> QED BY <1>5, <1>8, <2>1, <3>1
  <2>3. v \in DOMAIN paths /\ Depth(paths, v) \in Nat
    BY <1>2, <1>6, <2>1, <2>2
  <2>4. ASSUME v # x PROVE v \in Visited(paths, wait)
    <3>1. ASSUME NEW i \in DOMAIN wait PROVE wait[i] # v
      <4>1. CASE i = 1
        BY <1>1, <2>4, <4>1
      <4>2. CASE i # 1
        <5>1. i - 1 \in 1 .. n - 1 /\ i - 1 + 1 = i
          BY <1>1, <4>2
        <5>2. i - 1 \in DOMAIN wait2
          BY <1>1, <1>5, <1>8, <5>1
        <5> QED BY <1>8, <2>1, <5>1, <5>2
      <4> QED BY <4>1, <4>2
    <3> QED BY <2>3, <3>1 DEF Visited
  <2>6. x # q.payee
    BY <1>q
  <2>5. v \in Visited(paths, wait) => v # q.payee /\ Depth(paths, v) <= d
    <3>1. 1 \in DOMAIN wait
      BY <1>1
    <3> QED BY <1>1, <1>3, <3>1 DEF SearchOk
  <2> QED BY <1>1, <1>3, <2>3, <2>4, <2>5, <2>6
<1>17. ASSUME NEW v \in Visited(paths2, wait2) PROVE NearBy(S, q, paths2, v)
  <2>1. v \in DOMAIN paths /\ Depth(paths2, v) = Depth(paths, v) /\ Depth(paths, v) \in Nat /\ Depth(paths, v) <= d
    BY <1>7, <1>16
  <2>2. CASE v = x
    <3>1. ASSUME NEW e \in Usable(S, q.amount, x)
          PROVE  Other(e, x) \in DOMAIN paths2 /\ Depth(paths2, Other(e, x)) <= d + 1
      <4>1. CASE Other(e, x) \in fresh
        BY <1>3, <1>6, <1>7, <4>1
      <4>2. CASE Other(e, x) \in Visited(paths, wait)
        <5>1. 1 \in DOMAIN wait
          BY <1>1
        <5>2. Depth(paths, Other(e, x)) <= d /\ Other(e, x) \in DOMAIN paths
          BY <1>1, <1>3, <4>2, <5>1 DEF SearchOk, Visited
        <5> QED BY <1>2, <1>3, <1>6, <1>7, <5>2
      <4>3. ASSUME NEW i \in DOMAIN wait, wait[i] = Other(e, x)
            PROVE  Other(e, x) \in DOMAIN paths2 /\ Depth(paths2, Other(e, x)) <= d + 1
        BY <1>1, <1>6, <1>7, <1>10, <4>3
      <4>4. Other(e, x) \in DOMAIN paths \/ Other(e, x) \in fresh
        BY <1>q
      <4> QED BY <4>1, <4>2, <4>3, <4>4 DEF Visited
    <3>2. Depth(paths2, x) = d
      BY <1>3, <2>1, <2>2
    <3> QED BY <2>2, <3>1, <3>2 DEF NearBy
  <2>3. CASE v \in Visited(paths, wait)
    <3>1. ASSUME Depth(paths, v) < q.hops, NEW e \in Usable(S, q.amount, v)
          PROVE  Other(e, v) \in DOMAIN paths2 /\ Depth(paths2, Other(e, v)) <= Depth(paths, v) + 1
      <4>1. Other(e, v) \in DOMAIN paths /\ Depth(paths, Other(e, v)) <= Depth(paths, v) + 1
        BY <2>3, <3>1 DEF SearchOk, NearBy
      <4> QED BY <1>6, <1>7, <4>1
    <3> QED BY <2>1, <3>1 DEF NearBy
  <2> QED BY <1>16, <2>2, <2>3
<1>18. ASSUME NEW v \in Visited(paths2, wait2), NEW k \in DOMAIN wait2 PROVE Depth(paths2, v) <= Depth(paths2, wait2[k])
  <2>1. Depth(paths2, v) = Depth(paths, v) /\ Depth(paths, v) \in Nat /\ Depth(paths, v) <= d
    BY <1>7, <1>16
  <2>2. Depth(paths2, wait2[k]) \in Nat /\ d <= Depth(paths2, wait2[k])
    <3>1. CASE k \in 1 .. n - 1
      BY <1>8, <1>10, <1>11, <3>1
    <3>2. ASSUME NEW i \in 1 .. m, k = n - 1 + i
          PROVE  Depth(paths2, wait2[k]) \in Nat /\ d <= Depth(paths2, wait2[k])
      BY <1>3, <1>12, <3>2
    <3> QED BY <1>8, <1>9, <3>1, <3>2
  <2> QED BY <1>3, <2>1, <2>2
<1>19. q.payer \in DOMAIN paths2 /\ paths2[q.payer] = << >> /\ q.route = << >>
  BY <1>6 DEF SearchOk
<1>20. \A v \in Visited(paths2, wait2) : v # q.payee
  BY <1>16
<1> QED BY <1>14, <1>15, <1>17, <1>18, <1>19, <1>20 DEF SearchOk

(* An address that is too far away is only taken from the queue.           *)
LEMMA TooFarIsDropped ==
  ASSUME NEW S, NEW q, NEW paths, NEW wait, SearchOk(S, q, paths, wait), q.hops \in Nat,
         wait # << >>, Head(wait) # q.payee, ~ (Len(paths[Head(wait)]) < q.hops)
  PROVE  SearchOk(S, q, paths, Tail(wait))
<1> DEFINE x == Head(wait)
           n == Len(wait)
           rest == Tail(wait)
<1>1. /\ wait \in Seq(DOMAIN paths) /\ n \in Nat /\ n >= 1 /\ DOMAIN wait = 1 .. n /\ wait[1] = x
      /\ x \in DOMAIN paths
  BY DEF SearchOk, QueueOk
<1>2. /\ rest \in Seq(DOMAIN paths) /\ DOMAIN rest = 1 .. n - 1
      /\ \A i \in 1 .. n - 1 : rest[i] = wait[i + 1] /\ i + 1 \in DOMAIN wait
  BY <1>1
<1> HIDE DEF x, n, rest
<1>3. QueueOk(paths, rest)
  <2>1. \A i, j \in DOMAIN wait : i # j => wait[i] # wait[j]
    BY DEF SearchOk, QueueOk
  <2>2. \A i, j \in DOMAIN wait :
          i < j => /\ Depth(paths, wait[i]) <= Depth(paths, wait[j])
                   /\ Depth(paths, wait[j]) <= Depth(paths, wait[i]) + 1
    BY DEF SearchOk, QueueOk
  <2>3. ASSUME NEW i \in DOMAIN rest, NEW j \in DOMAIN rest
        PROVE  /\ rest[i] = wait[i + 1] /\ rest[j] = wait[j + 1]
               /\ i + 1 \in DOMAIN wait /\ j + 1 \in DOMAIN wait
               /\ (i # j => i + 1 # j + 1) /\ (i < j => i + 1 < j + 1)
    <3>1. i \in 1 .. n - 1 /\ j \in 1 .. n - 1
      BY <1>2
    <3>2. (i # j => i + 1 # j + 1) /\ (i < j => i + 1 < j + 1)
      BY <1>1, <3>1
    <3> QED BY <1>2, <3>1, <3>2
  <2>4. \A i, j \in DOMAIN rest : i # j => rest[i] # rest[j]
    BY <2>1, <2>3
  <2>5. \A i, j \in DOMAIN rest :
          i < j => /\ Depth(paths, rest[i]) <= Depth(paths, rest[j])
                   /\ Depth(paths, rest[j]) <= Depth(paths, rest[i]) + 1
    BY <2>2, <2>3
  <2> QED BY <1>2, <2>4, <2>5 DEF QueueOk
<1>4. ASSUME NEW v \in Visited(paths, rest)
      PROVE  /\ v # q.payee /\ NearBy(S, q, paths, v)
             /\ \A i \in DOMAIN rest : Depth(paths, v) <= Depth(paths, rest[i])
  <2>1. v \in DOMAIN paths /\ \A i \in DOMAIN rest : rest[i] # v
    BY DEF Visited
  <2>2. CASE v = x
    <3>1. NearBy(S, q, paths, v)
      BY <2>2 DEF NearBy, Depth, x
    <3>2. \A i \in DOMAIN rest : Depth(paths, v) <= Depth(paths, rest[i])
      <4>1. \A i \in 1 .. n - 1 : 1 \in DOMAIN wait /\ i + 1 \in DOMAIN wait /\ 1 < i + 1
        BY <1>1, <1>2
      <4>2. \A i \in 1 .. n - 1 : Depth(paths, wait[1]) <= Depth(paths, wait[i + 1])
        BY <4>1 DEF SearchOk, QueueOk
      <4> QED BY <1>1, <1>2, <2>2, <4>2
    <3> QED BY <2>2, <3>1, <3>2 DEF x
  <2>3. CASE v # x
    <3>1. ASSUME NEW i \in DOMAIN wait PROVE wait[i] # v
      <4>1. CASE i = 1
        BY <1>1, <2>3, <4>1
      <4>2. CASE i # 1
        <5>1. i - 1 \in DOMAIN rest /\ i - 1 \in 1 .. n - 1 /\ i - 1 + 1 = i
          BY <1>1, <1>2, <4>2
        <5> QED BY <1>2, <2>1, <5>1
      <4> QED BY <4>1, <4>2
    <3>2. v \in Visited(paths, wait)
      BY <2>1, <3>1 DEF Visited
    <3>3. /\ v # q.payee /\ NearBy(S, q, paths, v)
          /\ \A i \in DOMAIN wait : Depth(paths, v) <= Depth(paths, wait[i])
      BY <3>2 DEF SearchOk
    <3> QED BY <1>2, <3>3
  <2> QED BY <2>2, <2>3
<1> QED BY <1>3, <1>4 DEF SearchOk, rest

LEMMA AddressIsVisited == ASSUME RoutingInv, VisitNext PROVE RoutingInv'
<1> DEFINE x == Head(queue)
<1>1. /\ stage = "search" /\ queue # << >> /\ UNCHANGED <<query, edges, plan>>
      /\ SearchInv /\ EdgesInv /\ RoutingTypeOK /\ plan = NoPlan
  BY DEF VisitNext, RoutingInv
<1>2. \/ x = query.payee /\ stage' = "found" /\ UNCHANGED <<queue, reached>>
      \/ /\ x # query.payee /\ Len(reached[x]) >= query.hops
         /\ queue' = Tail(queue) /\ UNCHANGED <<stage, reached>>
      \/ /\ x # query.payee /\ ~ (Len(reached[x]) >= query.hops) /\ UNCHANGED stage
         /\ \E fresh : \E via \in [fresh -> Usable(edges, query.amount, x)],
                         order \in SetToAllKPermutations(fresh) :
              /\ fresh = {Other(e, x) : e \in Usable(edges, query.amount, x)} \ DOMAIN reached
              /\ \A y \in fresh : Other(via[y], x) = y
              /\ Len(order) = Cardinality(fresh)
              /\ queue' = Tail(queue) \o order
              /\ reached' = [y \in DOMAIN reached \cup fresh |->
                               IF y \in fresh THEN Append(reached[x], via[y]) ELSE reached[y]]
  BY DEF VisitNext
<1>3. query.hops \in Nat /\ IsFiniteSet(edges) /\ query \in Queries
  BY <1>1, QueryIs DEF EdgesInv
<1>4. x \in DOMAIN reached /\ Shortest(edges, query, reached[x], x) /\ Len(reached[x]) \in Nat
  <2>1. queue \in Seq(DOMAIN reached)
    BY <1>1 DEF SearchInv, SearchOk, QueueOk
  <2>2. x \in DOMAIN reached
    BY <1>1, <2>1
  <2>3. Shortest(edges, query, reached[x], x)
    BY <1>1, <2>2 DEF SearchInv, SearchOk
  <2> QED BY <2>2, <2>3 DEF Shortest
<1>5. EdgesInv'
  BY <1>1 DEF EdgesInv
<1>6. ASSUME stage' = "search", SearchInv' PROVE RoutingInv'
  <2>1. RoutingTypeOK'
    <3>1. \A y \in DOMAIN reached' : Len(reached'[y]) <= query'.hops
      BY <1>6 DEF SearchInv, SearchOk, Shortest
    <3>2. \A i, j \in DOMAIN queue' : i # j => queue'[i] # queue'[j]
      BY <1>6 DEF SearchInv, SearchOk, QueueOk
    <3> QED BY <1>1, <1>6, <3>1, <3>2 DEF RoutingTypeOK
  <2> QED BY <1>1, <1>5, <1>6, <2>1 DEF RoutingInv
<1>7. CASE x = query.payee /\ stage' = "found" /\ UNCHANGED <<queue, reached>>
  <2>1. FoundInv
    BY <1>4, <1>7 DEF FoundInv, Shortest
  <2>2. FoundInv' /\ RoutingTypeOK'
    BY <1>1, <1>7, <2>1 DEF FoundInv, RoutingTypeOK
  <2> QED BY <1>1, <1>5, <1>7, <2>2 DEF RoutingInv
<1>8. CASE /\ x # query.payee /\ Len(reached[x]) >= query.hops
           /\ queue' = Tail(queue) /\ UNCHANGED <<stage, reached>>
  <2>1. ~ (Len(reached[x]) < query.hops)
    BY <1>3, <1>4, <1>8
  <2>2. SearchOk(edges, query, reached, Tail(queue))
    BY <1>1, <1>3, <1>8, <2>1, TooFarIsDropped DEF SearchInv
  <2>3. SearchInv'
    BY <1>1, <1>8, <2>2 DEF SearchInv
  <2> QED BY <1>1, <1>6, <1>8, <2>3
<1>9. ASSUME x # query.payee, ~ (Len(reached[x]) >= query.hops), UNCHANGED stage,
             NEW fresh, NEW via \in [fresh -> Usable(edges, query.amount, x)],
             NEW order \in SetToAllKPermutations(fresh),
             fresh = {Other(e, x) : e \in Usable(edges, query.amount, x)} \ DOMAIN reached,
             \A y \in fresh : Other(via[y], x) = y,
             Len(order) = Cardinality(fresh),
             queue' = Tail(queue) \o order,
             reached' = [y \in DOMAIN reached \cup fresh |->
                           IF y \in fresh THEN Append(reached[x], via[y]) ELSE reached[y]]
      PROVE  RoutingInv'
  <2>1. Len(reached[x]) < query.hops
    BY <1>3, <1>4, <1>9
  <2>2. Queued(edges, query, reached, queue, fresh, via, order, reached', queue')
    BY <1>1, <1>9, <2>1 DEF Queued
  <2> HIDE DEF x
  <2>3. SearchOk(edges, query, reached, queue)
    BY <1>1 DEF SearchInv
  <2>4. SearchOk(edges, query, reached', queue')
    BY <1>3, <2>2, <2>3, NeighboursQueued
  <2>5. SearchInv'
    BY <1>1, <2>4 DEF SearchInv
  <2> QED BY <1>1, <1>6, <1>9, <2>5
<1> HIDE DEF x
<1> QED BY <1>2, <1>7, <1>8, <1>9

LEMMA PaymentIsPlanned == ASSUME RoutingInv, PlanPayment PROVE RoutingInv'
<1> DEFINE path == reached[query.payee]
<1>1. /\ stage = "found" /\ UNCHANGED <<query, edges, queue, reached>>
      /\ FoundInv /\ EdgesInv /\ RoutingTypeOK /\ plan = NoPlan
  BY DEF PlanPayment, RoutingInv
<1>2. \/ /\ IsSimple(query.payer, path) /\ stage' = "planned" /\ plan' = PlanOf(path, query)
      \/ /\ ~ IsSimple(query.payer, path) /\ stage' = "refused" /\ UNCHANGED plan
  BY DEF PlanPayment, PlanOf
<1>3. EdgesInv' /\ FoundInv'
  BY <1>1 DEF EdgesInv, FoundInv
<1>4. CASE IsSimple(query.payer, path) /\ stage' = "planned" /\ plan' = PlanOf(path, query)
  <2>1. PlannedInv'
    BY <1>1, <1>4 DEF PlannedInv
  <2>2. RoutingTypeOK'
    <3>1. \A h \in plan'.hops : DOMAIN h = {"channel", "from", "to", "via"}
      BY <1>4 DEF PlanOf
    <3> QED BY <1>1, <1>4, <3>1 DEF RoutingTypeOK
  <2> QED BY <1>1, <1>3, <1>4, <2>1, <2>2 DEF RoutingInv
<1>5. CASE ~ IsSimple(query.payer, path) /\ stage' = "refused" /\ UNCHANGED plan
  <2>1. query.route # << >>
    <3> SUFFICES ASSUME query.route = << >> PROVE FALSE
      OBVIOUS
    <3>1. Shortest(edges, query, path, query.payee)
      BY <1>1 DEF FoundInv
    <3> HIDE DEF path
    <3>2. query.hops \in Nat /\ query.payer # query.payee
      BY <1>1, QueryIs DEF EdgesInv
    <3>3. /\ path \in Seq(edges) /\ Carries(path, query.payer, query.payee, query.amount)
          /\ Len(path) <= query.hops
          /\ path # << >> => query.payee \notin Layers(edges, query)[Len(path) - 1]
      BY <3>1 DEF Shortest
    <3>4. path # << >>
      <4> SUFFICES ASSUME path = << >> PROVE FALSE
        OBVIOUS
      <4>1. Len(path) + 1 = 1
        OBVIOUS
      <4>2. Walk(query.payer, path)[1] = query.payer
        BY <3>3, WalkIs
      <4> QED BY <3>2, <3>3, <4>1, <4>2 DEF Carries
    <3>5. \A e, f \in edges : e.id = f.id => e = f
      BY <1>1 DEF EdgesInv, OneEach
    <3>6. IsSimple(query.payer, path)
      BY <3>2, <3>3, <3>4, <3>5, ShortestIsSimple
    <3> QED BY <1>5, <3>6
  <2>2. RoutingTypeOK'
    BY <1>1, <1>5 DEF RoutingTypeOK
  <2> QED BY <1>1, <1>3, <1>5, <2>1, <2>2 DEF RoutingInv
<1> HIDE DEF path
<1> QED BY <1>2, <1>4, <1>5

LEMMA RoutingGoesOn ==
  ASSUME RoutingInv, [RoutingStep]_routingVars
  PROVE  RoutingInv'
<1>1. CASE UNCHANGED routingVars
  BY <1>1 DEF routingVars, RoutingInv, RoutingTypeOK, EdgesInv, SearchInv, FoundInv, PlannedInv, Nowhere
<1>2. CASE RoutingStep
  BY <1>2, GraphIsBuilt, AddressIsVisited, SearchGivesUp, RouteIsWalked, PaymentIsPlanned
  DEF RoutingStep
<1> QED BY <1>1, <1>2

-----------------------------------------------------------------------------
(* What the invariant says of a plan. *)

LEMMA PathIsNotEmpty ==
  ASSUME NEW S, NEW path \in Seq(S), NEW payer, NEW payee, NEW amount, payer # payee,
         Carries(path, payer, payee, amount)
  PROVE  path # << >>
<1> SUFFICES ASSUME path = << >> PROVE FALSE
  OBVIOUS
<1>1. Len(path) + 1 = 1
  OBVIOUS
<1>2. Walk(payer, path)[1] = payer
  BY WalkIs
<1> QED BY <1>1, <1>2 DEF Carries

LEMMA ReverseTwice ==
  ASSUME NEW s, NEW m \in Nat, m = Len(s), DOMAIN s = 1 .. m
  PROVE  /\ Reverse(Reverse(s)) = [i \in 1 .. m |-> s[i]] /\ Len(Reverse(s)) = m
         /\ IsInjective(s) => IsInjective(Reverse(s))
<1>1. m = Len(s) /\ DOMAIN s = 1 .. m
  OBVIOUS
<1> DEFINE r == Reverse(s)
<1>2. r = [i \in 1 .. m |-> s[m - i + 1]]
  BY <1>1, ReverseIs
<1> HIDE DEF r
<1>3. m = Len(r) /\ DOMAIN r = 1 .. m /\ \A i \in 1 .. m : r[i] = s[m - i + 1]
  BY <1>2
<1>4. Reverse(r) = [i \in 1 .. m |-> r[m - i + 1]]
  BY <1>3, ReverseIs
<1>5. \A i \in 1 .. m : m - i + 1 \in 1 .. m /\ m - (m - i + 1) + 1 = i
  OBVIOUS
<1>6. \A i \in 1 .. m : r[m - i + 1] = s[i]
  BY <1>3, <1>5
<1>7. Reverse(r) = [i \in 1 .. m |-> s[i]]
  BY <1>4, <1>6
<1>8. ASSUME IsInjective(s), NEW i \in 1 .. m, NEW j \in 1 .. m, r[i] = r[j] PROVE i = j
  <2>0. s[m - i + 1] = s[m - j + 1] /\ m - i + 1 \in DOMAIN s /\ m - j + 1 \in DOMAIN s
    BY <1>1, <1>3, <1>5, <1>8
  <2>1. m - i + 1 = m - j + 1
    BY <1>8, <2>0 DEF IsInjective
  <2> QED BY <2>1
<1>9. IsInjective(s) => IsInjective(r)
  BY <1>3, <1>8 DEF IsInjective
<1> QED BY <1>3, <1>7, <1>9 DEF r

LEMMA WholeMeiBelow ==
  ASSUME NEW z \in Nat
  PROVE  WholeMei(z) <= z /\ WholeMei(z) \in Nat
<1>1. \A u, k \in Nat : u > 0 => /\ (k \div u) * u <= k
                                 /\ (k \div u) * u \in Nat
  OBVIOUS
<1>2. MeiScale \in Nat /\ MeiScale > 0
  BY RoutingAssumption
<1> QED BY <1>1, <1>2 DEF WholeMei

(* The plan along a path. *)
PlanAlong(path, at, n) ==
  /\ n \in Nat /\ n >= 1 /\ path \in Seq(edges) /\ Len(path) = n /\ DOMAIN path = 1 .. n
  /\ at = Walk(query.payer, path) /\ at = [i \in 1 .. n + 1 |-> at[i]]
  /\ at[1] = query.payer /\ at[n + 1] = query.payee /\ IsInjective(at)
  /\ \A i \in 1 .. n : at[i] \in {path[i].a, path[i].b} /\ CanSend(path[i], at[i], query.amount)
  /\ plan.route = [i \in 1 .. n |-> path[i].id] /\ IsInjective(plan.route)
  /\ plan.signers = Reverse(at)
  /\ plan.hops = {[channel |-> path[i].id, from |-> at[i], to |-> at[i + 1],
                   via |-> path[i].via] : i \in 1 .. n}

LEMMA PlanIs ==
  ASSUME RoutingInv, stage = "planned"
  PROVE  \E path, at, n : PlanAlong(path, at, n)
<1> DEFINE path == reached[query.payee]
           at == Walk(query.payer, path)
           n == Len(path)
<1>1. FoundInv /\ PlannedInv /\ EdgesInv
  BY DEF RoutingInv
<1>2. path \in Seq(edges) /\ Carries(path, query.payer, query.payee, query.amount)
  BY <1>1 DEF FoundInv
<1>3. query.payer # query.payee
  BY <1>1, QueryIs DEF EdgesInv
<1>4. plan = PlanOf(path, query) /\ IsInjective([i \in DOMAIN path |-> path[i].id]) /\ IsInjective(at)
  BY <1>1 DEF PlannedInv, IsSimple
<1> HIDE DEF path
<1>5. path # << >>
  BY <1>2, <1>3, PathIsNotEmpty
<1>6. n \in Nat /\ n >= 1 /\ DOMAIN path = 1 .. n
  BY <1>2, <1>5
<1>7. at = [i \in 1 .. n + 1 |-> at[i]] /\ at[1] = query.payer
  BY <1>2, WalkIs
<1>8. /\ at[n + 1] = query.payee
      /\ \A i \in 1 .. n : at[i] \in {path[i].a, path[i].b} /\ CanSend(path[i], at[i], query.amount)
  BY <1>2, <1>6 DEF Carries
<1>9. OrderedSigners(path, query.payer, query.payee) = Reverse(at)
  BY <1>2, <1>3, <1>4, SignersAre
<1>10. /\ plan.route = [i \in 1 .. n |-> path[i].id] /\ IsInjective(plan.route)
       /\ plan.signers = OrderedSigners(path, query.payer, query.payee)
       /\ plan.hops = {[channel |-> path[i].id, from |-> at[i], to |-> at[i + 1],
                        via |-> path[i].via] : i \in 1 .. n}
  BY <1>4, <1>6 DEF PlanOf
<1>11. at = Walk(query.payer, path) /\ Len(path) = n
  OBVIOUS
<1> HIDE DEF at, n
<1>12. PlanAlong(path, at, n)
  BY <1>2, <1>4, <1>6, <1>7, <1>8, <1>9, <1>10, <1>11 DEF PlanAlong
<1> QED BY <1>12

LEMMA EdgeIs ==
  ASSUME EdgesInv, NEW e \in edges
  PROVE  \E ch \in query.channels :
           /\ e = IF ch.owner = Self THEN EdgeFromLocal(ch) ELSE EdgeFromAdvertised(ch)
           /\ e.id = ch.id /\ e.via = ch.owner /\ e.a = ch.a /\ e.b = ch.b
BY DEF EdgesInv, OfChannels, EdgeFromLocal, EdgeFromAdvertised

LEMMA SearchIsExact == ASSUME RoutingInv PROVE SearchExact
<1> SUFFICES ASSUME query.route = << >> PROVE
      /\ stage = "none" => query.payee \notin Layers(edges, query)[query.hops]
      /\ stage # "refused"
      /\ stage \in {"found", "planned"} =>
           /\ Carries(reached[query.payee], query.payer, query.payee, query.amount)
           /\ Len(reached[query.payee]) <= query.hops
           /\ query.payee \notin Layers(edges, query)[Len(reached[query.payee]) - 1]
  BY DEF SearchExact
<1>1. stage # "refused" /\ (stage = "none" => query.payee \notin Layers(edges, query)[query.hops])
  BY DEF RoutingInv, Nowhere
<1>2. ASSUME stage \in {"found", "planned"}
      PROVE  /\ Carries(reached[query.payee], query.payer, query.payee, query.amount)
             /\ Len(reached[query.payee]) <= query.hops
             /\ query.payee \notin Layers(edges, query)[Len(reached[query.payee]) - 1]
  <2>1. Shortest(edges, query, reached[query.payee], query.payee)
    BY <1>2 DEF RoutingInv, FoundInv
  <2>2. query.payer # query.payee
    BY QueryIs DEF RoutingInv, EdgesInv
  <2>3. reached[query.payee] # << >>
    BY <2>1, <2>2, PathIsNotEmpty DEF Shortest
  <2> QED BY <2>1, <2>3 DEF Shortest
<1> QED BY <1>1, <1>2

LEMMA PlanIsAccepted == ASSUME RoutingInv PROVE PlanAccepted
<1> SUFFICES ASSUME stage = "planned", Len(plan.route) <= MaxRoute, OneOwner
             PROVE  /\ \A h \in plan.hops : DescriptorValid(h.via) /\ CoverageExact(h.via)
                    /\ {h.channel : h \in plan.hops} = ToSet(plan.route)
  BY DEF PlanAccepted
<1>0. PICK path, at, n : PlanAlong(path, at, n)
  BY PlanIs
<1>1. /\ n \in Nat /\ n >= 1 /\ path \in Seq(edges) /\ Len(path) = n
      /\ at = [i \in 1 .. n + 1 |-> at[i]] /\ at[1] = query.payer /\ at[n + 1] = query.payee
      /\ IsInjective(at) /\ plan.route = [i \in 1 .. n |-> path[i].id] /\ IsInjective(plan.route)
      /\ plan.signers = Reverse(at)
  BY <1>0 DEF PlanAlong
<1>2. Len(plan.route) = n /\ DOMAIN plan.route = 1 .. n /\ \A i \in 1 .. n : plan.route[i] = path[i].id
  BY <1>1
<1>a. plan.hops = {[channel |-> path[i].id, from |-> at[i], to |-> at[i + 1], via |-> path[i].via] :
                   i \in 1 .. n}
  BY <1>0 DEF PlanAlong
<1>3. \A h \in plan.hops : \E i \in 1 .. n : /\ h.channel = path[i].id /\ h.from = at[i]
                                             /\ h.to = at[i + 1] /\ h.via = path[i].via
  BY <1>a
<1>4. \A i \in 1 .. n : \E h \in plan.hops : h.channel = path[i].id /\ h.via = path[i].via
  <2> TAKE i \in 1 .. n
  <2>1. [channel |-> path[i].id, from |-> at[i], to |-> at[i + 1], via |-> path[i].via] \in plan.hops
    BY <1>a
  <2> QED BY <2>1
<1>5. \A h, k \in plan.hops : h.channel = k.channel => h = k
  <2> TAKE h, k \in plan.hops
  <2>1. PICK i \in 1 .. n : h = [channel |-> path[i].id, from |-> at[i], to |-> at[i + 1], via |-> path[i].via]
    BY <1>a
  <2>2. PICK j \in 1 .. n : k = [channel |-> path[j].id, from |-> at[j], to |-> at[j + 1], via |-> path[j].via]
    BY <1>a
  <2>3. h.channel = k.channel => i = j
    BY <1>1, <1>2, <2>1, <2>2 DEF IsInjective
  <2> QED BY <2>1, <2>2, <2>3
<1>6. Reverse(plan.signers) = at /\ Len(plan.signers) = n + 1 /\ IsInjective(plan.signers)
  <2>1. n + 1 \in Nat /\ at = [i \in 1 .. n + 1 |-> at[i]] /\ IsInjective(at) /\ plan.signers = Reverse(at)
    BY <1>1
  <2>2. Len(at) = n + 1 /\ DOMAIN at = 1 .. n + 1
    BY <2>1
  <2> QED BY <2>1, <2>2, ReverseTwice
<1>7. Len(at) = n + 1
  BY <1>1
<1>8. ASSUME NEW hub PROVE DescriptorValid(hub)
  <2>1. Len(plan.route) \in 1 .. MaxRoute
    BY <1>1, <1>2, RoutingAssumption
  <2>2. at[1] = query.payer /\ at[Len(at)] = query.payee
    BY <1>1, <1>7
  <2>3. \A h \in HopsOf(hub) : \E i \in DOMAIN plan.route :
           plan.route[i] = h.channel /\ at[i] = h.from /\ at[i + 1] = h.to
    BY <1>2, <1>3 DEF HopsOf
  <2>4. \A h, k \in HopsOf(hub) : h.channel = k.channel => h = k
    BY <1>5 DEF HopsOf
  <2>5. IsInjective(plan.route)
    BY <1>1
  <2> QED BY <1>2, <1>6, <2>1, <2>2, <2>3, <2>4, <2>5 DEF DescriptorValid
<1>9. ASSUME NEW hub PROVE CoverageExact(hub)
  <2> DEFINE owned == {ch.id : ch \in {c \in query.channels : c.owner = hub}}
  <2>1. ASSUME NEW i \in 1 .. n
        PROVE  \E ch \in query.channels : path[i].id = ch.id /\ path[i].via = ch.owner
    <3>1. path[i] \in edges /\ EdgesInv
      BY <1>1 DEF RoutingInv
    <3> QED BY <3>1, EdgeIs
  <2>2. ASSUME NEW id \in ToSet(plan.route) \cap owned PROVE id \in {h.channel : h \in HopsOf(hub)}
    <3>1. PICK i \in 1 .. n : id = path[i].id
      BY <1>2 DEF ToSet
    <3>2. PICK c \in query.channels : c.owner = hub /\ c.id = id
      OBVIOUS
    <3>3. path[i].via = hub
      BY <2>1, <3>1, <3>2 DEF OneOwner
    <3> QED BY <1>4, <3>1, <3>3 DEF HopsOf
  <2>3. ASSUME NEW h \in HopsOf(hub) PROVE h.channel \in ToSet(plan.route) \cap owned
    <3>1. h \in plan.hops /\ h.via = hub
      BY DEF HopsOf
    <3>2. PICK i \in 1 .. n : h.channel = path[i].id /\ h.via = path[i].via
      BY <1>3, <3>1
    <3>3. h.channel \in ToSet(plan.route)
      BY <1>2, <3>2 DEF ToSet
    <3>4. h.channel \in owned
      BY <2>1, <3>1, <3>2
    <3> QED BY <3>3, <3>4
  <2> QED BY <2>2, <2>3 DEF CoverageExact
<1>10. {h.channel : h \in plan.hops} = ToSet(plan.route)
  <2>1. ToSet(plan.route) = {path[i].id : i \in 1 .. n}
    BY <1>2 DEF ToSet
  <2> QED BY <1>3, <1>4, <2>1
<1> QED BY <1>8, <1>9, <1>10

LEMMA PlanIsFunded == ASSUME RoutingInv PROVE HopsFunded
<1> SUFFICES ASSUME stage = "planned", NEW h \in plan.hops, NEW ch \in query.channels,
                    ch.id = h.channel, ch.owner = h.via, ch.owner = Self \/ SidesPublished(ch)
             PROVE  query.amount <= (IF h.from = ch.a THEN ch.left ELSE ch.right)
  BY DEF HopsFunded
<1>1. \E e \in edges : /\ h.channel = e.id /\ h.via = e.via /\ h.from \in {e.a, e.b}
                       /\ CanSend(e, h.from, query.amount)
  <2>0. PICK path, at, n : PlanAlong(path, at, n)
    BY PlanIs
  <2>1. /\ n \in Nat /\ path \in Seq(edges) /\ Len(path) = n
        /\ \A i \in 1 .. n : at[i] \in {path[i].a, path[i].b} /\ CanSend(path[i], at[i], query.amount)
    BY <2>0 DEF PlanAlong
  <2>2. plan.hops = {[channel |-> path[i].id, from |-> at[i], to |-> at[i + 1],
                      via |-> path[i].via] : i \in 1 .. n}
    BY <2>0 DEF PlanAlong
  <2>3. PICK i \in 1 .. n : h.channel = path[i].id /\ h.via = path[i].via /\ h.from = at[i]
    BY <2>2
  <2>4. path[i] \in edges
    BY <2>1
  <2> QED BY <2>1, <2>3, <2>4
<1>2. PICK e \in edges : /\ h.channel = e.id /\ h.via = e.via /\ h.from \in {e.a, e.b}
                         /\ CanSend(e, h.from, query.amount)
  BY <1>1
<1>3. EdgesInv
  BY DEF RoutingInv
<1>4. PICK c \in query.channels :
        /\ e = IF c.owner = Self THEN EdgeFromLocal(c) ELSE EdgeFromAdvertised(c)
        /\ e.id = c.id /\ e.via = c.owner
  BY <1>3, EdgeIs
<1>5. c = ch /\ ch.left \in Nat /\ ch.right \in Nat /\ query.amount \in Nat
  BY <1>2, <1>3, <1>4, QueryIs DEF EdgesInv
<1>6. CASE ch.owner = Self
  <2>1. e = EdgeFromLocal(ch)
    BY <1>4, <1>5, <1>6
  <2>2. e.known = TRUE /\ e.aAvailable = ch.left /\ e.bAvailable = ch.right /\ e.a = ch.a /\ e.b = ch.b
    BY <2>1 DEF EdgeFromLocal
  <2> QED BY <1>2, <1>5, <2>2 DEF CanSend
<1>7. CASE ch.owner # Self
  <2> DEFINE ad == Advertised(ch)
  <2>1. e = EdgeFromAdvertised(ch) /\ SidesPublished(ch)
    BY <1>4, <1>5, <1>7
  <2>2. /\ ad.left \in Nat /\ ad.right \in Nat /\ ad.left <= ch.left /\ ad.right <= ch.right
        /\ ad.left > 0 \/ ad.right > 0
    <3>1. CASE ch.ad = "exact"
      <4>1. ad.left = ch.left /\ ad.right = ch.right
        BY <3>1 DEF Advertised
      <4> QED BY <1>5, <2>1, <4>1 DEF SidesPublished
    <3>2. CASE ch.ad = "mei"
      <4>1. ad.left = WholeMei(ch.left) /\ ad.right = WholeMei(ch.right)
        BY <3>2 DEF Advertised
      <4>2. /\ WholeMei(ch.left) \in Nat /\ WholeMei(ch.left) <= ch.left
            /\ WholeMei(ch.right) \in Nat /\ WholeMei(ch.right) <= ch.right
        BY <1>5, WholeMeiBelow
      <4>3. ad.left > 0 \/ ad.right > 0
        BY <2>1 DEF SidesPublished
      <4> QED BY <4>1, <4>2, <4>3
    <3> QED BY <2>1, <3>1, <3>2 DEF SidesPublished
  <2> HIDE DEF ad
  <2>3. e.known = TRUE /\ e.aAvailable = ad.left /\ e.bAvailable = ad.right /\ e.a = ch.a /\ e.b = ch.b
    <3>1. ~ (ad.left = 0 /\ ad.right = 0)
      BY <2>2
    <3> QED BY <2>1, <2>2, <3>1 DEF EdgeFromAdvertised, ad
  <2> QED BY <1>2, <1>5, <2>2, <2>3 DEF CanSend
<1> QED BY <1>6, <1>7

(* Whatever the channels, the limits and the request: a search finds a     *)
(* shortest path with liquidity if there is one, every hub accepts its     *)
(* part of the plan, and the published money of each hop is there.         *)
THEOREM RoutesAreSound == RoutingSpec => []RouteSound
<1>1. RoutingInit => RoutingInv
  BY RoutingStarts
<1>2. RoutingInv /\ [RoutingStep]_routingVars => RoutingInv'
  BY RoutingGoesOn
<1>3. RoutingInv => RouteSound
  BY SearchIsExact, PlanIsAccepted, PlanIsFunded DEF RouteSound, RoutingInv
<1> QED BY <1>1, <1>2, <1>3, PTL DEF RoutingSpec
=============================================================================
