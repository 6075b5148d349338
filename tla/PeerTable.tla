------------------------------ MODULE PeerTable ------------------------------
(***************************************************************************)
(* The table of peer hubs and the identity pinned for each.                *)
(*                                                                         *)
(* Entries come from three places that run at once: hellos posted to this  *)
(* hub, the gossip loop that asks every peer it has listed, and the seeds  *)
(* that come with either.  The first signed hello of a provider pins its   *)
(* identity key; an open transaction accepts the answers of the key that *)
(* is pinned when they arrive.  Hellos may be late, repeated or out of     *)
(* order, and the other hubs may change their key.  The table is not       *)
(* written before a reply is sent: only snapshots keep it.                 *)
(*                                                                         *)
(* URLs are left out: a seed may move the URL of any entry, so whoever is  *)
(* asked, any hub may answer.                                              *)
(***************************************************************************)
EXTENDS FiniteSets, Integers

CONSTANTS
  Providers,     \* the other hubs
  PeerKeys,      \* their identity keys
  NoKey,         \* no signature, and no identity
  NoSeed, NoPeer,
  MaxPeers,      \* capacity of the table (Limits::max_peers)
  MaxAge,        \* the age up to which a signed hello is accepted
  MaxMoment,     \* bound: the clock
  MaxHellos,     \* bound: hellos the other hubs send by themselves
  MaxChanges,    \* bound: changes of a key
  MaxRounds,     \* bound: gossip rounds
  MaxSnapshots, MaxReturns  \* bounds: snapshots, restarts of this hub

ASSUME PeersAssumption ==
  /\ IsFiniteSet(Providers) /\ NoKey \notin PeerKeys /\ NoPeer \notin Providers
  /\ MaxPeers \in Nat /\ MaxAge \in Nat /\ MaxMoment \in Nat /\ MaxHellos \in Nat
  /\ MaxChanges \in Nat /\ MaxRounds \in Nat /\ MaxSnapshots \in Nat /\ MaxReturns \in Nat

VARIABLES
  table,      \* [Providers -> entry of the peer table]
  hubs,       \* [Providers -> key that hub has now, or none]
  hellos,     \* hellos sent to this hub; each may arrive again and again
  seeds,      \* seeds accepted with a hello and not yet remembered
  round,      \* what the gossip round has listed and not yet asked
  asking,     \* the peer being asked, with its answer
  opened,     \* [Providers -> the key pinned when the open transaction began]
  heard,      \* [Providers -> keys whose answers the open transaction took]
  snapshot,   \* the table as the snapshot has it
  pins,       \* history: [Providers -> keys that have been pinned]
  unpinned,   \* history: providers whose pin a restart has lost
  moment, used

peerVars == <<table, hubs, hellos, seeds, round, asking, opened, heard, snapshot, pins,
              unpinned, moment, used>>

-----------------------------------------------------------------------------
Entry == [known : BOOLEAN, key : PeerKeys \cup {NoKey}, verified : BOOLEAN, reachable : BOOLEAN]
Absent == [known |-> FALSE, key |-> NoKey, verified |-> FALSE, reachable |-> FALSE]
Unverified == [Absent EXCEPT !.known = TRUE]
Hello == [from : Providers, key : PeerKeys \cup {NoKey}, stamp : 0 .. MaxMoment,
          seed : Providers \cup {NoSeed}]
NotAsking == [peer |-> NoPeer, hello |-> NoSeed]
Known(t) == {p \in Providers : t[p].known}
Pinned(t) == {p \in Providers : t[p].verified}

PeersTypeOK ==
  /\ table \in [Providers -> Entry] /\ snapshot \in [Providers -> Entry]
  /\ Cardinality(Known(table)) <= MaxPeers
  /\ \A p \in Providers : table[p].verified => table[p].known /\ table[p].key # NoKey
  /\ hubs \in [Providers -> PeerKeys \cup {NoKey}]
  /\ hellos \subseteq Hello /\ seeds \subseteq Providers /\ round \subseteq Providers
  /\ asking.peer \in Providers \cup {NoPeer} /\ asking.hello \in Hello \cup {NoSeed}
  /\ opened \in [Providers -> PeerKeys \cup {NoKey}]
  /\ heard \in [Providers -> SUBSET PeerKeys] /\ pins \in [Providers -> SUBSET PeerKeys]
  /\ unpinned \subseteq Providers /\ moment \in 0 .. MaxMoment
  /\ used \in [hellos : 0 .. MaxHellos, changes : 0 .. MaxChanges, rounds : 0 .. MaxRounds,
               snapshots : 0 .. MaxSnapshots, returns : 0 .. MaxReturns]

PeersInit ==
  /\ table = [p \in Providers |-> Absent] /\ snapshot = table
  /\ hubs = [p \in Providers |-> NoKey]
  /\ hellos = {} /\ seeds = {} /\ round = {} /\ asking = NotAsking
  /\ opened = [p \in Providers |-> NoKey] /\ heard = [p \in Providers |-> {}]
  /\ pins = [p \in Providers |-> {}] /\ unpinned = {} /\ moment = 0
  /\ used = [hellos |-> 0, changes |-> 0, rounds |-> 0, snapshots |-> 0, returns |-> 0]

-----------------------------------------------------------------------------
(* The other hubs, and the clock.                                          *)

(* hello_payload of another hub: signed, or not if it has no identity key. *)
HelloOf(p, seed) == [from |-> p, key |-> hubs[p], stamp |-> moment, seed |-> seed]

SendHello(p) ==
  /\ used.hellos < MaxHellos
  /\ \E seed \in Providers \cup {NoSeed} : hellos' = hellos \cup {HelloOf(p, seed)}
  /\ used' = [used EXCEPT !.hellos = @ + 1]
  /\ UNCHANGED <<table, hubs, seeds, round, asking, opened, heard, snapshot, pins, unpinned, moment>>

(* Another hub is started with another key, or with none. *)
ChangeHub(p) ==
  /\ used.changes < MaxChanges
  /\ \E key \in PeerKeys \cup {NoKey} : hubs' = [hubs EXCEPT ![p] = key]
  /\ used' = [used EXCEPT !.changes = @ + 1]
  /\ UNCHANGED <<table, hellos, seeds, round, asking, opened, heard, snapshot, pins, unpinned, moment>>

PeerTick ==
  /\ moment < MaxMoment
  /\ moment' = moment + 1
  /\ UNCHANGED <<table, hubs, hellos, seeds, round, asking, opened, heard, snapshot, pins, unpinned, used>>

-----------------------------------------------------------------------------
(* Writing the table.                                                      *)

\* Mutant of RoomFor: the limit is not looked at.
RoomForAll(p) == TRUE

RoomFor(p) == table[p].known \/ Cardinality(Known(table)) < MaxPeers

(* validate_inbound_hello: an unsigned hello passes. *)
Valid(h) == h.key # NoKey => moment - h.stamp <= MaxAge

(* The entry upsert_peer_from_hello writes. *)
EntryOf(h) ==
  [known |-> TRUE, key |-> h.key, verified |-> h.key # NoKey, reachable |-> TRUE]

\* Mutant of Replaces: a signed hello replaces whatever is there.
ReplacesSigned(h) == table[h.from].verified => h.key # NoKey

(* A pinned entry is only replaced by a hello signed with the pinned key. *)
Replaces(h) == table[h.from].verified => h.key = table[h.from].key

Accepted(h) == Replaces(h) /\ RoomFor(h.from)

Upsert(h) ==
  /\ table' = [table EXCEPT ![h.from] = EntryOf(h)]
  /\ pins' = [pins EXCEPT ![h.from] = IF h.key = NoKey THEN @ ELSE @ \cup {h.key}]

SeedsOf(h) == IF h.seed = NoSeed THEN {} ELSE {h.seed}

(* net_hello, and bootstrap_peer with the answer it gets: the seeds of a   *)
(* hello that was refused are not read.                                    *)
ReceiveHello(h) ==
  /\ Valid(h) /\ Accepted(h)
  /\ Upsert(h)
  /\ seeds' = seeds \cup SeedsOf(h)
  /\ UNCHANGED <<hubs, hellos, round, asking, opened, heard, snapshot, unpinned, moment, used>>

(* remember_seed, for one of the seeds: of an entry that is already there, *)
(* pinned or not, only the URL is written.                                 *)
RememberSeed(p) ==
  /\ table' = IF RoomFor(p) /\ ~table[p].known THEN [table EXCEPT ![p] = Unverified] ELSE table
  /\ seeds' = seeds \ {p}
  /\ UNCHANGED <<hubs, hellos, round, asking, opened, heard, snapshot, pins, unpinned, moment, used>>

-----------------------------------------------------------------------------
(* gossip_loop.                                                            *)

(* The loop lists the table once; what it asks later may have changed. *)
BeginRound ==
  /\ round = {} /\ asking = NotAsking /\ used.rounds < MaxRounds
  /\ round' = Known(table)
  /\ used' = [used EXCEPT !.rounds = @ + 1]
  /\ UNCHANGED <<table, hubs, hellos, seeds, asking, opened, heard, snapshot, pins, unpinned, moment>>

(* exchange_hello: whoever lives at the URL answers, or nobody does. *)
AskPeer(p) ==
  /\ asking = NotAsking
  /\ \/ asking' = [peer |-> p, hello |-> NoSeed]
     \/ \E q \in Providers, seed \in Providers \cup {NoSeed} :
          asking' = [peer |-> p, hello |-> HelloOf(q, seed)]
  /\ round' = round \ {p}
  /\ UNCHANGED <<table, hubs, hellos, seeds, opened, heard, snapshot, pins, unpinned, moment, used>>

(* The peer that was asked is marked when nothing valid came back. *)
AskFailed ==
  /\ asking # NotAsking
  /\ asking.hello # NoSeed => ~Valid(asking.hello)
  /\ table' = IF table[asking.peer].known THEN [table EXCEPT ![asking.peer].reachable = FALSE]
              ELSE table
  /\ asking' = NotAsking
  /\ UNCHANGED <<hubs, hellos, seeds, round, opened, heard, snapshot, pins, unpinned, moment, used>>

(* The answer is filed under the provider it names; its seeds are read     *)
(* even when it is refused.                                                *)
AskAnswered ==
  LET h == asking.hello
  IN /\ asking # NotAsking /\ h # NoSeed
     /\ Valid(h)
     /\ IF Accepted(h) THEN Upsert(h) ELSE UNCHANGED <<table, pins>>
     /\ seeds' = seeds \cup SeedsOf(h)
     /\ asking' = NotAsking
     /\ UNCHANGED <<hubs, hellos, round, opened, heard, snapshot, unpinned, moment, used>>

-----------------------------------------------------------------------------
(* Transactions.                                                           *)

(* build_participants: only with a peer whose identity is pinned. *)
OpenTransaction(p) ==
  /\ opened[p] = NoKey /\ table[p].verified
  /\ opened' = [opened EXCEPT ![p] = table[p].key]
  /\ heard' = [heard EXCEPT ![p] = {}]
  /\ UNCHANGED <<table, hubs, hellos, seeds, round, asking, snapshot, pins, unpinned, moment, used>>

\* Mutant of MayAnswer: the signature is checked with the key the answer brings.
MayAnswerAnyKey(p, key) == table[p].verified

(* verify_peer_protocol_hash *)
MayAnswer(p, key) == table[p].verified /\ table[p].key = key

(* verify_response, verify_request: the peer signs with the key it has. *)
TakeAnswer(p) ==
  /\ opened[p] # NoKey /\ hubs[p] # NoKey /\ MayAnswer(p, hubs[p])
  /\ heard' = [heard EXCEPT ![p] = @ \cup {hubs[p]}]
  /\ UNCHANGED <<table, hubs, hellos, seeds, round, asking, opened, snapshot, pins, unpinned, moment, used>>

-----------------------------------------------------------------------------
(* Snapshots.                                                              *)

SaveSnapshot ==
  /\ used.snapshots < MaxSnapshots
  /\ snapshot' = table
  /\ used' = [used EXCEPT !.snapshots = @ + 1]
  /\ UNCHANGED <<table, hubs, hellos, seeds, round, asking, opened, heard, pins, unpinned, moment>>

\* Mutant of Reloaded: every peer comes back as a seed.
ReloadedSeeds(p) ==
  IF snapshot[p].known THEN Unverified ELSE Absent

(* restore_trusted_peer for the pinned peers, then remember_seed for all. *)
Reloaded(p) ==
  IF snapshot[p].verified THEN [snapshot[p] EXCEPT !.reachable = FALSE]
  ELSE IF snapshot[p].known THEN Unverified
  ELSE Absent

(* Open transactions are in the journal, the table is in the snapshot. *)
RestartTable ==
  /\ used.returns < MaxReturns
  /\ table' = [p \in Providers |-> Reloaded(p)]
  /\ unpinned' = unpinned \cup (Pinned(table) \ Pinned(snapshot))
  /\ seeds' = {} /\ round' = {} /\ asking' = NotAsking
  /\ used' = [used EXCEPT !.returns = @ + 1]
  /\ UNCHANGED <<hubs, hellos, opened, heard, snapshot, pins, moment>>

-----------------------------------------------------------------------------
PeersStep ==
  \/ \E p \in Providers : SendHello(p) \/ ChangeHub(p) \/ OpenTransaction(p) \/ TakeAnswer(p)
  \/ \E h \in hellos : ReceiveHello(h)
  \/ \E p \in seeds : RememberSeed(p)
  \/ BeginRound \/ AskFailed \/ AskAnswered
  \/ \E p \in round : AskPeer(p)
  \/ PeerTick \/ SaveSnapshot \/ RestartTable

PeersSpec == PeersInit /\ [][PeersStep]_peerVars

-----------------------------------------------------------------------------
(* A second key is pinned for a provider only when a restart has lost the  *)
(* first: neither a late hello, nor gossip, nor a seed, nor an unsigned    *)
(* hello makes room for it.                                                *)
PinnedOnce ==
  \A p \in Providers : \A k, m \in pins[p] : k # m => p \in unpinned

(* A pin that has reached a snapshot stands for good, restarts included. *)
SavedPinsStand ==
  \A p \in Pinned(snapshot) : table[p].verified /\ table[p].key = snapshot[p].key

(* While a transaction is open, only the key that was pinned when it was   *)
(* opened can answer, unless a restart has lost that pin.                  *)
OpenPinKept ==
  \A p \in Providers \ unpinned :
    opened[p] # NoKey => heard[p] \subseteq {opened[p]}

(* A pinned identity stays the identity of its peer: against other hellos, *)
(* in snapshots, and for the transactions that were opened under it.       *)
PinsStand == PeersTypeOK /\ PinnedOnce /\ SavedPinsStand /\ OpenPinKept
=============================================================================
