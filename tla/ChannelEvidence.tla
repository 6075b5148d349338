---------------------------- MODULE ChannelEvidence ----------------------------
(***************************************************************************)
(* The evidence a hub keeps about one channel: the last state observed     *)
(* from each party, proofs that a party signed two states of one sequence, *)
(* and the activation with its verification head.                          *)
(*                                                                         *)
(* The channel's entry is under the lock of HubState, the evidence under a *)
(* lock of its own, so a request that needs both reads the first and uses  *)
(* what it read under the second.  A save holds a read lock of HubState    *)
(* and exports the evidence in three reads.                                *)
(*                                                                         *)
(* A state stands for a commitment and its hash; signatures are genuine.   *)
(* Terms are what a registration and an L1 channel must share: the parties *)
(* and the totals.  Observations never meet their capacity, which is two   *)
(* for each registered channel.                                            *)
(***************************************************************************)
EXTENDS FiniteSets, Integers

CONSTANTS
  Parties,       \* the two addresses of the channel
  States,        \* signed commitments anyone may present
  Fundings,      \* L1 incarnations of the channel id
  Terms,         \* parties and totals of a registration
  Sequence,      \* the sequence of a state
  Previous,      \* the state whose hash a state binds, or None
  FundingOf,     \* the incarnation a state binds
  TermsOf,       \* the terms of an incarnation
  Life,          \* the L1 channel [funding, status] at each tip height
  MaxProofs,     \* proofs the store takes, room left by other channels
  Calls,         \* requests that may be in progress at once
  MaxRequests,   \* bound: observations, activations and L1 queries
  MaxRegisters,  \* bound: new registrations of the channel
  MaxSaves,      \* bound
  MaxCrashes,    \* bound
  None

Statuses == {"unknown", "open", "closed"}
Tips == DOMAIN Life

ASSUME PartiesAssumption == \E left, right \in Parties : Parties = {left, right}
ASSUME StatesAssumption ==
  /\ Sequence \in [States -> Nat \ {0}] /\ Previous \in [States -> States \cup {None}]
  /\ FundingOf \in [States -> Fundings] /\ TermsOf \in [Fundings -> Terms]
  /\ None \notin States \cup Fundings \cup Terms
(* Signers bind a predecessor of the same incarnation, as the drafts of    *)
(* channel_state_shadow_v2 do; no check of the store compares the two.     *)
ASSUME SignersAssumption ==
  \A s \in States : Previous[s] # None => FundingOf[Previous[s]] = FundingOf[s]
ASSUME LifeAssumption ==
  /\ Tips \subseteq Nat
  /\ Life \in [Tips -> [funding : Fundings, status : Statuses \ {"unknown"}]]
ASSUME BoundsAssumption ==
  /\ MaxProofs \in Nat /\ MaxRequests \in Nat /\ MaxRegisters \in Nat
  /\ MaxSaves \in Nat /\ MaxCrashes \in Nat

VARIABLES
  entry,      \* the channel in HubState
  store,      \* ChannelStateStoreV2
  calls,      \* requests in progress
  tip,        \* L1's height
  save,       \* a save in progress: what it has exported
  disk,       \* the snapshot a restart reads
  status,     \* "up", "down", or "refused" by load_into
  acked,      \* history: evidence in memory before a finished save began
  torn,       \* history: memory stems from a save the evidence changed under
  requests, registers, saves, crashes

bounds == <<requests, registers, saves, crashes>>
vars == <<entry, store, calls, tip, save, disk, status, acked, torn, bounds>>

-----------------------------------------------------------------------------
Entries == [terms : Terms, anchor : Fundings \cup {None}, height : Tips \cup {0},
            l1 : Statuses]
Observations == [state : States \cup {None}, signed : SUBSET Parties]
Proofs == [signer : Parties, states : SUBSET States]
Activations == [initial : States \cup {None}, head : States \cup {None}]
Evidence == [obs : [Parties -> Observations], proofs : SUBSET Proofs,
             activation : Activations]

NoObservation == [state |-> None, signed |-> {}]
NoActivation == [initial |-> None, head |-> None]
Empty == [obs |-> [p \in Parties |-> NoObservation], proofs |-> {},
          activation |-> NoActivation]

Idle == [op |-> "idle", state |-> None, signed |-> {}, funding |-> None,
         height |-> 0, l1 |-> "unknown"]
NoSave == [at |-> "none", entry |-> [terms |-> None], evidence |-> Empty,
           before |-> Empty, torn |-> FALSE]

TypeOK ==
  /\ entry \in Entries /\ store \in Evidence
  /\ calls \in [Calls -> [op : {"idle", "observe", "query", "refresh", "activate"},
                          state : States \cup {None}, signed : SUBSET Parties,
                          funding : Fundings \cup {None}, height : Tips \cup {0},
                          l1 : Statuses]]
  /\ tip \in Tips
  /\ save \in [at : {"none", "observations", "proofs"}, entry : Entries \cup {NoSave.entry},
              evidence : Evidence, before : Evidence, torn : BOOLEAN]
  /\ save.at # "none" => save.entry \in Entries
  /\ disk \in [entry : Entries, evidence : Evidence, torn : BOOLEAN]
  /\ status \in {"up", "down", "refused"}
  /\ acked \in Evidence /\ torn \in BOOLEAN
  /\ requests \in 0 .. MaxRequests /\ registers \in 0 .. MaxRegisters
  /\ saves \in 0 .. MaxSaves /\ crashes \in 0 .. MaxCrashes

Registered(t) == [terms |-> t, anchor |-> None, height |-> 0, l1 |-> "unknown"]

Init ==
  /\ \E t \in Terms : entry = Registered(t)
  /\ store = Empty /\ acked = Empty
  /\ calls = [c \in Calls |-> Idle]
  /\ tip \in Tips /\ \A t \in Tips : tip <= t
  /\ save = NoSave
  /\ disk = [entry |-> entry, evidence |-> Empty, torn |-> FALSE]
  /\ status = "up" /\ torn = FALSE
  /\ requests = 0 /\ registers = 0 /\ saves = 0 /\ crashes = 0

SequenceOf(s) == IF s = None THEN 0 ELSE Sequence[s]
Goto(c, call) == calls' = [calls EXCEPT ![c] = call]
Begin(c, call) ==
  /\ status = "up" /\ calls[c].op = "idle" /\ requests < MaxRequests
  /\ Goto(c, call) /\ requests' = requests + 1
  /\ UNCHANGED <<entry, store, tip, save, disk, status, acked, torn, registers, saves, crashes>>
End(c) == calls' = [calls EXCEPT ![c] = Idle]

(* The evidence changes; a save in progress may have exported half of it. *)
Keep(evidence) ==
  /\ store' = evidence
  /\ save' = IF save.at = "none" THEN save ELSE [save EXCEPT !.torn = TRUE]

(* L1ChannelAnchorV1::validate_against_channel *)
AnchorFits(f, e) == TermsOf[f] = e.terms

(* validate_state_against_channel *)
MatchesEntry(s, e) ==
  /\ TermsOf[FundingOf[s]] = e.terms
  /\ e.anchor # None => AnchorFits(e.anchor, e) /\ e.anchor = FundingOf[s]

(* SignedChannelStateV2::validate: one or two parties, each once. *)
Signings == SUBSET Parties \ {{}}
-----------------------------------------------------------------------------
(* Observations.                                                           *)

(***************************************************************************)
(* A state with one or two signatures arrives; the entry of its channel is *)
(* read and the lock let go.                                               *)
(***************************************************************************)
BeginObserve(c, s, signed) ==
  /\ MatchesEntry(s, entry)
  /\ Begin(c, [Idle EXCEPT !.op = "observe", !.state = s, !.signed = signed])

(* The signatures presented, and those stored for the same hash. *)
AllSignatures(obs, s, signed) ==
  signed \cup UNION {obs[p].signed : p \in {q \in Parties : obs[q].state = s}}

(***************************************************************************)
(* What validate_activation_record refuses: a head of another incarnation  *)
(* than its certificate, or one behind or beside the initial state.        *)
(***************************************************************************)
Headless(activation) ==
  /\ activation # NoActivation
  /\ \/ FundingOf[activation.head] # FundingOf[activation.initial]
     \/ Sequence[activation.head] < Sequence[activation.initial]
     \/ /\ Sequence[activation.head] = Sequence[activation.initial]
        /\ activation.head # activation.initial

\* Mutant of Succeeds: the hash of the predecessor is not compared.
SucceedsAnything(s, activation) ==
  activation # NoActivation => Sequence[s] <= Sequence[activation.head] + 1

(* validate_successor_against_activation; the incarnation is not compared. *)
Succeeds(s, activation) ==
  /\ ~ Headless(activation)
  /\ activation # NoActivation /\ Sequence[s] > Sequence[activation.head] =>
       Sequence[s] = Sequence[activation.head] + 1 /\ Previous[s] = activation.head

\* Mutant of Conflicts: a state of both parties is taken as agreed.
ConflictsAlone(obs, s, signed) ==
  {p \in signed : /\ signed # Parties /\ obs[p].state \notin {None, s}
                  /\ Sequence[obs[p].state] = Sequence[s]}

Conflicts(obs, s, signed) ==
  {p \in signed : obs[p].state \notin {None, s} /\ Sequence[obs[p].state] = Sequence[s]}

\* Mutant of Updates: a stale state of equal or lower sequence is stored too.
UpdatesStale(obs, s, signed) ==
  {p \in signed : obs[p].state # s \/ Cardinality(obs[p].signed) < Cardinality(signed)}

Updates(obs, s, signed) ==
  {p \in signed :
     IF obs[p].state = s THEN Cardinality(obs[p].signed) < Cardinality(signed)
                         ELSE SequenceOf(obs[p].state) < Sequence[s]}

(* ChannelEquivocationProofV2::build for each conflict. *)
ProofsOf(obs, s, signed) ==
  {[signer |-> p, states |-> {obs[p].state, s}] : p \in Conflicts(obs, s, signed)}

(* The two states of a proof share their incarnation; each new proof is    *)
(* held against the number of proofs before the request.                   *)
Provable(evidence, s, conflicts, new) ==
  /\ \A p \in conflicts : FundingOf[evidence.obs[p].state] = FundingOf[s]
  /\ new \subseteq evidence.proofs \/ Cardinality(evidence.proofs) < MaxProofs

\* Mutant of Advance: a state of one party moves the head.
AdvanceUnsigned(activation, s, signed) ==
  IF activation # NoActivation /\ Sequence[s] > Sequence[activation.head]
  THEN [activation EXCEPT !.head = s] ELSE activation

Advance(activation, s, signed) ==
  IF /\ activation # NoActivation /\ signed = Parties
     /\ Sequence[s] > Sequence[activation.head]
  THEN [activation EXCEPT !.head = s] ELSE activation

(***************************************************************************)
(* observe, under the lock of the evidence: refused, or proved to be an    *)
(* equivocation, or stored for every signer it is news of.                 *)
(***************************************************************************)
FinishObserve(c) ==
  LET s == calls[c].state
      signed == AllSignatures(store.obs, s, calls[c].signed)
      conflicts == Conflicts(store.obs, s, signed)
      new == ProofsOf(store.obs, s, signed)
      updates == Updates(store.obs, s, signed)
  IN /\ calls[c].op = "observe"
     /\ \/ /\ ~ (Succeeds(s, store.activation) /\ Provable(store, s, conflicts, new))
           /\ UNCHANGED <<store, save>>
        \/ /\ Succeeds(s, store.activation) /\ Provable(store, s, conflicts, new)
           /\ conflicts # {}
           /\ Keep([store EXCEPT !.proofs = @ \cup new])
        \/ /\ Succeeds(s, store.activation) /\ conflicts = {}
           /\ Keep([store EXCEPT
                      !.obs = [p \in Parties |->
                                 IF p \in updates THEN [state |-> s, signed |-> signed]
                                                  ELSE @[p]],
                      !.activation = Advance(@, s, signed)])
     /\ End(c)
     /\ UNCHANGED <<entry, tip, disk, status, acked, torn, bounds>>
-----------------------------------------------------------------------------
(* Registration and the L1 anchor.                                         *)

(* register_channel: no reservation of the channel is open; the entry is   *)
(* replaced, the evidence is not touched.                                  *)
Register(t) ==
  /\ status = "up" /\ save.at = "none" /\ registers < MaxRegisters
  /\ entry' = Registered(t)
  /\ registers' = registers + 1
  /\ UNCHANGED <<store, calls, tip, save, disk, status, acked, torn, requests, saves, crashes>>

(* External: L1 grows; the channel may close, and its id be reused. *)
Mine ==
  /\ tip + 1 \in Tips /\ tip' = tip + 1
  /\ UNCHANGED <<entry, store, calls, save, disk, status, acked, torn, bounds>>

(* What the full node says of the channel: the incarnation is the digest   *)
(* of the opening fields, so a reused id is another one.                   *)
Answer == Life[tip]

(* The full node is asked for its height, and then for the channel. *)
AskHeight(c) == Begin(c, [Idle EXCEPT !.op = "query", !.height = tip])

EvidenceOf(e, f) ==
  /\ \A p \in Parties : e.obs[p].state # None => FundingOf[e.obs[p].state] = f
  /\ \A proof \in e.proofs : \A s \in proof.states : FundingOf[s] = f

(***************************************************************************)
(* The answer is compared with the entry and with the stored evidence      *)
(* before apply_l1_channel_observation takes the write lock.               *)
(***************************************************************************)
CheckAnchor(c) ==
  /\ calls[c].op = "query"
  /\ IF AnchorFits(Answer.funding, entry) /\ EvidenceOf(store, Answer.funding)
     THEN Goto(c, [calls[c] EXCEPT !.op = "refresh", !.funding = Answer.funding,
                                   !.l1 = Answer.status])
     ELSE End(c)
  /\ UNCHANGED <<entry, store, tip, save, disk, status, acked, torn, bounds>>

\* Mutant of ApplyAnchor: the height after the one that was asked for.
ApplyNextHeight(c) ==
  /\ calls[c].op = "refresh" /\ save.at = "none"
  /\ entry' = [entry EXCEPT !.anchor = calls[c].funding, !.height = calls[c].height + 1,
                            !.l1 = calls[c].l1]
  /\ End(c)
  /\ UNCHANGED <<store, tip, save, disk, status, acked, torn, bounds>>

ApplyAnchor(c) ==
  LET call == calls[c]
      fits == entry.anchor # None => /\ entry.anchor = call.funding
                                     /\ entry.height <= call.height
  IN /\ call.op = "refresh" /\ save.at = "none"
     /\ entry' = IF fits THEN [entry EXCEPT !.anchor = call.funding, !.height = call.height,
                                            !.l1 = call.l1]
                 ELSE entry
     /\ End(c)
     /\ UNCHANGED <<store, tip, save, disk, status, acked, torn, bounds>>
-----------------------------------------------------------------------------
(* Activation.                                                             *)

(* validate_activation_against_channel; require_open *)
AnchorAdmits(s, e) ==
  /\ e.anchor # None /\ AnchorFits(e.anchor, e)
  /\ FundingOf[s] = e.anchor

(* The latest states of one sequence that both parties signed: the         *)
(* predecessor that channel_state_shadow_v2 binds a draft to.              *)
Predecessors(obs, f, n) ==
  {s \in States : /\ Sequence[s] = n /\ FundingOf[s] = f
                  /\ \E p \in Parties : obs[p] = [state |-> s, signed |-> Parties]}

(* SignedChannelActivationV1::validate *)
Certified(signed) == signed = Parties

(* A certificate arrives for an initial state. *)
BeginActivate(c, s, signed) ==
  /\ Certified(signed)
  /\ entry.l1 = "open" /\ AnchorAdmits(s, entry)
  /\ Begin(c, [Idle EXCEPT !.op = "activate", !.state = s])

(***************************************************************************)
(* activate: the first certificate whose state is stored with both         *)
(* signatures, for good; the same one again is answered, others refused.   *)
(***************************************************************************)
FinishActivate(c) ==
  LET s == calls[c].state
  IN /\ calls[c].op = "activate"
     /\ IF /\ store.activation = NoActivation
           /\ \E p \in Parties : store.obs[p] = [state |-> s, signed |-> Parties]
        THEN Keep([store EXCEPT !.activation = [initial |-> s, head |-> s]])
        ELSE UNCHANGED <<store, save>>
     /\ End(c)
     /\ UNCHANGED <<entry, tip, disk, status, acked, torn, bounds>>
-----------------------------------------------------------------------------
(* Snapshots.                                                              *)

(* export_persist_bundle begins: the entry and the observations. *)
SaveObservations ==
  /\ status = "up" /\ save.at = "none" /\ saves < MaxSaves
  /\ save' = [at |-> "observations", entry |-> entry, torn |-> torn,
              evidence |-> [Empty EXCEPT !.obs = store.obs], before |-> store]
  /\ saves' = saves + 1
  /\ UNCHANGED <<entry, store, calls, tip, disk, status, acked, torn, requests,
                 registers, crashes>>

SaveProofs ==
  /\ status = "up" /\ save.at = "observations"
  /\ save' = [save EXCEPT !.at = "proofs", !.evidence.proofs = store.proofs]
  /\ UNCHANGED <<entry, store, calls, tip, disk, status, acked, torn, bounds>>

\* Mutant of SaveActivations: activations are left out of the bundle.
SaveWithoutActivations ==
  /\ status = "up" /\ save.at = "proofs"
  /\ disk' = [entry |-> save.entry, torn |-> save.torn, evidence |-> save.evidence]
  /\ acked' = save.before
  /\ save' = NoSave
  /\ UNCHANGED <<entry, store, calls, tip, status, torn, bounds>>

(***************************************************************************)
(* The activations are exported and the file is replaced: what was in      *)
(* memory before may have been answered by now.  One save at a time.       *)
(***************************************************************************)
SaveActivations ==
  /\ status = "up" /\ save.at = "proofs"
  /\ disk' = [entry |-> save.entry, torn |-> save.torn,
              evidence |-> [save.evidence EXCEPT !.activation = store.activation]]
  /\ acked' = save.before
  /\ save' = NoSave
  /\ UNCHANGED <<entry, store, calls, tip, status, torn, bounds>>

Crash ==
  /\ status = "up" /\ crashes < MaxCrashes
  /\ status' = "down" /\ crashes' = crashes + 1
  /\ entry' = disk.entry /\ store' = Empty
  /\ calls' = [c \in Calls |-> Idle] /\ save' = NoSave
  /\ UNCHANGED <<tip, disk, acked, torn, requests, registers, saves>>

(* Two observations of one signer and sequence: restore_observation fails. *)
Unresolved(obs) ==
  \E p, q \in Parties :
    /\ obs[p].state # obs[q].state /\ None \notin {obs[p].state, obs[q].state}
    /\ Sequence[obs[p].state] = Sequence[obs[q].state]
    /\ obs[p].signed \cap obs[q].signed # {}

(* Each party gets the highest observation that it signed, in any order. *)
Restored(obs) ==
  [p \in Parties |->
     LET mine == {obs[q] : q \in {r \in Parties : p \in obs[r].signed}}
     IN IF mine = {} THEN NoObservation
        ELSE CHOOSE o \in mine :
               \A other \in mine : SequenceOf(o.state) >= SequenceOf(other.state)]

(* What load_into does not accept: evidence of other terms or of another   *)
(* anchor, an anchor of other terms, an activation without an anchor.      *)
Foreign(d) ==
  \/ d.entry.anchor # None /\ ~ AnchorFits(d.entry.anchor, d.entry)
  \/ \E p \in Parties : /\ d.evidence.obs[p].state # None
                        /\ ~ MatchesEntry(d.evidence.obs[p].state, d.entry)
  \/ \E proof \in d.evidence.proofs : \E s \in proof.states : ~ MatchesEntry(s, d.entry)
  \/ LET a == d.evidence.activation
     IN a # NoActivation /\ ~ (AnchorAdmits(a.initial, d.entry) /\ MatchesEntry(a.head, d.entry))

Overfull(d) == Cardinality(d.evidence.proofs) > MaxProofs

(***************************************************************************)
(* load_into: the channel and its anchor, the observations, the proofs,    *)
(* the activation; the first that fails keeps the hub from starting.       *)
(***************************************************************************)
Restart ==
  /\ status = "down"
  /\ IF \/ Foreign(disk) \/ Unresolved(disk.evidence.obs)
        \/ Headless(disk.evidence.activation) \/ Overfull(disk)
     THEN status' = "refused" /\ UNCHANGED <<store, torn>>
     ELSE /\ status' = "up" /\ torn' = disk.torn
          /\ store' = [disk.evidence EXCEPT !.obs = Restored(@)]
  /\ UNCHANGED <<entry, calls, tip, save, disk, acked, bounds>>
-----------------------------------------------------------------------------
Request(c) ==
  \/ \E s \in States, signed \in Signings :
       BeginObserve(c, s, signed) \/ BeginActivate(c, s, signed)
  \/ FinishObserve(c)
  \/ AskHeight(c) \/ CheckAnchor(c) \/ ApplyAnchor(c)
  \/ FinishActivate(c)

Next ==
  \/ \E c \in Calls : Request(c)
  \/ \E t \in Terms : Register(t)
  \/ Mine
  \/ SaveObservations \/ SaveProofs \/ SaveActivations
  \/ Crash \/ Restart

Spec == Init /\ [][Next]_vars
-----------------------------------------------------------------------------
(* Properties.                                                             *)

(* The two observations agree: whoever signed the one has signed no other  *)
(* state of its sequence in the other, and is stored at least as far.  It  *)
(* is why a load never meets an unresolved equivocation, and why a draft   *)
(* of the next state finds at most one predecessor to bind.                *)
ObsAgree(obs) ==
  \A p, q \in Parties :
    /\ obs[p].state # None <=> p \in obs[p].signed
    /\ q \in obs[p].signed =>
         /\ SequenceOf(obs[q].state) >= SequenceOf(obs[p].state)
         /\ SequenceOf(obs[q].state) = SequenceOf(obs[p].state) => obs[q] = obs[p]

KeysAgree ==
  /\ ObsAgree(store.obs) /\ ObsAgree(disk.evidence.obs)
  /\ \A f \in Fundings, n \in {Sequence[s] : s \in States} :
       \A s, t \in Predecessors(store.obs, f, n) : s = t

(* Unless memory stems from a torn save, no party's stored state is behind *)
(* the verification head or contradicts it: a rival of the head is always  *)
(* answered with a proof.                                                  *)
HeadUncontradicted ==
  status = "up" /\ ~ torn /\ store.activation # NoActivation =>
    LET head == store.activation.head
    IN \A p \in Parties :
         /\ SequenceOf(store.obs[p].state) >= Sequence[head]
         /\ SequenceOf(store.obs[p].state) = Sequence[head] =>
              store.obs[p] = [state |-> head, signed |-> Parties]

(* a, then states that each bind the one before, up to b. *)
Extends(s, C) == Previous[s] \in C /\ Sequence[s] = Sequence[Previous[s]] + 1
Descends(b, a) ==
  \A C \in SUBSET States :
    a \in C /\ (\A s \in States : Extends(s, C) => s \in C) => b \in C

(* What was answered for after a save is still so, over crashes: the       *)
(* certificate and its chain, every proof, and each party's observation.   *)
Honours(e, promised) ==
  /\ promised.proofs \subseteq e.proofs
  /\ promised.activation # NoActivation =>
       /\ e.activation.initial = promised.activation.initial
       /\ Descends(e.activation.head, promised.activation.head)
  /\ \A p \in Parties :
       LET now == e.obs[p].state  then == promised.obs[p].state
       IN /\ SequenceOf(now) >= SequenceOf(then)
          /\ SequenceOf(now) = SequenceOf(then) => now = then

AckedStands == /\ Honours(disk.evidence, acked)
               /\ status = "up" => Honours(store, acked)

(* The hub refuses to start only over evidence of another registration or  *)
(* incarnation, or over more proofs than it takes.                         *)
RefusalExplained == status = "refused" => Foreign(disk) \/ Overfull(disk)

(* The head stays on one chain, and on the incarnation of the certificate. *)
HeadDescends ==
  store.activation # NoActivation =>
    /\ Descends(store.activation.head, store.activation.initial)
    /\ ~ Headless(store.activation)

(* The evidence of a channel is one story: its two observations, its head  *)
(* and the chain that led to the head agree.                               *)
EvidenceAgrees == TypeOK /\ KeysAgree /\ HeadUncontradicted /\ HeadDescends
=============================================================================
