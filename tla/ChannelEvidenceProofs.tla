------------------------- MODULE ChannelEvidenceProofs -------------------------
(***************************************************************************)
(* The evidence of a channel, for any states, incarnations, terms, numbers *)
(* of requests at once, registrations, saves and crashes.  EvidenceInv is  *)
(* the inductive invariant: what holds of the evidence in memory holds of  *)
(* the snapshot, and while a save is under way its half-made bundle is     *)
(* compared with what was in memory when it began.                         *)
(***************************************************************************)
EXTENDS ChannelEvidence, FiniteSetTheorems, TLAPS

AgreeingObs(obs) ==
  /\ ObsAgree(obs)
  /\ \A p \in Parties : obs[p].state = None => obs[p].signed = {}

ActivationFits(a) ==
  a # NoActivation =>
    /\ a.initial \in States /\ a.head \in States
    /\ Descends(a.head, a.initial) /\ ~Headless(a)

(* No stored state is behind the head or contradicts it. *)
HeadHeld(e) ==
  e.activation # NoActivation =>
    \A p \in Parties :
      /\ SequenceOf(e.obs[p].state) >= Sequence[e.activation.head]
      /\ SequenceOf(e.obs[p].state) = Sequence[e.activation.head] =>
           e.obs[p] = [state |-> e.activation.head, signed |-> Parties]

StoryInv(e) == AgreeingObs(e.obs) /\ ActivationFits(e.activation)

CallsInv ==
  \A c \in Calls :
    /\ calls[c].op # "idle" => status = "up"
    /\ calls[c].op \in {"observe", "activate"} => calls[c].state \in States

SaveInv ==
  save.at # "none" =>
    /\ status = "up"
    /\ AgreeingObs(save.evidence.obs) /\ save.evidence.obs = save.before.obs
    /\ save.at = "proofs" => save.before.proofs \subseteq save.evidence.proofs
    /\ ~save.torn => ~torn /\ save.evidence.obs = store.obs
    /\ Honours(store, save.before) /\ ActivationFits(save.before.activation)

TornInv ==
  /\ status = "up" /\ ~torn => HeadHeld(store)
  /\ ~disk.torn => HeadHeld(disk.evidence)

EvidenceInv ==
  /\ TypeOK /\ CallsInv /\ SaveInv /\ TornInv /\ AckedStands /\ RefusalExplained
  /\ StoryInv(store) /\ StoryInv(disk.evidence) /\ ActivationFits(acked.activation)

-----------------------------------------------------------------------------
(* Sequences, chains and the order of two pieces of evidence.              *)
LEMMA PartiesFinite == IsFiniteSet(Parties)
<1>1. PICK left, right \in Parties : Parties = {left, right}
  BY PartiesAssumption
<1>2. IsFiniteSet({left})
  BY FS_Singleton
<1>3. IsFiniteSet({left} \cup {right})
  BY <1>2, FS_AddElement
<1>4. {left} \cup {right} = Parties
  BY <1>1
<1> QED BY <1>3, <1>4

LEMMA SequenceFacts ==
  /\ \A s \in States : s # None /\ Sequence[s] \in Nat /\ Sequence[s] > 0
                       /\ SequenceOf(s) = Sequence[s]
  /\ \A s \in States \cup {None} : SequenceOf(s) \in Nat
  /\ SequenceOf(None) = 0
BY StatesAssumption DEF SequenceOf

LEMMA SignedSizes ==
  ASSUME NEW S \in SUBSET Parties, NEW T \in SUBSET Parties, S \subseteq T,
         ~(Cardinality(S) < Cardinality(T))
  PROVE  S = T
<1>1. IsFiniteSet(T) /\ IsFiniteSet(S)
  BY PartiesFinite, FS_Subset
<1>2. Cardinality(S) \in Nat /\ Cardinality(T) \in Nat
  BY <1>1, FS_CardinalityType
<1> QED BY <1>1, <1>2, FS_Subset

LEMMA DescendsSelf == \A s \in States : Descends(s, s)
BY DEF Descends

LEMMA DescendsFurther ==
  ASSUME NEW a \in States, NEW b \in States, NEW c \in States,
         Descends(b, a), Descends(c, b)
  PROVE  Descends(c, a)
BY DEF Descends

LEMMA DescendsByOne ==
  ASSUME NEW a \in States, NEW b \in States,
         Previous[b] = a, Sequence[b] = Sequence[a] + 1
  PROVE  Descends(b, a)
BY DEF Descends, Extends

LEMMA HonoursSelf ==
  ASSUME NEW e \in Evidence, ActivationFits(e.activation)
  PROVE  Honours(e, e)
<1>1. \A p \in Parties : e.obs[p].state \in States \cup {None}
  BY DEF Evidence, Observations
<1>2. \A p \in Parties : SequenceOf(e.obs[p].state) \in Nat
  BY <1>1, SequenceFacts
<1> QED BY <1>2, DescendsSelf DEF Honours, ActivationFits

LEMMA HonoursFurther ==
  ASSUME NEW e1 \in Evidence, NEW e2 \in Evidence, NEW e3 \in Evidence,
         ActivationFits(e1.activation), ActivationFits(e2.activation),
         ActivationFits(e3.activation),
         Honours(e2, e1), Honours(e3, e2)
  PROVE  Honours(e3, e1)
<1>1. e1.proofs \subseteq e3.proofs
  BY DEF Honours
<1>2. ASSUME e1.activation # NoActivation
      PROVE  /\ e3.activation.initial = e1.activation.initial
             /\ Descends(e3.activation.head, e1.activation.head)
  <2>1. /\ e2.activation.initial = e1.activation.initial
        /\ Descends(e2.activation.head, e1.activation.head)
        /\ e1.activation.initial \in States /\ e1.activation.head \in States
    BY <1>2 DEF Honours, ActivationFits
  <2>2. e2.activation # NoActivation
    BY <2>1, StatesAssumption DEF NoActivation
  <2>3. /\ e3.activation.initial = e2.activation.initial
        /\ Descends(e3.activation.head, e2.activation.head)
        /\ e2.activation.head \in States
    BY <2>2 DEF Honours, ActivationFits
  <2>4. e3.activation # NoActivation
    BY <2>1, <2>3, StatesAssumption DEF NoActivation
  <2> QED BY <2>1, <2>3, <2>4, DescendsFurther DEF ActivationFits
<1>3. ASSUME NEW p \in Parties
      PROVE  /\ SequenceOf(e3.obs[p].state) >= SequenceOf(e1.obs[p].state)
             /\ SequenceOf(e3.obs[p].state) = SequenceOf(e1.obs[p].state) =>
                  e3.obs[p].state = e1.obs[p].state
  <2>1. /\ e1.obs[p].state \in States \cup {None} /\ e2.obs[p].state \in States \cup {None}
        /\ e3.obs[p].state \in States \cup {None}
    BY DEF Evidence, Observations
  <2>2. /\ SequenceOf(e1.obs[p].state) \in Nat /\ SequenceOf(e2.obs[p].state) \in Nat
        /\ SequenceOf(e3.obs[p].state) \in Nat
    BY <2>1, SequenceFacts
  <2> QED BY <2>2 DEF Honours
<1> QED BY <1>1, <1>2, <1>3 DEF Honours

-----------------------------------------------------------------------------
(* The two observations.                                                   *)
LEMMA ObsTypes ==
  ASSUME NEW obs \in [Parties -> Observations], NEW p \in Parties
  PROVE  /\ obs[p].state \in States \cup {None} /\ SequenceOf(obs[p].state) \in Nat
         /\ obs[p].signed \subseteq Parties
         /\ obs[p] = [state |-> obs[p].state, signed |-> obs[p].signed]
BY SequenceFacts DEF Observations

(* What a load makes of observations that agree are these observations. *)
LEMMA RestoredSame ==
  ASSUME NEW obs \in [Parties -> Observations], AgreeingObs(obs)
  PROVE  Restored(obs) = obs
<1> DEFINE SignedBy(p) == {obs[q] : q \in {r \in Parties : p \in obs[r].signed}}
           Highest(p, o) == \A other \in SignedBy(p) :
                              SequenceOf(o.state) >= SequenceOf(other.state)
           Pick(p) == IF SignedBy(p) = {} THEN NoObservation
                      ELSE CHOOSE o \in SignedBy(p) : Highest(p, o)
<1>1. ASSUME NEW p \in Parties
      PROVE  Pick(p) = obs[p]
  <2>1. CASE obs[p].state = None
    <3>1. ASSUME NEW q \in Parties, p \in obs[q].signed PROVE FALSE
      <4>1. obs[q].state # None /\ SequenceOf(obs[p].state) >= SequenceOf(obs[q].state)
        BY <3>1 DEF AgreeingObs, ObsAgree
      <4>2. obs[q].state \in States
        BY <4>1, ObsTypes
      <4>3. SequenceOf(obs[p].state) = 0 /\ SequenceOf(obs[q].state) \in Nat
            /\ SequenceOf(obs[q].state) > 0
        BY <2>1, <4>2, SequenceFacts
      <4> QED BY <4>1, <4>3
    <3>2. SignedBy(p) = {}
      BY <3>1
    <3>3. obs[p] = NoObservation
      <4>1. obs[p] = [state |-> obs[p].state, signed |-> obs[p].signed]
        BY ObsTypes
      <4>2. obs[p].signed = {}
        BY <2>1 DEF AgreeingObs
      <4> QED BY <2>1, <4>1, <4>2 DEF NoObservation
    <3> QED BY <3>2, <3>3
  <2>2. CASE obs[p].state # None
    <3>1. obs[p] \in SignedBy(p)
      BY <2>2 DEF AgreeingObs, ObsAgree
    <3>2. ASSUME NEW q \in Parties, p \in obs[q].signed
          PROVE  /\ SequenceOf(obs[p].state) >= SequenceOf(obs[q].state)
                 /\ SequenceOf(obs[q].state) >= SequenceOf(obs[p].state) => obs[q] = obs[p]
      <4>1. /\ SequenceOf(obs[p].state) >= SequenceOf(obs[q].state)
            /\ SequenceOf(obs[p].state) = SequenceOf(obs[q].state) => obs[q] = obs[p]
        BY <3>2 DEF AgreeingObs, ObsAgree
      <4>2. SequenceOf(obs[p].state) \in Nat /\ SequenceOf(obs[q].state) \in Nat
        BY ObsTypes
      <4> QED BY <4>1, <4>2
    <3>3. Highest(p, obs[p])
      BY <3>2
    <3>4. \A o \in SignedBy(p) : Highest(p, o) => o = obs[p]
      BY <3>1, <3>2
    <3> HIDE DEF SignedBy, Highest
    <3>5. (CHOOSE o \in SignedBy(p) : Highest(p, o)) = obs[p]
      BY <3>1, <3>3, <3>4
    <3> QED BY <3>1, <3>5
  <2> QED BY <2>1, <2>2
<1>2. Restored(obs) = [p \in Parties |-> Pick(p)]
  BY DEF Restored
<1> HIDE DEF Pick
<1> QED BY <1>1, <1>2

(* With two parties, whoever signed for both sides is one of the two. *)
LEMMA NeverUnresolved ==
  ASSUME NEW obs \in [Parties -> Observations], AgreeingObs(obs)
  PROVE  ~Unresolved(obs)
<1> SUFFICES ASSUME NEW p \in Parties, NEW q \in Parties,
                    obs[p].state # obs[q].state,
                    None \notin {obs[p].state, obs[q].state},
                    Sequence[obs[p].state] = Sequence[obs[q].state],
                    NEW r \in obs[p].signed \cap obs[q].signed
             PROVE  FALSE
  BY DEF Unresolved
<1>1. p \in obs[p].signed /\ q \in obs[q].signed /\ p # q
  BY DEF AgreeingObs, ObsAgree
<1>2. r \in Parties
  BY ObsTypes
<1>3. r = p \/ r = q
  BY <1>1, <1>2, PartiesAssumption
<1>4. SequenceOf(obs[p].state) = SequenceOf(obs[q].state)
  BY DEF SequenceOf
<1>5. (q \in obs[p].signed \/ p \in obs[q].signed) => obs[p] = obs[q]
  BY <1>4 DEF AgreeingObs, ObsAgree
<1> QED BY <1>3, <1>5

LEMMA OnePredecessor ==
  ASSUME NEW obs \in [Parties -> Observations], AgreeingObs(obs), NEW f, NEW n,
         NEW s \in Predecessors(obs, f, n), NEW t \in Predecessors(obs, f, n)
  PROVE  s = t
<1>1. PICK p \in Parties : obs[p] = [state |-> s, signed |-> Parties]
  BY DEF Predecessors
<1>2. PICK q \in Parties : obs[q] = [state |-> t, signed |-> Parties]
  BY DEF Predecessors
<1>3. SequenceOf(obs[p].state) = SequenceOf(obs[q].state)
  BY <1>1, <1>2, SequenceFacts DEF Predecessors
<1>4. obs[q] = obs[p]
  BY <1>1, <1>3 DEF AgreeingObs, ObsAgree
<1> QED BY <1>1, <1>2, <1>4

-----------------------------------------------------------------------------
(* observe stores a state: what changes, for whom.                         *)
Merged(obs, s, signed) ==
  [p \in Parties |-> IF p \in Updates(obs, s, signed)
                     THEN [state |-> s, signed |-> signed] ELSE obs[p]]

LEMMA UpdateFacts ==
  ASSUME NEW obs \in [Parties -> Observations], NEW s \in States,
         NEW given \in SUBSET Parties, NEW signed, signed = AllSignatures(obs, s, given),
         Conflicts(obs, s, signed) = {}, NEW p \in Parties
  PROVE  /\ signed \subseteq Parties
         /\ obs[p].state = s => obs[p].signed \subseteq signed
         /\ p \in Updates(obs, s, signed) =>
              /\ p \in signed
              /\ \/ obs[p].state = s /\ obs[p].signed # signed
                 \/ SequenceOf(obs[p].state) < Sequence[s]
         /\ p \in signed /\ p \notin Updates(obs, s, signed) =>
              \/ obs[p] = [state |-> s, signed |-> signed]
              \/ SequenceOf(obs[p].state) > Sequence[s]
<1>1. signed \subseteq Parties
  BY DEF AllSignatures, Observations
<1>2. ASSUME obs[p].state = s PROVE obs[p].signed \subseteq signed
  BY <1>2 DEF AllSignatures
<1>3. ASSUME p \in Updates(obs, s, signed)
      PROVE  /\ p \in signed
             /\ \/ obs[p].state = s /\ obs[p].signed # signed
                \/ SequenceOf(obs[p].state) < Sequence[s]
  <2>1. IsFiniteSet(signed) /\ Cardinality(signed) \in Nat
    BY <1>1, PartiesFinite, FS_Subset, FS_CardinalityType
  <2>2. p \in signed
    BY <1>3 DEF Updates
  <2>3. CASE obs[p].state = s
    <3>1. Cardinality(obs[p].signed) < Cardinality(signed)
      BY <1>3, <2>3 DEF Updates
    <3> QED BY <2>1, <2>2, <2>3, <3>1
  <2>4. CASE obs[p].state # s
    BY <1>3, <2>2, <2>4 DEF Updates
  <2> QED BY <2>3, <2>4
<1>4. ASSUME p \in signed, p \notin Updates(obs, s, signed)
      PROVE  \/ obs[p] = [state |-> s, signed |-> signed]
             \/ SequenceOf(obs[p].state) > Sequence[s]
  <2>1. CASE obs[p].state = s
    <3>1. ~(Cardinality(obs[p].signed) < Cardinality(signed))
      BY <1>4, <2>1 DEF Updates
    <3>2. obs[p].signed = signed
      BY <1>1, <1>2, <2>1, <3>1, ObsTypes, SignedSizes
    <3> QED BY <2>1, <3>2, ObsTypes
  <2>2. CASE obs[p].state # s
    <3>1. ~(SequenceOf(obs[p].state) < Sequence[s])
      BY <1>4, <2>2 DEF Updates
    <3>2. Sequence[s] \in Nat /\ Sequence[s] > 0 /\ SequenceOf(obs[p].state) \in Nat
      BY SequenceFacts, ObsTypes
    <3>3. obs[p].state # None
      BY <3>1, <3>2, SequenceFacts
    <3>4. obs[p].state \in States /\ SequenceOf(obs[p].state) = Sequence[obs[p].state]
      BY <3>3, ObsTypes, SequenceFacts
    <3>5. SequenceOf(obs[p].state) # Sequence[s]
      BY <1>4, <2>2, <3>3, <3>4 DEF Conflicts
    <3> QED BY <3>1, <3>2, <3>5
  <2> QED BY <2>1, <2>2
<1> QED BY <1>1, <1>2, <1>3, <1>4

LEMMA MergedAgrees ==
  ASSUME NEW obs \in [Parties -> Observations], AgreeingObs(obs), NEW s \in States,
         NEW given \in SUBSET Parties, NEW signed, signed = AllSignatures(obs, s, given),
         Conflicts(obs, s, signed) = {}
  PROVE  /\ Merged(obs, s, signed) \in [Parties -> Observations]
         /\ AgreeingObs(Merged(obs, s, signed))
         /\ \A p \in Parties :
              LET now == Merged(obs, s, signed)[p].state
              IN /\ SequenceOf(now) >= SequenceOf(obs[p].state)
                 /\ SequenceOf(now) = SequenceOf(obs[p].state) => now = obs[p].state
<1> DEFINE U == Updates(obs, s, signed)
           new == Merged(obs, s, signed)
           o == [state |-> s, signed |-> signed]
<1>1. /\ s # None /\ Sequence[s] \in Nat /\ Sequence[s] > 0 /\ SequenceOf(s) = Sequence[s]
      /\ signed \subseteq Parties
  BY SequenceFacts, UpdateFacts DEF AllSignatures, Observations
<1>2. \A p \in Parties : new[p] = IF p \in U THEN o ELSE obs[p]
  BY DEF Merged
<1>3. new \in [Parties -> Observations]
  BY <1>1 DEF Merged, Observations
<1>0. \A p \in Parties : SequenceOf(obs[p].state) \in Nat
  BY ObsTypes
<1> HIDE DEF new
<1>4. ASSUME NEW p \in Parties
      PROVE  /\ new[p].state # None <=> p \in new[p].signed
             /\ new[p].state = None => new[p].signed = {}
             /\ SequenceOf(new[p].state) >= SequenceOf(obs[p].state)
             /\ SequenceOf(new[p].state) = SequenceOf(obs[p].state) =>
                  new[p].state = obs[p].state
  <2>1. CASE p \in U
    <3>1. /\ p \in signed
          /\ obs[p].state = s \/ SequenceOf(obs[p].state) < Sequence[s]
      BY <2>1, UpdateFacts
    <3>2. new[p].state = s /\ new[p].signed = signed
      BY <1>2, <2>1
    <3> QED BY <1>1, <1>0, <3>1, <3>2
  <2>2. CASE p \notin U
    <3>1. new[p] = obs[p]
      BY <1>2, <2>2
    <3>2. SequenceOf(obs[p].state) \in Nat
      BY ObsTypes
    <3> QED BY <3>1, <3>2 DEF AgreeingObs, ObsAgree
  <2> QED BY <2>1, <2>2
<1>5. ASSUME NEW p \in Parties, NEW q \in Parties, q \in new[p].signed
      PROVE  /\ SequenceOf(new[q].state) >= SequenceOf(new[p].state)
             /\ SequenceOf(new[q].state) = SequenceOf(new[p].state) => new[q] = new[p]
  <2>1. CASE p \in U /\ q \in U
    BY <1>1, <1>2, <2>1
  <2>2. CASE p \in U /\ q \notin U
    <3>1. new[p] = o /\ new[q] = obs[q] /\ q \in signed
      BY <1>2, <1>5, <2>2
    <3>2. obs[q] = o \/ SequenceOf(obs[q].state) > Sequence[s]
      BY <2>2, <3>1, UpdateFacts
    <3> QED BY <1>1, <1>0, <3>1, <3>2
  <2>3. CASE p \notin U /\ q \in U
    <3>1. new[p] = obs[p] /\ new[q] = o
      BY <1>2, <2>3
    <3>2. /\ SequenceOf(obs[q].state) >= SequenceOf(obs[p].state)
          /\ SequenceOf(obs[q].state) = SequenceOf(obs[p].state) => obs[q] = obs[p]
      BY <1>5, <3>1 DEF AgreeingObs, ObsAgree
    <3>3. CASE SequenceOf(obs[q].state) < Sequence[s]
      BY <1>1, <1>0, <3>1, <3>2, <3>3
    <3>4. CASE obs[q].state = s /\ obs[q].signed # signed
      <4>1. obs[p] # obs[q]
        <5>1. SUFFICES ASSUME obs[p] = obs[q] PROVE FALSE
          OBVIOUS
        <5>2. p \in obs[p].signed
          BY <1>1, <3>4, <5>1 DEF AgreeingObs, ObsAgree
        <5>3. p \in signed
          BY <3>4, <5>1, <5>2, UpdateFacts
        <5>4. obs[p] = o \/ SequenceOf(obs[p].state) > Sequence[s]
          BY <2>3, <5>3, UpdateFacts
        <5> QED BY <1>1, <3>4, <5>1, <5>4
      <4> QED BY <1>1, <1>0, <3>1, <3>2, <3>4, <4>1
    <3> QED BY <2>3, <3>3, <3>4, UpdateFacts
  <2>4. CASE p \notin U /\ q \notin U
    <3>1. new[p] = obs[p] /\ new[q] = obs[q]
      BY <1>2, <2>4
    <3> QED BY <1>5, <3>1 DEF AgreeingObs, ObsAgree
  <2> QED BY <2>1, <2>2, <2>3, <2>4
<1>6. AgreeingObs(new)
  BY <1>4, <1>5 DEF AgreeingObs, ObsAgree
<1> QED BY <1>3, <1>4, <1>6 DEF new

(* A head that advances goes one state down its chain. *)
LEMMA AdvanceFits ==
  ASSUME NEW a \in Activations, ActivationFits(a), NEW s \in States, NEW signed,
         Succeeds(s, a)
  PROVE  /\ Advance(a, s, signed) \in Activations
         /\ ActivationFits(Advance(a, s, signed))
         /\ a # NoActivation =>
              /\ Advance(a, s, signed) # NoActivation
              /\ Advance(a, s, signed).initial = a.initial
              /\ Descends(Advance(a, s, signed).head, a.head)
<1>1. CASE ~(a # NoActivation /\ signed = Parties /\ Sequence[s] > Sequence[a.head])
  <2>1. Advance(a, s, signed) = a
    BY <1>1 DEF Advance
  <2> QED BY <2>1, DescendsSelf DEF ActivationFits
<1>2. CASE a # NoActivation /\ signed = Parties /\ Sequence[s] > Sequence[a.head]
  <2> DEFINE b == [initial |-> a.initial, head |-> s]
  <2>1. Advance(a, s, signed) = b
    BY <1>2 DEF Advance, Activations
  <2>2. /\ a.initial \in States /\ a.head \in States
        /\ Descends(a.head, a.initial) /\ ~Headless(a)
    BY <1>2 DEF ActivationFits
  <2>3. Sequence[s] = Sequence[a.head] + 1 /\ Previous[s] = a.head
    BY <1>2 DEF Succeeds
  <2>4. Descends(s, a.head) /\ Descends(s, a.initial)
    BY <2>2, <2>3, DescendsByOne, DescendsFurther
  <2>5. FundingOf[s] = FundingOf[a.initial]
    <3>1. Previous[s] # None
      BY <2>2, <2>3, StatesAssumption
    <3>2. FundingOf[a.head] = FundingOf[s]
      BY <2>3, <3>1, SignersAssumption
    <3> QED BY <1>2, <2>2, <3>2 DEF Headless
  <2>6. Sequence[s] > Sequence[a.initial]
    <3>1. ~(Sequence[a.head] < Sequence[a.initial])
      BY <1>2, <2>2 DEF Headless
    <3>2. Sequence[a.head] \in Nat /\ Sequence[a.initial] \in Nat /\ Sequence[s] \in Nat
      BY <2>2, SequenceFacts
    <3> QED BY <1>2, <3>1, <3>2
  <2>7. Sequence[s] \in Nat /\ Sequence[a.initial] \in Nat
    BY <2>2, SequenceFacts
  <2>8. ~Headless(b)
    BY <2>5, <2>6, <2>7 DEF Headless
  <2>9. b # NoActivation /\ b \in Activations
    BY <2>2, StatesAssumption DEF NoActivation, Activations
  <2>10. ActivationFits(b)
    BY <2>2, <2>4, <2>8 DEF ActivationFits
  <2> QED BY <2>1, <2>4, <2>9, <2>10
<1> QED BY <1>1, <1>2

(* The head is held after a state was stored, whether it advanced or not. *)
LEMMA MergedHolds ==
  ASSUME NEW e \in Evidence, StoryInv(e), HeadHeld(e), NEW s \in States,
         NEW given \in SUBSET Parties, NEW signed,
         signed = AllSignatures(e.obs, s, given),
         Conflicts(e.obs, s, signed) = {}, Succeeds(s, e.activation),
         NEW f, f.obs = Merged(e.obs, s, signed),
         f.activation = Advance(e.activation, s, signed)
  PROVE  HeadHeld(f)
<1> DEFINE a == e.activation
           U == Updates(e.obs, s, signed)
<1>1. e.obs \in [Parties -> Observations] /\ a \in Activations
  BY DEF Evidence
<1>2. \A p \in Parties : f.obs[p] = IF p \in U THEN [state |-> s, signed |-> signed]
                                              ELSE e.obs[p]
  BY DEF Merged
<1>3. CASE a = NoActivation
  <2>1. f.activation = NoActivation
    BY <1>3 DEF Advance
  <2> QED BY <2>1 DEF HeadHeld
<1>4. CASE a # NoActivation
  <2>1. a.head \in States
    BY <1>4 DEF StoryInv, ActivationFits
  <2>2. /\ Sequence[a.head] \in Nat /\ Sequence[s] \in Nat /\ SequenceOf(s) = Sequence[s]
        /\ \A p \in Parties : SequenceOf(e.obs[p].state) \in Nat
    BY <1>1, <2>1, SequenceFacts, ObsTypes
  <2>3. \A p \in Parties :
          /\ SequenceOf(e.obs[p].state) >= Sequence[a.head]
          /\ SequenceOf(e.obs[p].state) = Sequence[a.head] =>
               e.obs[p] = [state |-> a.head, signed |-> Parties]
    BY <1>4 DEF HeadHeld
  <2>4. CASE signed = Parties /\ Sequence[s] > Sequence[a.head]
    <3>1. f.activation.head = s
      BY <1>1, <1>4, <2>4 DEF Advance, Activations
    <3>2. ASSUME NEW p \in Parties
          PROVE  /\ SequenceOf(f.obs[p].state) >= Sequence[s]
                 /\ SequenceOf(f.obs[p].state) = Sequence[s] =>
                      f.obs[p] = [state |-> s, signed |-> Parties]
      <4>1. CASE p \in U
        <5>1. f.obs[p] = [state |-> s, signed |-> Parties]
          BY <1>2, <2>4, <4>1
        <5> QED BY <2>2, <5>1
      <4>2. CASE p \notin U
        <5>1. \/ e.obs[p] = [state |-> s, signed |-> signed]
              \/ SequenceOf(e.obs[p].state) > Sequence[s]
          BY <1>1, <2>4, <4>2, UpdateFacts
        <5>2. f.obs[p] = e.obs[p]
          BY <1>2, <4>2
        <5> QED BY <2>2, <2>4, <5>1, <5>2
      <4> QED BY <4>1, <4>2
    <3> QED BY <3>1, <3>2 DEF HeadHeld
  <2>5. CASE ~(signed = Parties /\ Sequence[s] > Sequence[a.head])
    <3>1. f.activation = a
      BY <2>5 DEF Advance
    <3>2. ASSUME NEW p \in Parties
          PROVE  /\ SequenceOf(f.obs[p].state) >= Sequence[a.head]
                 /\ SequenceOf(f.obs[p].state) = Sequence[a.head] =>
                      f.obs[p] = [state |-> a.head, signed |-> Parties]
      <4>1. CASE p \in U
        <5> DEFINE o == e.obs
        <5>0. o \in [Parties -> Observations] /\ p \in Updates(o, s, signed)
          BY <1>1, <4>1
        <5> HIDE DEF o
        <5>1. /\ signed \subseteq Parties
              /\ o[p].state = s => o[p].signed \subseteq signed
              /\ \/ o[p].state = s /\ o[p].signed # signed
                 \/ SequenceOf(o[p].state) < Sequence[s]
          <6>1. signed = AllSignatures(o, s, given) /\ Conflicts(o, s, signed) = {}
            BY DEF o
          <6> QED BY <5>0, <6>1, UpdateFacts
        <5> USE DEF o
        <5>2. Sequence[s] > Sequence[a.head]
          <6>1. CASE SequenceOf(e.obs[p].state) < Sequence[s]
            BY <2>2, <2>3, <6>1
          <6>2. CASE e.obs[p].state = s /\ e.obs[p].signed # signed
            <7>1. e.obs[p].signed # Parties
              BY <5>1, <6>2
            <7>2. Sequence[s] >= Sequence[a.head] /\ Sequence[s] # Sequence[a.head]
              BY <2>2, <2>3, <6>2, <7>1
            <7> QED BY <2>2, <7>2
          <6> QED BY <5>1, <6>1, <6>2
        <5>3. f.obs[p].state = s
          BY <1>2, <4>1
        <5> QED BY <2>2, <5>2, <5>3
      <4>2. CASE p \notin U
        BY <1>2, <2>3, <4>2
      <4> QED BY <4>1, <4>2
    <3> QED BY <3>1, <3>2 DEF HeadHeld
  <2> QED BY <2>4, <2>5
<1> QED BY <1>3, <1>4

-----------------------------------------------------------------------------
(* Changes of the evidence in memory.                                      *)

(* A change that takes nothing back and leaves one story. *)
Better(e, f) ==
  /\ f \in Evidence /\ StoryInv(f) /\ Honours(f, e)
  /\ HeadHeld(e) => HeadHeld(f)

LEMMA ObserveBetters ==
  ASSUME EvidenceInv, NEW c \in Calls, FinishObserve(c)
  PROVE  \/ UNCHANGED <<store, save>>
         \/ Keep(store') /\ Better(store, store')
<1> DEFINE s == calls[c].state
           signed == AllSignatures(store.obs, s, calls[c].signed)
           conflicts == Conflicts(store.obs, s, signed)
           new == ProofsOf(store.obs, s, signed)
<1>1. /\ s \in States /\ calls[c].signed \in SUBSET Parties /\ store \in Evidence
      /\ StoryInv(store)
  BY DEF EvidenceInv, CallsInv, TypeOK, FinishObserve
<1>2. /\ store.obs \in [Parties -> Observations] /\ store.activation \in Activations
      /\ store.proofs \in SUBSET Proofs
      /\ AgreeingObs(store.obs) /\ ActivationFits(store.activation)
  BY <1>1 DEF Evidence, StoryInv
<1>3. signed \in SUBSET Parties
  BY <1>1, <1>2 DEF AllSignatures, Observations
<1>4. CASE UNCHANGED <<store, save>>
  BY <1>4
<1>5. CASE Keep([store EXCEPT !.proofs = @ \cup new])
  <2> DEFINE f == [store EXCEPT !.proofs = @ \cup new]
  <2>1. store' = f
    BY <1>5 DEF Keep
  <2>2. new \subseteq Proofs
    BY <1>1, <1>2, <1>3 DEF ProofsOf, Conflicts, Proofs, Observations
  <2>3. /\ f \in Evidence /\ f.obs = store.obs /\ f.activation = store.activation
        /\ f.proofs = store.proofs \cup new
    BY <1>1, <1>2, <2>2 DEF Evidence
  <2> HIDE DEF f
  <2>4. StoryInv(f) /\ (HeadHeld(store) => HeadHeld(f))
    BY <1>1, <2>3 DEF StoryInv, HeadHeld
  <2>5. Honours(store, store)
    BY <1>1, <1>2, HonoursSelf
  <2>6. Honours(f, store)
    BY <2>3, <2>5 DEF Honours
  <2> QED BY <1>5, <2>1, <2>3, <2>4, <2>6 DEF Better, f
<1>6. CASE /\ Succeeds(s, store.activation) /\ conflicts = {}
           /\ Keep([store EXCEPT
                      !.obs = [p \in Parties |->
                                 IF p \in Updates(store.obs, s, signed)
                                 THEN [state |-> s, signed |-> signed] ELSE @[p]],
                      !.activation = Advance(@, s, signed)])
  <2> DEFINE f == [store EXCEPT !.obs = Merged(store.obs, s, signed),
                                !.activation = Advance(store.activation, s, signed)]
  <2>1. Keep(f)
    BY <1>6 DEF Merged
  <2>2. store' = f
    BY <2>1 DEF Keep
  <2> HIDE DEF f
  <2>3. /\ f.obs = Merged(store.obs, s, signed) /\ f.proofs = store.proofs
        /\ f.activation = Advance(store.activation, s, signed)
        /\ f = [obs |-> Merged(store.obs, s, signed), proofs |-> store.proofs,
                activation |-> Advance(store.activation, s, signed)]
    <3> DEFINE o == Merged(store.obs, s, signed)
               b == Advance(store.activation, s, signed)
    <3>1. f = [store EXCEPT !.obs = o, !.activation = b]
      BY DEF f
    <3> HIDE DEF o, b
    <3>2. /\ f.obs = o /\ f.proofs = store.proofs /\ f.activation = b
          /\ f = [obs |-> o, proofs |-> store.proofs, activation |-> b]
      BY <1>1, <3>1 DEF Evidence
    <3> QED BY <3>2 DEF o, b
  <2>4. /\ f.obs \in [Parties -> Observations] /\ AgreeingObs(f.obs)
        /\ \A p \in Parties :
             /\ SequenceOf(f.obs[p].state) >= SequenceOf(store.obs[p].state)
             /\ SequenceOf(f.obs[p].state) = SequenceOf(store.obs[p].state) =>
                  f.obs[p].state = store.obs[p].state
    <3> DEFINE o == store.obs
    <3>1. /\ o \in [Parties -> Observations] /\ AgreeingObs(o)
          /\ signed = AllSignatures(o, s, calls[c].signed) /\ Conflicts(o, s, signed) = {}
          /\ s \in States /\ calls[c].signed \in SUBSET Parties
      BY <1>1, <1>2, <1>6
    <3> HIDE DEF o, signed, s
    <3>2. /\ Merged(o, s, signed) \in [Parties -> Observations]
          /\ AgreeingObs(Merged(o, s, signed))
          /\ \A p \in Parties :
               LET now == Merged(o, s, signed)[p].state
               IN /\ SequenceOf(now) >= SequenceOf(o[p].state)
                  /\ SequenceOf(now) = SequenceOf(o[p].state) => now = o[p].state
      BY <3>1, MergedAgrees
    <3> QED BY <2>3, <3>2 DEF o, s, signed
  <2>5. /\ f.activation \in Activations /\ ActivationFits(f.activation)
        /\ store.activation # NoActivation =>
             /\ f.activation.initial = store.activation.initial
             /\ Descends(f.activation.head, store.activation.head)
    BY <1>1, <1>2, <1>6, <2>3, AdvanceFits
  <2>6. f \in Evidence
    BY <1>2, <2>3, <2>4, <2>5 DEF Evidence
  <2>7. HeadHeld(store) => HeadHeld(f)
    BY <1>1, <1>6, <2>3, MergedHolds
  <2>8. Honours(f, store)
    BY <2>3, <2>4, <2>5 DEF Honours
  <2> QED BY <2>1, <2>2, <2>4, <2>5, <2>6, <2>7, <2>8 DEF Better, StoryInv
<1> QED BY <1>4, <1>5, <1>6 DEF FinishObserve

LEMMA ActivateBetters ==
  ASSUME EvidenceInv, NEW c \in Calls, FinishActivate(c)
  PROVE  \/ UNCHANGED <<store, save>>
         \/ Keep(store') /\ Better(store, store')
<1> DEFINE s == calls[c].state
           a == [initial |-> s, head |-> s]
           f == [store EXCEPT !.activation = a]
<1>1. s \in States /\ store \in Evidence /\ StoryInv(store)
  BY DEF EvidenceInv, CallsInv, TypeOK, FinishActivate
<1>2. CASE UNCHANGED <<store, save>>
  BY <1>2
<1>3. ASSUME store.activation = NoActivation,
             NEW p \in Parties, store.obs[p] = [state |-> s, signed |-> Parties],
             Keep(f)
      PROVE  Keep(store') /\ Better(store, store')
  <2>1. store' = f
    BY <1>3 DEF Keep
  <2>2. /\ f.obs = store.obs /\ f.proofs = store.proofs /\ f.activation = a
        /\ f \in Evidence
    BY <1>1 DEF Evidence, Activations
  <2> HIDE DEF f
  <2>3. Sequence[s] \in Nat /\ SequenceOf(s) = Sequence[s] /\ ~Headless(a) /\ Descends(s, s)
    BY <1>1, SequenceFacts, DescendsSelf DEF Headless
  <2>4. ActivationFits(a)
    BY <1>1, <2>3 DEF ActivationFits
  <2>5. \A q \in Parties :
          /\ SequenceOf(store.obs[q].state) >= Sequence[s]
          /\ SequenceOf(store.obs[q].state) = Sequence[s] =>
               store.obs[q] = [state |-> s, signed |-> Parties]
    BY <1>1, <1>3, <2>3 DEF StoryInv, AgreeingObs, ObsAgree
  <2>6. HeadHeld(f)
    BY <2>2, <2>5 DEF HeadHeld
  <2>7. Honours(store, store)
    BY <1>1, HonoursSelf DEF StoryInv
  <2>8. Honours(f, store)
    BY <1>3, <2>2, <2>7 DEF Honours
  <2> QED BY <1>1, <1>3, <2>1, <2>2, <2>4, <2>6, <2>8 DEF Better, StoryInv
<1> QED BY <1>2, <1>3 DEF FinishActivate

(* What such a change does to the parts of the invariant. *)
LEMMA BetterKeeps ==
  ASSUME EvidenceInv, Keep(store'), Better(store, store'),
         UNCHANGED <<disk, status, acked, torn>>
  PROVE  /\ SaveInv' /\ TornInv' /\ AckedStands' /\ RefusalExplained'
         /\ StoryInv(store)' /\ StoryInv(disk.evidence)' /\ ActivationFits(acked.activation)'
<1>1. /\ store \in Evidence /\ acked \in Evidence /\ save.before \in Evidence
      /\ save.evidence \in Evidence
      /\ StoryInv(store) /\ ActivationFits(store.activation)
      /\ ActivationFits(acked.activation)
  BY DEF EvidenceInv, TypeOK, StoryInv
<1>2. store' \in Evidence /\ StoryInv(store') /\ ActivationFits(store'.activation)
  BY DEF Better, StoryInv
<1>3. SaveInv'
  <2>1. CASE save.at = "none"
    BY <2>1 DEF Keep, SaveInv
  <2>2. CASE save.at # "none"
    <3>1. /\ save'.at = save.at /\ save'.evidence = save.evidence
          /\ save'.before = save.before /\ save'.torn = TRUE
      BY <2>2 DEF Keep, EvidenceInv, TypeOK
    <3>2. Honours(store, save.before) /\ ActivationFits(save.before.activation)
      BY <2>2 DEF EvidenceInv, SaveInv
    <3>3. Honours(store', save.before)
      BY <1>1, <1>2, <3>2, HonoursFurther DEF Better
    <3> QED BY <2>2, <3>1, <3>2, <3>3 DEF EvidenceInv, SaveInv
  <2> QED BY <2>1, <2>2
<1>4. TornInv'
  BY DEF EvidenceInv, TornInv, Better
<1>5. AckedStands'
  <2>1. ASSUME status = "up" PROVE Honours(store', acked)
    <3>1. Honours(store, acked)
      BY <2>1 DEF EvidenceInv, AckedStands
    <3> QED BY <1>1, <1>2, <3>1, HonoursFurther DEF Better
  <2> QED BY <2>1 DEF EvidenceInv, AckedStands
<1>6. RefusalExplained'
  BY DEF EvidenceInv, RefusalExplained, Foreign, Overfull
<1> QED BY <1>1, <1>2, <1>3, <1>4, <1>5, <1>6 DEF EvidenceInv

(* Steps that touch neither the evidence nor a save nor the snapshot. *)
LEMMA OthersKeep ==
  ASSUME EvidenceInv, UNCHANGED <<store, save, disk, status, acked, torn>>
  PROVE  /\ SaveInv' /\ TornInv' /\ AckedStands' /\ RefusalExplained'
         /\ StoryInv(store)' /\ StoryInv(disk.evidence)' /\ ActivationFits(acked.activation)'
<1>1. SaveInv'
  BY DEF EvidenceInv, SaveInv
<1>2. TornInv'
  BY DEF EvidenceInv, TornInv
<1>3. AckedStands' /\ RefusalExplained'
  BY DEF EvidenceInv, AckedStands, RefusalExplained, Foreign, Overfull
<1> QED BY <1>1, <1>2, <1>3 DEF EvidenceInv
-----------------------------------------------------------------------------
(* Saves, crashes and restarts.                                            *)
LEMMA SaveObservationsKeeps ==
  ASSUME EvidenceInv, SaveObservations
  PROVE  /\ SaveInv' /\ TornInv' /\ AckedStands' /\ RefusalExplained'
         /\ StoryInv(store)' /\ StoryInv(disk.evidence)' /\ ActivationFits(acked.activation)'
<1> USE DEF SaveObservations
<1>1. store \in Evidence /\ StoryInv(store) /\ ActivationFits(store.activation)
  BY DEF EvidenceInv, TypeOK, StoryInv
<1>2. SaveInv'
  <2>1. /\ save'.at = "observations" /\ save'.before = store /\ save'.torn = torn
        /\ save'.evidence.obs = store.obs
    BY DEF Empty
  <2>2. Honours(store, store)
    BY <1>1, HonoursSelf
  <2> QED BY <1>1, <2>1, <2>2 DEF SaveInv, StoryInv
<1>3. TornInv' /\ AckedStands' /\ RefusalExplained'
  BY DEF EvidenceInv, TornInv, AckedStands, RefusalExplained, Foreign, Overfull
<1> QED BY <1>1, <1>2, <1>3 DEF EvidenceInv

LEMMA SaveProofsKeeps ==
  ASSUME EvidenceInv, SaveProofs
  PROVE  /\ SaveInv' /\ TornInv' /\ AckedStands' /\ RefusalExplained'
         /\ StoryInv(store)' /\ StoryInv(disk.evidence)' /\ ActivationFits(acked.activation)'
<1> USE DEF SaveProofs
<1>1. SaveInv'
  <2>1. /\ save'.at = "proofs" /\ save'.before = save.before /\ save'.torn = save.torn
        /\ save'.evidence.obs = save.evidence.obs /\ save'.evidence.proofs = store.proofs
    BY DEF EvidenceInv, TypeOK, Evidence
  <2>2. save.before.proofs \subseteq store.proofs
    BY DEF EvidenceInv, SaveInv, Honours
  <2> QED BY <2>1, <2>2 DEF EvidenceInv, SaveInv
<1>2. TornInv' /\ AckedStands' /\ RefusalExplained'
  BY DEF EvidenceInv, TornInv, AckedStands, RefusalExplained, Foreign, Overfull
<1> QED BY <1>1, <1>2 DEF EvidenceInv

LEMMA SaveActivationsKeeps ==
  ASSUME EvidenceInv, SaveActivations
  PROVE  /\ SaveInv' /\ TornInv' /\ AckedStands' /\ RefusalExplained'
         /\ StoryInv(store)' /\ StoryInv(disk.evidence)' /\ ActivationFits(acked.activation)'
<1> USE DEF SaveActivations
<1> DEFINE e == disk'.evidence
<1>1. /\ store \in Evidence /\ save.evidence \in Evidence /\ save.before \in Evidence
      /\ StoryInv(store)
  BY DEF EvidenceInv, TypeOK
<1>2. /\ save.evidence.obs = save.before.obs /\ AgreeingObs(save.evidence.obs)
      /\ save.before.proofs \subseteq save.evidence.proofs
      /\ ~save.torn => ~torn /\ save.evidence.obs = store.obs
      /\ Honours(store, save.before) /\ ActivationFits(save.before.activation)
  BY DEF EvidenceInv, SaveInv
<1>3. /\ e.obs = save.evidence.obs /\ e.proofs = save.evidence.proofs
      /\ e.activation = store.activation /\ disk'.torn = save.torn /\ acked' = save.before
  BY <1>1 DEF Evidence
<1> HIDE DEF e
<1>4. StoryInv(e)
  BY <1>1, <1>2, <1>3 DEF StoryInv
<1>5. Honours(e, save.before)
  <2>1. Honours(save.before, save.before)
    BY <1>1, <1>2, HonoursSelf
  <2> QED BY <1>2, <1>3, <2>1 DEF Honours
<1>6. SaveInv'
  BY DEF SaveInv, NoSave
<1>7. TornInv'
  <2>1. ~save.torn => HeadHeld(e)
    BY <1>2, <1>3 DEF EvidenceInv, TornInv, HeadHeld
  <2> QED BY <1>3, <2>1 DEF EvidenceInv, TornInv, e
<1>8. AckedStands' /\ RefusalExplained'
  BY <1>2, <1>3, <1>5 DEF AckedStands, RefusalExplained, e
<1> QED BY <1>1, <1>2, <1>3, <1>4, <1>6, <1>7, <1>8 DEF e

LEMMA EmptyStory == Empty \in Evidence /\ StoryInv(Empty)
<1>1. Empty \in Evidence
  BY DEF Empty, Evidence, NoObservation, NoActivation, Observations, Activations
<1>2. AgreeingObs(Empty.obs)
  BY DEF Empty, NoObservation, AgreeingObs, ObsAgree
<1>3. ActivationFits(Empty.activation)
  BY DEF Empty, ActivationFits
<1> QED BY <1>1, <1>2, <1>3 DEF StoryInv

LEMMA CrashKeeps ==
  ASSUME EvidenceInv, Crash
  PROVE  /\ SaveInv' /\ TornInv' /\ AckedStands' /\ RefusalExplained'
         /\ StoryInv(store)' /\ StoryInv(disk.evidence)' /\ ActivationFits(acked.activation)'
<1> USE DEF Crash
<1>1. SaveInv'
  BY DEF SaveInv, NoSave
<1>2. TornInv' /\ AckedStands' /\ RefusalExplained'
  BY DEF EvidenceInv, TornInv, AckedStands, RefusalExplained
<1> QED BY <1>1, <1>2, EmptyStory DEF EvidenceInv

LEMMA RestartKeeps ==
  ASSUME EvidenceInv, Restart
  PROVE  /\ SaveInv' /\ TornInv' /\ AckedStands' /\ RefusalExplained'
         /\ StoryInv(store)' /\ StoryInv(disk.evidence)' /\ ActivationFits(acked.activation)'
<1>1. /\ disk.evidence \in Evidence /\ disk.evidence.obs \in [Parties -> Observations]
      /\ StoryInv(disk.evidence) /\ AgreeingObs(disk.evidence.obs)
  BY DEF EvidenceInv, TypeOK, StoryInv, Evidence
<1>2. /\ status = "down" /\ save.at = "none"
      /\ UNCHANGED <<save, disk, acked>>
  BY DEF Restart, EvidenceInv, SaveInv
<1>3. SaveInv'
  BY <1>2 DEF SaveInv
<1>4. CASE status' = "refused" /\ UNCHANGED <<store, torn>>
           /\ (\/ Foreign(disk) \/ Unresolved(disk.evidence.obs)
               \/ Headless(disk.evidence.activation) \/ Overfull(disk))
  <2>1. Foreign(disk) \/ Overfull(disk)
    BY <1>1, <1>4, NeverUnresolved DEF StoryInv, ActivationFits, Headless
  <2>2. RefusalExplained'
    BY <1>2, <2>1 DEF RefusalExplained, Foreign, Overfull
  <2>3. TornInv' /\ AckedStands'
    BY <1>2, <1>4 DEF EvidenceInv, TornInv, AckedStands
  <2> QED BY <1>2, <1>3, <1>4, <2>2, <2>3 DEF EvidenceInv
<1>5. CASE /\ status' = "up" /\ torn' = disk.torn
           /\ store' = [disk.evidence EXCEPT !.obs = Restored(@)]
  <2>1. store' = disk.evidence
    <3> DEFINE o == disk.evidence.obs
    <3>1. Restored(o) = o
      BY <1>1, RestoredSame
    <3>2. store' = [disk.evidence EXCEPT !.obs = o]
      BY <1>5, <3>1
    <3> QED BY <1>1, <3>2 DEF Evidence
  <2>2. TornInv' /\ AckedStands' /\ RefusalExplained'
    BY <1>2, <1>5, <2>1 DEF EvidenceInv, TornInv, AckedStands, RefusalExplained
  <2> QED BY <1>1, <1>2, <1>3, <2>1, <2>2 DEF EvidenceInv
<1> QED BY <1>4, <1>5 DEF Restart

-----------------------------------------------------------------------------
(* Types and requests, action by action.                                   *)
CallRecords == [op : {"idle", "observe", "query", "refresh", "activate"},
                state : States \cup {None}, signed : SUBSET Parties,
                funding : Fundings \cup {None}, height : Tips \cup {0}, l1 : Statuses]

LEMMA IdleType == Idle \in CallRecords
BY DEF Idle, CallRecords, Statuses

LEMMA NoSaveType ==
  NoSave \in [at : {"none", "observations", "proofs"}, entry : Entries \cup {NoSave.entry},
              evidence : Evidence, before : Evidence, torn : BOOLEAN]
BY EmptyStory DEF NoSave

(* What a request does to the table of calls. *)
LEMMA BeginTypes ==
  ASSUME TypeOK, CallsInv, NEW c \in Calls, NEW call \in CallRecords, Begin(c, call),
         call.op \in {"observe", "activate"} => call.state \in States
  PROVE  TypeOK' /\ CallsInv'
<1> USE DEF Begin, Goto
<1>1. calls \in [Calls -> CallRecords] /\ calls' \in [Calls -> CallRecords]
  BY DEF TypeOK, CallRecords
<1>2. requests' \in 0 .. MaxRequests
  BY BoundsAssumption DEF TypeOK
<1>3. TypeOK'
  BY <1>1, <1>2 DEF TypeOK, CallRecords
<1>4. CallsInv'
  BY <1>1 DEF CallsInv
<1> QED BY <1>3, <1>4

LEMMA EndTypes ==
  ASSUME TypeOK, CallsInv, NEW c \in Calls, End(c), UNCHANGED status
  PROVE  /\ calls' \in [Calls -> CallRecords] /\ CallsInv'
<1> USE DEF End
<1>1. calls \in [Calls -> CallRecords]
  BY DEF TypeOK, CallRecords
<1>2. calls' \in [Calls -> CallRecords]
  BY <1>1, IdleType
<1>3. CallsInv'
  BY <1>1 DEF CallsInv, Idle
<1> QED BY <1>2, <1>3

LEMMA KeepTypes ==
  ASSUME TypeOK, UNCHANGED <<store, save>> \/ (Keep(store') /\ Better(store, store'))
  PROVE  /\ store' \in Evidence
         /\ save' \in [at : {"none", "observations", "proofs"},
                       entry : Entries \cup {NoSave.entry},
                       evidence : Evidence, before : Evidence, torn : BOOLEAN]
         /\ save'.at # "none" => save'.entry \in Entries
<1>1. CASE UNCHANGED <<store, save>>
  BY <1>1 DEF TypeOK
<1>2. CASE Keep(store') /\ Better(store, store')
  BY <1>2 DEF TypeOK, Keep, Better
<1> QED BY <1>1, <1>2

LEMMA AnswerType == TypeOK => Answer \in [funding : Fundings, status : Statuses]
BY LifeAssumption DEF TypeOK, Answer, Tips

LEMMA RequestTypes ==
  ASSUME EvidenceInv, NEW c \in Calls, Request(c)
  PROVE  TypeOK' /\ CallsInv'
<1> USE DEF EvidenceInv
<1>0. calls \in [Calls -> CallRecords]
  BY DEF TypeOK, CallRecords
<1>1. ASSUME NEW s \in States, NEW signed \in Signings, BeginObserve(c, s, signed)
      PROVE  TypeOK' /\ CallsInv'
  <2> DEFINE call == [Idle EXCEPT !.op = "observe", !.state = s, !.signed = signed]
  <2>1. call \in CallRecords /\ call.state = s
    BY IdleType DEF CallRecords, Signings
  <2>2. Begin(c, call)
    BY <1>1 DEF BeginObserve
  <2> QED BY <2>1, <2>2, BeginTypes
<1>2. ASSUME NEW s \in States, NEW signed \in Signings, BeginActivate(c, s, signed)
      PROVE  TypeOK' /\ CallsInv'
  <2> DEFINE call == [Idle EXCEPT !.op = "activate", !.state = s]
  <2>1. call \in CallRecords /\ call.state = s
    BY IdleType DEF CallRecords
  <2>2. Begin(c, call)
    BY <1>2 DEF BeginActivate
  <2> QED BY <2>1, <2>2, BeginTypes
<1>3. ASSUME FinishObserve(c)
      PROVE  TypeOK' /\ CallsInv'
  <2>1. End(c) /\ UNCHANGED <<entry, tip, disk, status, acked, torn, bounds>>
    BY <1>3 DEF FinishObserve
  <2>2. calls' \in [Calls -> CallRecords] /\ CallsInv'
    BY <2>1, EndTypes
  <2>3. UNCHANGED <<store, save>> \/ (Keep(store') /\ Better(store, store'))
    BY <1>3, ObserveBetters
  <2> QED BY <2>1, <2>2, <2>3, KeepTypes DEF TypeOK, CallRecords, bounds
<1>4. ASSUME AskHeight(c)
      PROVE  TypeOK' /\ CallsInv'
  <2> DEFINE call == [Idle EXCEPT !.op = "query", !.height = tip]
  <2>1. call \in CallRecords /\ call.op = "query"
    BY IdleType DEF CallRecords, TypeOK, Idle
  <2>2. Begin(c, call)
    BY <1>4 DEF AskHeight
  <2> QED BY <2>1, <2>2, BeginTypes
<1>5. ASSUME CheckAnchor(c)
      PROVE  TypeOK' /\ CallsInv'
  <2>1. /\ UNCHANGED <<entry, store, tip, save, disk, status, acked, torn, bounds>>
        /\ calls[c].op = "query"
    BY <1>5 DEF CheckAnchor
  <2>2. CASE End(c)
    <3>1. calls' \in [Calls -> CallRecords] /\ CallsInv'
      BY <2>1, <2>2, EndTypes
    <3> QED BY <2>1, <3>1 DEF TypeOK, CallRecords, bounds
  <2>3. CASE Goto(c, [calls[c] EXCEPT !.op = "refresh", !.funding = Answer.funding,
                                      !.l1 = Answer.status])
    <3> DEFINE call == [calls[c] EXCEPT !.op = "refresh", !.funding = Answer.funding,
                                        !.l1 = Answer.status]
    <3>0. call \in CallRecords /\ call.op = "refresh"
      <4>1. calls[c] \in CallRecords
        BY <1>0
      <4>2. Answer.funding \in Fundings /\ Answer.status \in Statuses
        BY AnswerType
      <4> QED BY <4>1, <4>2 DEF CallRecords
    <3>a. calls' = [calls EXCEPT ![c] = call]
      BY <2>3 DEF Goto
    <3> HIDE DEF call
    <3>1. calls' \in [Calls -> CallRecords] /\ calls'[c].op = "refresh"
          /\ \A d \in Calls \ {c} : calls'[d] = calls[d]
      BY <1>0, <3>0, <3>a
    <3>2. CallsInv'
      BY <2>1, <3>1 DEF CallsInv
    <3> QED BY <2>1, <3>1, <3>2 DEF TypeOK, CallRecords, bounds
  <2> QED BY <1>5, <2>2, <2>3 DEF CheckAnchor
<1>6. ASSUME ApplyAnchor(c)
      PROVE  TypeOK' /\ CallsInv'
  <2>1. End(c) /\ UNCHANGED <<store, tip, save, disk, status, acked, torn, bounds>>
    BY <1>6 DEF ApplyAnchor
  <2>2. calls' \in [Calls -> CallRecords] /\ CallsInv'
    BY <2>1, EndTypes
  <2>3. entry' \in Entries
    BY <1>0, <1>6 DEF ApplyAnchor, TypeOK, Entries, CallRecords
  <2> QED BY <2>1, <2>2, <2>3 DEF TypeOK, CallRecords, bounds
<1>7. ASSUME FinishActivate(c)
      PROVE  TypeOK' /\ CallsInv'
  <2>1. End(c) /\ UNCHANGED <<entry, tip, disk, status, acked, torn, bounds>>
    BY <1>7 DEF FinishActivate
  <2>2. calls' \in [Calls -> CallRecords] /\ CallsInv'
    BY <2>1, EndTypes
  <2>3. UNCHANGED <<store, save>> \/ (Keep(store') /\ Better(store, store'))
    BY <1>7, ActivateBetters
  <2> QED BY <2>1, <2>2, <2>3, KeepTypes DEF TypeOK, CallRecords, bounds
<1> QED BY <1>1, <1>2, <1>3, <1>4, <1>5, <1>6, <1>7 DEF Request

LEMMA OtherTypes ==
  ASSUME EvidenceInv,
         \/ \E t \in Terms : Register(t)
         \/ Mine \/ SaveObservations \/ SaveProofs \/ SaveActivations \/ Crash \/ Restart
         \/ UNCHANGED vars
  PROVE  TypeOK' /\ CallsInv'
<1> USE DEF EvidenceInv
<1>1. ASSUME NEW t \in Terms, Register(t) PROVE TypeOK' /\ CallsInv'
  <2>1. entry' \in Entries
    BY <1>1 DEF Register, Registered, Entries, Statuses
  <2>2. registers' \in 0 .. MaxRegisters
    BY <1>1, BoundsAssumption DEF Register, TypeOK
  <2> QED BY <1>1, <2>1, <2>2 DEF Register, TypeOK, CallsInv
<1>2. CASE Mine
  BY <1>2 DEF Mine, TypeOK, CallsInv, bounds
<1>3. CASE SaveObservations
  <2>1. /\ [Empty EXCEPT !.obs = store.obs] \in Evidence
        /\ store \in Evidence /\ entry \in Entries /\ torn \in BOOLEAN
    BY EmptyStory DEF TypeOK, Evidence
  <2>2. saves' \in 0 .. MaxSaves
    BY <1>3, BoundsAssumption DEF SaveObservations, TypeOK
  <2> QED BY <1>3, <2>1, <2>2 DEF SaveObservations, TypeOK, CallsInv
<1>4. CASE SaveProofs
  <2>1. [save.evidence EXCEPT !.proofs = store.proofs] \in Evidence
    BY DEF TypeOK, Evidence
  <2>2. save' = [save EXCEPT !.at = "proofs",
                             !.evidence = [save.evidence EXCEPT !.proofs = store.proofs]]
    BY <1>4 DEF SaveProofs, TypeOK
  <2> QED BY <1>4, <2>1, <2>2 DEF SaveProofs, TypeOK, CallsInv, bounds
<1>5. CASE SaveActivations
  <2>1. [save.evidence EXCEPT !.activation = store.activation] \in Evidence
    BY DEF TypeOK, Evidence
  <2>2. disk' \in [entry : Entries, evidence : Evidence, torn : BOOLEAN]
    BY <1>5, <2>1 DEF SaveActivations, TypeOK
  <2> QED BY <1>5, <2>2, NoSaveType DEF SaveActivations, TypeOK, CallsInv, NoSave, bounds
<1>6. CASE Crash
  <2>1. crashes' \in 0 .. MaxCrashes /\ entry' \in Entries /\ store' \in Evidence
    BY <1>6, BoundsAssumption, EmptyStory DEF Crash, TypeOK
  <2>2. calls' \in [Calls -> CallRecords]
    BY <1>6, IdleType DEF Crash
  <2>3. CallsInv'
    BY <1>6 DEF Crash, CallsInv, Idle
  <2> QED BY <1>6, <2>1, <2>2, <2>3, NoSaveType DEF Crash, TypeOK, CallRecords, NoSave
<1>7. CASE Restart
  <2>1. /\ store' \in Evidence /\ torn' \in BOOLEAN /\ status' \in {"up", "refused"}
        /\ UNCHANGED <<entry, calls, tip, save, disk, acked, bounds>>
    <3>1. /\ disk.evidence \in Evidence /\ disk.torn \in BOOLEAN
          /\ disk.evidence.obs \in [Parties -> Observations]
          /\ AgreeingObs(disk.evidence.obs)
      BY DEF TypeOK, StoryInv, Evidence
    <3>2. [disk.evidence EXCEPT !.obs = Restored(@)] \in Evidence
      BY <3>1, RestoredSame DEF Evidence
    <3> QED BY <1>7, <3>1, <3>2 DEF Restart, TypeOK
  <2>2. CallsInv'
    BY <1>7, <2>1 DEF Restart, CallsInv
  <2> QED BY <2>1, <2>2 DEF TypeOK, bounds
<1>8. CASE UNCHANGED vars
  BY <1>8 DEF vars, TypeOK, CallsInv, bounds
<1> QED BY <1>1, <1>2, <1>3, <1>4, <1>5, <1>6, <1>7, <1>8

-----------------------------------------------------------------------------
(* The theorems.                                                           *)
LEMMA InitHolds == Init => EvidenceInv
<1> SUFFICES ASSUME Init PROVE EvidenceInv
  OBVIOUS
<1> USE DEF Init
<1>1. entry \in Entries
  BY DEF Registered, Entries, Statuses
<1>2. calls \in [Calls -> CallRecords] /\ CallsInv
  BY IdleType DEF CallsInv, Idle
<1>3. TypeOK
  <2>1. disk \in [entry : Entries, evidence : Evidence, torn : BOOLEAN]
    BY <1>1, EmptyStory
  <2>2. save \in [at : {"none", "observations", "proofs"},
                  entry : Entries \cup {NoSave.entry},
                  evidence : Evidence, before : Evidence, torn : BOOLEAN]
    BY NoSaveType
  <2>3. save.at = "none" /\ store \in Evidence /\ acked \in Evidence
    BY EmptyStory DEF NoSave
  <2>4. /\ requests \in 0 .. MaxRequests /\ registers \in 0 .. MaxRegisters
        /\ saves \in 0 .. MaxSaves /\ crashes \in 0 .. MaxCrashes
    BY BoundsAssumption
  <2> QED BY <1>1, <1>2, <2>1, <2>2, <2>3, <2>4 DEF TypeOK, CallRecords
<1>4. SaveInv
  BY DEF SaveInv, NoSave
<1>5. TornInv
  BY DEF TornInv, HeadHeld, Empty
<1>6. AckedStands
  BY EmptyStory, HonoursSelf DEF AckedStands, StoryInv
<1>7. RefusalExplained
  BY DEF RefusalExplained
<1> QED BY <1>2, <1>3, <1>4, <1>5, <1>6, <1>7, EmptyStory DEF EvidenceInv, StoryInv

LEMMA StepKeeps == EvidenceInv /\ [Next]_vars => EvidenceInv'
<1> SUFFICES ASSUME EvidenceInv, [Next]_vars PROVE EvidenceInv'
  OBVIOUS
<1> DEFINE Rest == /\ SaveInv /\ TornInv /\ AckedStands /\ RefusalExplained
                   /\ StoryInv(store) /\ StoryInv(disk.evidence)
                   /\ ActivationFits(acked.activation)
<1>1. ASSUME NEW c \in Calls, Request(c) PROVE Rest'
  <2>1. ASSUME NEW s \in States, NEW signed \in Signings,
               BeginObserve(c, s, signed) \/ BeginActivate(c, s, signed)
        PROVE  Rest'
    BY <2>1, OthersKeep DEF BeginObserve, BeginActivate, Begin
  <2>2. ASSUME FinishObserve(c) PROVE Rest'
    BY <2>2, ObserveBetters, BetterKeeps, OthersKeep DEF FinishObserve
  <2>3. ASSUME AskHeight(c) \/ CheckAnchor(c) \/ ApplyAnchor(c) PROVE Rest'
    BY <2>3, OthersKeep DEF AskHeight, Begin, CheckAnchor, ApplyAnchor
  <2>4. ASSUME FinishActivate(c) PROVE Rest'
    BY <2>4, ActivateBetters, BetterKeeps, OthersKeep DEF FinishActivate
  <2> QED BY <1>1, <2>1, <2>2, <2>3, <2>4 DEF Request
<1>2. ASSUME NEW t \in Terms, Register(t) PROVE Rest'
  BY <1>2, OthersKeep DEF Register
<1>3. ASSUME Mine PROVE Rest'
  BY <1>3, OthersKeep DEF Mine
<1>4. ASSUME SaveObservations PROVE Rest'
  BY <1>4, SaveObservationsKeeps
<1>5. ASSUME SaveProofs PROVE Rest'
  BY <1>5, SaveProofsKeeps
<1>6. ASSUME SaveActivations PROVE Rest'
  BY <1>6, SaveActivationsKeeps
<1>7. ASSUME Crash PROVE Rest'
  BY <1>7, CrashKeeps
<1>8. ASSUME Restart PROVE Rest'
  BY <1>8, RestartKeeps
<1>9. ASSUME UNCHANGED vars PROVE Rest'
  BY <1>9, OthersKeep DEF vars
<1>10. Rest'
  BY <1>1, <1>2, <1>3, <1>4, <1>5, <1>6, <1>7, <1>8, <1>9 DEF Next
<1>11. TypeOK' /\ CallsInv'
  BY RequestTypes, OtherTypes DEF Next
<1> QED BY <1>10, <1>11 DEF EvidenceInv

LEMMA EvidenceAlways == Spec => []EvidenceInv
BY InitHolds, StepKeeps, PTL DEF Spec

(***************************************************************************)
(* The two observations of a channel agree, the head is not contradicted   *)
(* unless memory stems from a torn save, and it descends from its          *)
(* certificate: observe, activate and load_into.                           *)
(***************************************************************************)
THEOREM EvidenceIsOneStory == Spec => []EvidenceAgrees
<1>1. EvidenceInv => EvidenceAgrees
  <2> SUFFICES ASSUME EvidenceInv PROVE EvidenceAgrees
    OBVIOUS
  <2> USE DEF EvidenceInv, StoryInv
  <2>1. KeysAgree
    <3>1. store.obs \in [Parties -> Observations]
      BY DEF TypeOK, Evidence
    <3> QED BY <3>1, OnePredecessor DEF KeysAgree, AgreeingObs
  <2>2. HeadUncontradicted
    BY DEF TornInv, HeadHeld, HeadUncontradicted
  <2>3. HeadDescends
    BY DEF ActivationFits, HeadDescends
  <2> QED BY <2>1, <2>2, <2>3 DEF EvidenceAgrees
<1> QED BY EvidenceAlways, <1>1, PTL

(***************************************************************************)
(* What was answered for before a finished save stands in the snapshot and *)
(* in memory, over crashes: export_persist_bundle and load_into.           *)
(***************************************************************************)
THEOREM AckedEvidenceStands == Spec => []AckedStands
<1>1. EvidenceInv => AckedStands
  BY DEF EvidenceInv
<1> QED BY EvidenceAlways, <1>1, PTL

(***************************************************************************)
(* load_into refuses a snapshot only over evidence of another registration *)
(* or incarnation, or over a proof too many: observations that were saved  *)
(* together never contradict one another, and the head fits its            *)
(* certificate.                                                            *)
(***************************************************************************)
THEOREM RefusalsAreExplained == Spec => []RefusalExplained
<1>1. EvidenceInv => RefusalExplained
  BY DEF EvidenceInv
<1> QED BY EvidenceAlways, <1>1, PTL
=============================================================================
