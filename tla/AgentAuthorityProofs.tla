------------------------- MODULE AgentAuthorityProofs -------------------------
(***************************************************************************)
(* The authority of an agent, for any number of keys, challenges, intents  *)
(* and requests at once.  AuthorityInv, the inductive invariant, has four  *)
(* parts: types, the identity and its snapshot, what claims of a nonce     *)
(* know of each other (ClaimsInv), and which keys are bound (OnceInv).     *)
(***************************************************************************)
EXTENDS AgentAuthority, FiniteSetTheorems, TLAPS

NonceTable(S) ==
  /\ S \subseteq Intents /\ IsFiniteSet(S) /\ Cardinality(S) <= MaxNonces
  /\ \A i, j \in S : i.nonce = j.nonce => i = j

TypesInv ==
  /\ AuthorityTypeOK
  /\ NonceTable(nonces) /\ NonceTable(stored.nonces)
  /\ stored.bound \subseteq {i.key : i \in Intents}
  /\ \A p \in Payers : payCalls[p].at # "idle" => payCalls[p].intent \in Intents
  /\ \A x \in paid : x.intent \in Intents /\ x.at \in 0 .. LastSecond

Verifications == [at : {"idle", "issue", "write"}, challenge : Challenges \cup {Nobody}]
Calls == [at : {"idle", "claim", "admit", "create", "prepare", "release"},
          intent : Intents \cup {Nobody}, since : 0 .. LastSecond, claimed : BOOLEAN]

(* What is said of the identity also holds of the snapshot. *)
IdentityInv ==
  /\ VerifiedKeyProved /\ RevocationStands
  /\ stored.identity # Nobody =>
       (stored.identity.verified => swapped \/ stored.identity.key \in stored.identity.proved)
  /\ answered => stored.identity # Nobody /\ stored.identity.revoked

(* The intents that have claimed their nonce, with the second they did. *)
Active == {p \in Payers : payCalls[p].at \in {"admit", "create", "prepare"}}
Claims == {<<x.intent, x.at>> : x \in paid}
            \cup {<<payCalls[p].intent, payCalls[p].since>> : p \in Active}

(* A claim is in the table until it lapses or is given back. *)
Held(i) ==
  \/ i.nonce \in freed
  \/ \E n \in nonces : n.nonce = i.nonce /\ n.key = i.key
  \/ Lapsed(i, second)

Apart(i, s, j, t) ==
  i.nonce = j.nonce /\ i.key # j.key => i.nonce \in freed \/ Lapsed(i, t) \/ Lapsed(j, s)

ClaimsInv ==
  \A c \in Claims : Held(c[1]) /\ \A d \in Claims : Apart(c[1], c[2], d[1], d[2])

(* A key that is paid for or about to be is bound, unless it was dropped. *)
Preparing == {p \in Payers : payCalls[p].at = "prepare"}
KeyOfCall(p) == payCalls[p].intent.key

OnceInv ==
  /\ \A x \in paid : x.intent.key \in bound \cup dropped
  /\ IntentPaidOnce
  /\ \A p \in Preparing :
       /\ KeyOfCall(p) \in bound \cup dropped
       /\ \A x \in paid : x.intent.key = KeyOfCall(p) => KeyOfCall(p) \in dropped
       /\ \A q \in Preparing : q # p /\ KeyOfCall(q) = KeyOfCall(p) => KeyOfCall(p) \in dropped

AuthorityInv == TypesInv /\ IdentityInv /\ ClaimsInv /\ OnceInv

-----------------------------------------------------------------------------
(* Types of the records and of the table of nonces.                        *)
LEMMA IntentFields ==
  ASSUME NEW i \in Intents
  PROVE  i.expires \in Nat /\ i.nonce \in Nonces /\ i.key \in {j.key : j \in Intents} /\ i # Nobody
BY AuthorityAssumption DEF Nonces

LEMMA Bounds ==
  /\ ChallengeLife \in Nat /\ IntentLife \in Nat /\ MaxNonces \in Nat /\ LastSecond \in Nat
  /\ MaxStores \in Nat /\ MaxReloads \in Nat /\ MaxForgotten \in Nat
BY AuthorityAssumption

LEMMA SubTable ==
  ASSUME NEW S, NonceTable(S), NEW T \in SUBSET S
  PROVE  NonceTable(T)
<1>1. IsFiniteSet(T) /\ Cardinality(T) <= Cardinality(S)
  BY FS_Subset DEF NonceTable
<1>2. Cardinality(T) \in Nat /\ Cardinality(S) \in Nat
  BY <1>1, FS_CardinalityType DEF NonceTable
<1> QED BY <1>1, <1>2, Bounds DEF NonceTable

LEMMA AddTable ==
  ASSUME NEW S, NonceTable(S), Cardinality(S) < MaxNonces,
         NEW i \in Intents, \A n \in S : n.nonce # i.nonce
  PROVE  NonceTable(S \cup {i})
<1>1. i \notin S
  OBVIOUS
<1>2. IsFiniteSet(S \cup {i}) /\ Cardinality(S \cup {i}) = Cardinality(S) + 1
  BY <1>1, FS_AddElement DEF NonceTable
<1>3. Cardinality(S) \in Nat
  BY FS_CardinalityType DEF NonceTable
<1> QED BY <1>2, <1>3, Bounds DEF NonceTable

LEMMA EmptyTable == NonceTable({})
BY FS_EmptySet, Bounds DEF NonceTable

-----------------------------------------------------------------------------
LEMMA InitAuthorityInv == AuthorityInit => AuthorityInv
<1> SUFFICES ASSUME AuthorityInit PROVE AuthorityInv
  OBVIOUS
<1> USE DEF AuthorityInit
<1>1. Nobody \in Identity \cup {Nobody} /\ 0 \in 0 .. LastSecond /\ 0 \in 0 .. MaxStores
      /\ 0 \in 0 .. MaxReloads
  BY Bounds
<1>2. verifications \in [Verifiers -> [at : {"idle", "issue", "write"},
                                       challenge : Challenges \cup {Nobody}]]
  BY DEF NoVerification
<1>3. payCalls \in [Payers -> Calls] /\ \A p \in Payers : payCalls[p].at = "idle"
  BY <1>1 DEF NoCall, Calls
<1>4. AuthorityTypeOK
  BY <1>1, <1>2, <1>3, EmptyTable DEF AuthorityTypeOK, NonceTable, Calls
<1>5. TypesInv
  BY <1>3, <1>4, EmptyTable DEF TypesInv
<1>6. IdentityInv
  BY DEF IdentityInv, VerifiedKeyProved, RevocationStands, NoVerification
<1>7. Claims = {} /\ Preparing = {}
  BY <1>3 DEF Claims, Active, Preparing
<1> QED BY <1>5, <1>6, <1>7 DEF AuthorityInv, ClaimsInv, OnceInv, IntentPaidOnce

-----------------------------------------------------------------------------
(* Types.                                                                  *)
LEMMA SameTypes ==
  ASSUME TypesInv, UNCHANGED <<nonces, bound, paid, stored, second, freed, swapped, reloads, stores,
                               answered>>,
         identity' \in Identity \cup {Nobody}, challenges' \subseteq [id : Challenges, expires : Nat],
         \A c, d \in challenges' : c.id = d.id => c = d,
         verifications' \in [Verifiers -> Verifications],
         payCalls' \in [Payers -> Calls],
         \A p \in Payers : payCalls'[p].at # "idle" => payCalls'[p].intent \in Intents
  PROVE  TypesInv'
BY DEF TypesInv, AuthorityTypeOK, NonceTable, Calls, Verifications, Nonces

LEMMA IdentityTypes ==
  ASSUME TypesInv,
         \/ \E k \in AgentKeys : Register(k)
         \/ \E v \in Verifiers : \/ BeginChallenge(v) \/ FinishVerify(v)
                                 \/ \E id \in Challenges : StoreChallenge(v, id)
                                 \/ \E c \in challenges, k \in AgentKeys : BeginVerify(v, c, k)
         \/ \E pays \in BOOLEAN : SetScope(pays)
         \/ Revoke
  PROVE  TypesInv'
<1> USE DEF payVars
<1>1. /\ identity \in Identity \cup {Nobody} /\ challenges \subseteq [id : Challenges, expires : Nat]
      /\ \A c, d \in challenges : c.id = d.id => c = d
      /\ verifications \in [Verifiers -> Verifications] /\ payCalls \in [Payers -> Calls]
      /\ \A p \in Payers : payCalls[p].at # "idle" => payCalls[p].intent \in Intents
      /\ second \in Nat /\ swapped \in BOOLEAN
  BY Bounds DEF TypesInv, AuthorityTypeOK, Verifications, Calls
<1>2. NoVerification \in Verifications
  BY DEF NoVerification, Verifications
<1>3. ASSUME NEW k \in AgentKeys, Register(k) PROVE TypesInv'
  <2>1. identity' \in Identity
    BY <1>1, <1>3 DEF Register, Identity
  <2>2. swapped' \in BOOLEAN
    BY <1>1, <1>3 DEF Register
  <2> QED BY <1>3, <2>1, <2>2 DEF Register, TypesInv, AuthorityTypeOK, NonceTable
<1>4. ASSUME NEW v \in Verifiers, BeginChallenge(v) PROVE TypesInv'
  <2>1. verifications' \in [Verifiers -> Verifications]
    BY <1>1, <1>4 DEF BeginChallenge, Verifications
  <2> QED BY <1>1, <1>4, <2>1, SameTypes DEF BeginChallenge, ghostVars
<1>5. ASSUME NEW v \in Verifiers, FinishVerify(v) PROVE TypesInv'
  <2>1. identity' \in Identity \cup {Nobody}
    BY <1>1, <1>5 DEF FinishVerify, Identity
  <2>2. challenges' \subseteq challenges
    BY <1>5 DEF FinishVerify
  <2>3. verifications' \in [Verifiers -> Verifications]
    BY <1>1, <1>2, <1>5 DEF FinishVerify
  <2> QED BY <1>1, <1>5, <2>1, <2>2, <2>3, SameTypes DEF FinishVerify, ghostVars
<1>6. ASSUME NEW v \in Verifiers, NEW id \in Challenges, StoreChallenge(v, id) PROVE TypesInv'
  <2> DEFINE new == [id |-> id, expires |-> second + ChallengeLife]
  <2>1. new \in [id : Challenges, expires : Nat] /\ new.id = id
    BY <1>1, Bounds
  <2>2. /\ id \notin {c.id : c \in challenges}
        /\ challenges' \subseteq challenges \cup {new}
    BY <1>6 DEF StoreChallenge
  <2> HIDE DEF new
  <2>3. \A c, d \in challenges' : c.id = d.id => c = d
    BY <1>1, <2>1, <2>2
  <2>4. challenges' \subseteq [id : Challenges, expires : Nat]
    BY <1>1, <2>1, <2>2
  <2>5. verifications' \in [Verifiers -> Verifications]
    BY <1>1, <1>2, <1>6 DEF StoreChallenge
  <2> QED BY <1>1, <1>6, <2>3, <2>4, <2>5, SameTypes DEF StoreChallenge, ghostVars
<1>7. ASSUME NEW v \in Verifiers, NEW c \in challenges, NEW k \in AgentKeys, BeginVerify(v, c, k)
      PROVE  TypesInv'
  <2>1. identity' \in Identity
    BY <1>1, <1>7 DEF BeginVerify, Identity
  <2>2. verifications' \in [Verifiers -> Verifications]
    BY <1>1, <1>7 DEF BeginVerify, Verifications
  <2> QED BY <1>1, <1>7, <2>1, <2>2, SameTypes DEF BeginVerify, ghostVars
<1>8. ASSUME NEW pays \in BOOLEAN, SetScope(pays) PROVE TypesInv'
  <2>1. identity' \in Identity
    BY <1>1, <1>8 DEF SetScope, Identity
  <2> QED BY <1>1, <1>8, <2>1, SameTypes DEF SetScope, ghostVars
<1>9. CASE Revoke
  <2>1. identity' \in Identity /\ challenges' = {}
    BY <1>1, <1>9 DEF Revoke, Identity
  <2> QED BY <1>1, <1>9, <2>1, SameTypes DEF Revoke, ghostVars
<1> QED BY <1>3, <1>4, <1>5, <1>6, <1>7, <1>8, <1>9

(* What a step may do with the record of a request. *)
LEMMA CallSteps ==
  ASSUME TypesInv, NEW p \in Payers, payCalls[p].at # "idle",
         \/ \E place \in {"claim", "admit", "create", "prepare", "release"} : CallTo(p, place)
         \/ EndCall(p) \/ FailCall(p)
  PROVE  /\ payCalls' \in [Payers -> Calls]
         /\ \A q \in Payers : payCalls'[q].at # "idle" => payCalls'[q].intent \in Intents
<1>1. /\ payCalls \in [Payers -> Calls]
      /\ \A q \in Payers : payCalls[q].at # "idle" => payCalls[q].intent \in Intents
  BY DEF TypesInv, AuthorityTypeOK, Calls
<1>2. NoCall \in Calls /\ NoCall.at = "idle"
  BY Bounds DEF NoCall, Calls
<1>3. ASSUME NEW place \in {"claim", "admit", "create", "prepare", "release"}, CallTo(p, place)
      PROVE  /\ payCalls' \in [Payers -> Calls]
             /\ \A q \in Payers : payCalls'[q].at # "idle" => payCalls'[q].intent \in Intents
  BY <1>1, <1>3 DEF CallTo, Calls
<1>4. CASE EndCall(p)
  BY <1>1, <1>2, <1>4 DEF EndCall
<1>5. CASE FailCall(p)
  BY <1>1, <1>2, <1>5 DEF FailCall, Calls
<1> QED BY <1>3, <1>4, <1>5

LEMMA NewCalls ==
  /\ \A c \in Calls, s \in 0 .. LastSecond, b \in BOOLEAN :
       LET call == [c EXCEPT !.at = "admit", !.since = s, !.claimed = b]
       IN call \in Calls /\ call.intent = c.intent /\ call.at = "admit" /\ call.since = s
  /\ NoCall \in Calls /\ NoCall.at = "idle"
  /\ \A i \in Intents : LET call == [NoCall EXCEPT !.at = "claim", !.intent = i]
                       IN call \in Calls /\ call.intent = i /\ call.at = "claim"
<1>1. NoCall \in Calls /\ NoCall.at = "idle"
  BY Bounds DEF NoCall, Calls
<1>2. ASSUME NEW c \in Calls, NEW s \in 0 .. LastSecond, NEW b \in BOOLEAN
      PROVE  LET call == [c EXCEPT !.at = "admit", !.since = s, !.claimed = b]
             IN call \in Calls /\ call.intent = c.intent /\ call.at = "admit" /\ call.since = s
  BY DEF Calls
<1>3. ASSUME NEW i \in Intents
      PROVE  LET call == [NoCall EXCEPT !.at = "claim", !.intent = i]
             IN call \in Calls /\ call.intent = i /\ call.at = "claim"
  BY <1>1 DEF Calls
<1> QED BY <1>1, <1>2, <1>3

(* The lock section of claim_agent_intent. *)
LEMMA ClaimTypes == ASSUME TypesInv, NEW p \in Payers, ClaimIntent(p) PROVE TypesInv'
<1> DEFINE i == payCalls[p].intent
           used == {n \in InForce : n.nonce = i.nonce}
           admitted == i.expires > second
                         /\ IF used = {} THEN Cardinality(InForce) < MaxNonces
                                         ELSE \A n \in used : n.key = i.key
           call == [payCalls[p] EXCEPT !.at = "admit", !.since = second, !.claimed = (used = {})]
<1>1. payCalls \in [Payers -> Calls] /\ second \in 0 .. LastSecond /\ NonceTable(nonces)
  BY DEF TypesInv, AuthorityTypeOK, Calls
<1>2. i \in Intents
  BY DEF ClaimIntent, TypesInv
<1>3. NonceTable(InForce)
  BY <1>1, SubTable DEF InForce
<1>4. NonceTable(nonces')
  <2>1. CASE admitted /\ used = {} /\ i.expires > second
    <3>1. nonces' = InForce \cup {i} /\ Cardinality(InForce) < MaxNonces
      BY <1>1, <1>2, <2>1, IntentFields DEF ClaimIntent
    <3> QED BY <1>2, <1>3, <2>1, <3>1, AddTable
  <2>2. CASE ~ (admitted /\ used = {} /\ i.expires > second)
    <3>1. nonces' = nonces \/ nonces' = InForce
      BY <2>2 DEF ClaimIntent
    <3> QED BY <1>1, <1>3, <3>1
  <2> QED BY <2>1, <2>2
<1>5. call \in Calls /\ call.intent = i /\ NoCall \in Calls /\ NoCall.at = "idle"
  <2> DEFINE claiming(b) == [payCalls[p] EXCEPT !.at = "admit", !.since = second, !.claimed = b]
  <2>1. \A b \in BOOLEAN : claiming(b) \in Calls /\ claiming(b).intent = i
    <3>1. payCalls[p] \in Calls
      BY <1>1
    <3> QED BY <1>1, <3>1 DEF Calls
  <2> HIDE DEF claiming
  <2>2. claiming(used = {}) \in Calls /\ claiming(used = {}).intent = i
    BY <2>1, Zenon
  <2> QED BY <2>2, NewCalls DEF claiming
<1>6. payCalls' = [payCalls EXCEPT ![p] = call] \/ payCalls' = [payCalls EXCEPT ![p] = NoCall]
  BY DEF ClaimIntent
<1>7. /\ payCalls' \in [Payers -> Calls]
      /\ \A q \in Payers : payCalls'[q].at # "idle" => payCalls'[q].intent \in Intents
  <2> HIDE DEF call, i
  <2> QED BY <1>1, <1>2, <1>5, <1>6 DEF TypesInv
<1>8. UNCHANGED <<identity, challenges, verifications, second, bound, paid, stored, answered,
                  swapped, freed, stores, reloads>>
  BY DEF ClaimIntent, identityVars, ghostVars
<1> QED BY <1>4, <1>7, <1>8 DEF TypesInv, AuthorityTypeOK, NonceTable, Calls

LEMMA PaymentTypes ==
  ASSUME TypesInv, NEW p \in Payers,
         \/ \E i \in Intents : CheckIntent(p, i)
         \/ ClaimIntent(p) \/ AdmitPayment(p) \/ CreateUnderIntent(p)
         \/ PrepareUnderIntent(p) \/ ReleaseIntent(p)
  PROVE  TypesInv'
<1>1. /\ payCalls \in [Payers -> Calls] /\ second \in 0 .. LastSecond
      /\ \A q \in Payers : payCalls[q].at # "idle" => payCalls[q].intent \in Intents
      /\ identity \in Identity \cup {Nobody} /\ challenges \subseteq [id : Challenges, expires : Nat]
      /\ \A c, d \in challenges : c.id = d.id => c = d
      /\ verifications \in [Verifiers -> Verifications]
  BY DEF TypesInv, AuthorityTypeOK, Calls, Verifications
<1>2. ASSUME NEW i \in Intents, CheckIntent(p, i) PROVE TypesInv'
  <2> DEFINE call == [NoCall EXCEPT !.at = "claim", !.intent = i]
  <2>1. call \in Calls /\ call.intent = i
    BY NewCalls
  <2>2. payCalls' = [payCalls EXCEPT ![p] = call]
    BY <1>2 DEF CheckIntent
  <2> HIDE DEF call
  <2>3. /\ payCalls' \in [Payers -> Calls]
        /\ \A q \in Payers : payCalls'[q].at # "idle" => payCalls'[q].intent \in Intents
    BY <1>1, <2>1, <2>2
  <2> QED BY <1>1, <1>2, <2>3, SameTypes DEF CheckIntent, identityVars, ghostVars
<1>3. CASE AdmitPayment(p)
  <2>1. /\ payCalls' \in [Payers -> Calls]
        /\ \A q \in Payers : payCalls'[q].at # "idle" => payCalls'[q].intent \in Intents
    BY <1>3, CallSteps DEF AdmitPayment
  <2> QED BY <1>1, <1>3, <2>1, SameTypes DEF AdmitPayment, identityVars, ghostVars
<1>4. CASE CreateUnderIntent(p)
  <2>1. /\ payCalls' \in [Payers -> Calls]
        /\ \A q \in Payers : payCalls'[q].at # "idle" => payCalls'[q].intent \in Intents
    BY <1>4, CallSteps DEF CreateUnderIntent
  <2>2. payCalls[p].intent.key \in {i.key : i \in Intents}
    BY <1>1, <1>4 DEF CreateUnderIntent
  <2>3. bound' \subseteq bound \cup {payCalls[p].intent.key}
    BY <1>4 DEF CreateUnderIntent
  <2>4. UNCHANGED <<identity, challenges, verifications, second, nonces, paid, stored, answered,
                    swapped, freed, stores, reloads>>
    BY <1>4 DEF CreateUnderIntent, identityVars, ghostVars
  <2> QED BY <2>1, <2>2, <2>3, <2>4 DEF TypesInv, AuthorityTypeOK, NonceTable, Calls
<1>5. CASE PrepareUnderIntent(p)
  <2> DEFINE new == [intent |-> payCalls[p].intent, at |-> payCalls[p].since,
                     again |-> \E x \in paid : x.intent.key = payCalls[p].intent.key]
  <2>1. /\ payCalls' \in [Payers -> Calls]
        /\ \A q \in Payers : payCalls'[q].at # "idle" => payCalls'[q].intent \in Intents
    BY <1>5, CallSteps DEF PrepareUnderIntent
  <2>2. new.intent \in Intents /\ new.at \in 0 .. LastSecond
    BY <1>1, <1>5 DEF PrepareUnderIntent, Calls
  <2>3. paid' \subseteq paid \cup {new}
    BY <1>5 DEF PrepareUnderIntent
  <2> HIDE DEF new
  <2>4. \A x \in paid' : x.intent \in Intents /\ x.at \in 0 .. LastSecond
    BY <2>2, <2>3 DEF TypesInv
  <2>5. UNCHANGED <<identity, challenges, verifications, second, nonces, bound, stored, answered,
                    swapped, freed, stores, reloads>>
    BY <1>5 DEF PrepareUnderIntent, identityVars, ghostVars
  <2> QED BY <2>1, <2>4, <2>5 DEF TypesInv, AuthorityTypeOK, NonceTable, Calls
<1>6. CASE ReleaseIntent(p)
  <2>1. /\ payCalls' \in [Payers -> Calls]
        /\ \A q \in Payers : payCalls'[q].at # "idle" => payCalls'[q].intent \in Intents
    BY <1>6, CallSteps DEF ReleaseIntent
  <2>2. NonceTable(nonces')
    <3>1. NonceTable(nonces) /\ nonces' \in SUBSET nonces
      BY <1>6 DEF ReleaseIntent, TypesInv
    <3> QED BY <3>1, SubTable
  <2>3. freed' \subseteq Nonces
    <3>1. payCalls[p].intent.nonce \in Nonces /\ freed \subseteq Nonces
      BY <1>1, <1>6, IntentFields DEF ReleaseIntent, TypesInv, AuthorityTypeOK
    <3> QED BY <1>6, <3>1 DEF ReleaseIntent
  <2>4. UNCHANGED <<identity, challenges, verifications, second, bound, paid, stored, answered,
                    swapped, stores, reloads>>
    BY <1>6 DEF ReleaseIntent, identityVars
  <2> QED BY <2>1, <2>2, <2>3, <2>4 DEF TypesInv, AuthorityTypeOK, NonceTable, Calls
<1> QED BY <1>2, <1>3, <1>4, <1>5, <1>6, ClaimTypes

LEMMA OtherTypes ==
  ASSUME TypesInv, Tick \/ SaveAuthority \/ ReloadAuthority \/ \E k \in bound : ForgetKey(k)
  PROVE  TypesInv'
<1> USE DEF TypesInv, AuthorityTypeOK
<1>1. CASE Tick
  BY <1>1, Bounds DEF Tick, identityVars, payVars, ghostVars, NonceTable
<1>2. CASE SaveAuthority
  BY <1>2, Bounds DEF SaveAuthority, identityVars, payVars, ghostVars, NonceTable
<1>3. ASSUME NEW k \in bound, ForgetKey(k) PROVE TypesInv'
  BY <1>3 DEF ForgetKey, identityVars, NonceTable
<1>4. CASE ReloadAuthority
  <2>1. NonceTable(nonces')
    <3>1. NonceTable(stored.nonces) /\ nonces' \in SUBSET stored.nonces
      BY <1>4 DEF ReloadAuthority
    <3> QED BY <3>1, SubTable
  <2>2. freed' \subseteq Nonces
    BY <1>4 DEF ReloadAuthority, Nonces
  <2>3. /\ verifications' = [v \in Verifiers |-> NoVerification]
        /\ payCalls' = [p \in Payers |-> NoCall]
        /\ reloads' \in 0 .. MaxReloads
        /\ identity' = stored.identity /\ challenges' = {} /\ bound' = stored.bound
        /\ UNCHANGED <<second, paid, stored, answered, swapped, stores>>
    BY <1>4, Bounds DEF ReloadAuthority
  <2>4. NoVerification \in Verifications /\ NoCall \in Calls /\ NoCall.at = "idle"
    BY Bounds DEF NoVerification, NoCall, Verifications, Calls
  <2> QED BY <2>1, <2>2, <2>3, <2>4 DEF NonceTable, Verifications, Calls
<1> QED BY <1>1, <1>2, <1>3, <1>4

LEMMA TypesStep == ASSUME TypesInv, AuthorityStep PROVE TypesInv'
BY IdentityTypes, PaymentTypes, OtherTypes DEF AuthorityStep

-----------------------------------------------------------------------------
(* The identity and its snapshot.                                          *)
LEMMA SameIdentity ==
  ASSUME IdentityInv, UNCHANGED <<identity, verifications, stored, answered, swapped>>
  PROVE  IdentityInv'
BY DEF IdentityInv, VerifiedKeyProved, RevocationStands, Revoked

LEMMA IdentityStep == ASSUME TypesInv, IdentityInv, AuthorityStep PROVE IdentityInv'
<1> USE DEF payVars, ghostVars, identityVars
<1>1. /\ identity \in Identity \cup {Nobody} /\ stored.identity \in Identity \cup {Nobody}
      /\ verifications \in [Verifiers -> Verifications] /\ swapped \in BOOLEAN /\ answered \in BOOLEAN
  BY DEF TypesInv, AuthorityTypeOK, Verifications
<1>2. /\ NoVerification.at = "idle"
      /\ IdentityInv <=>
           /\ identity # Nobody => (identity.verified => swapped \/ identity.key \in identity.proved)
           /\ \A v \in Verifiers : verifications[v].at = "write" =>
                identity # Nobody /\ (swapped \/ identity.key \in identity.proved)
           /\ answered => identity # Nobody /\ identity.revoked
           /\ stored.identity # Nobody => (stored.identity.verified =>
                swapped \/ stored.identity.key \in stored.identity.proved)
           /\ answered => stored.identity # Nobody /\ stored.identity.revoked
  BY DEF IdentityInv, VerifiedKeyProved, RevocationStands, Revoked, NoVerification
<1>3. ASSUME NEW k \in AgentKeys, Register(k) PROVE IdentityInv'
  <2>1. CASE identity = Nobody
    <3>1. identity' = [key |-> k, proved |-> {}, verified |-> FALSE, pays |-> TRUE, revoked |-> FALSE]
      BY <1>3, <2>1 DEF Register
    <3>2. UNCHANGED <<verifications, stored, answered>> /\ (swapped => swapped')
      BY <1>3 DEF Register
    <3>3. ~ answered /\ \A v \in Verifiers : verifications[v].at # "write"
      BY <1>2, <2>1
    <3> QED BY <1>1, <1>2, <3>1, <3>2, <3>3
            DEF IdentityInv, VerifiedKeyProved, RevocationStands, Revoked, Identity
  <2>2. CASE identity # Nobody
    <3>1. /\ identity' = [identity EXCEPT !.key = k] /\ identity' \in Identity
          /\ identity.verified => identity.key = k
          /\ swapped' = (swapped \/ (identity.key # k /\ \E v \in Verifiers : verifications[v].at = "write"))
          /\ UNCHANGED <<verifications, stored, answered>>
      BY <1>1, <1>3, <2>2 DEF Register, Identity
    <3>2. identity' # Nobody
      BY <1>2, <2>2, <3>1, NobodyElse
    <3>3. /\ identity'.proved = identity.proved /\ identity'.verified = identity.verified
          /\ identity'.revoked = identity.revoked /\ identity'.key = k
      BY <1>1, <2>2, <3>1 DEF Identity
    <3> QED BY <1>1, <1>2, <2>2, <3>1, <3>2, <3>3
            DEF IdentityInv, VerifiedKeyProved, RevocationStands, Revoked
  <2> QED BY <2>1, <2>2
<1>4. ASSUME NEW v \in Verifiers, BeginChallenge(v) PROVE IdentityInv'
  <2>1. \A w \in Verifiers : verifications'[w].at = "write" => verifications[w].at = "write"
    BY <1>1, <1>4 DEF BeginChallenge, Verifications
  <2>2. UNCHANGED <<identity, stored, answered, swapped>>
    BY <1>4 DEF BeginChallenge
  <2> QED BY <1>2, <2>1, <2>2 DEF IdentityInv, VerifiedKeyProved, RevocationStands, Revoked
<1>5. ASSUME NEW v \in Verifiers, NEW id \in Challenges, StoreChallenge(v, id) PROVE IdentityInv'
  <2>1. \A w \in Verifiers : verifications'[w].at = "write" => verifications[w].at = "write"
    BY <1>1, <1>2, <1>5 DEF StoreChallenge
  <2>2. UNCHANGED <<identity, stored, answered, swapped>>
    BY <1>5 DEF StoreChallenge
  <2> QED BY <1>2, <2>1, <2>2 DEF IdentityInv, VerifiedKeyProved, RevocationStands, Revoked
<1>6. ASSUME NEW v \in Verifiers, NEW c \in challenges, NEW k \in AgentKeys, BeginVerify(v, c, k)
      PROVE  IdentityInv'
  <2>1. /\ identity \in Identity /\ identity.key = k
        /\ identity' = [identity EXCEPT !.proved = @ \cup {k}]
        /\ UNCHANGED <<stored, answered, swapped>>
    BY <1>1, <1>6 DEF BeginVerify
  <2>2. /\ identity' \in Identity /\ identity'.verified = identity.verified
        /\ identity'.revoked = identity.revoked /\ identity'.key = k
        /\ k \in identity'.proved
    BY <2>1 DEF Identity
  <2>3. identity' # Nobody
    BY <2>2, NobodyElse
  <2> QED BY <1>2, <2>1, <2>2, <2>3, NobodyElse
          DEF IdentityInv, VerifiedKeyProved, RevocationStands, Revoked
<1>7. ASSUME NEW v \in Verifiers, FinishVerify(v) PROVE IdentityInv'
  <2>1. identity # Nobody /\ (swapped \/ identity.key \in identity.proved)
    BY <1>2, <1>7 DEF FinishVerify
  <2>2. identity' = [identity EXCEPT !.verified = TRUE] /\ UNCHANGED <<stored, answered, swapped>>
    BY <1>7, <2>1 DEF FinishVerify
  <2>3. /\ identity' \in Identity /\ identity'.key = identity.key
        /\ identity'.proved = identity.proved /\ identity'.revoked = identity.revoked
    BY <1>1, <2>1, <2>2 DEF Identity
  <2>4. \A w \in Verifiers : verifications'[w].at = "write" => verifications[w].at = "write"
    BY <1>1, <1>2, <1>7 DEF FinishVerify
  <2>5. identity' # Nobody
    BY <2>3, NobodyElse
  <2> QED BY <1>2, <2>1, <2>2, <2>3, <2>4, <2>5
          DEF IdentityInv, VerifiedKeyProved, RevocationStands, Revoked
<1>8. ASSUME NEW pays \in BOOLEAN, SetScope(pays) PROVE IdentityInv'
  <2>1. identity \in Identity /\ identity' = [identity EXCEPT !.pays = pays]
    BY <1>1, <1>8 DEF SetScope
  <2>2. /\ identity' \in Identity /\ identity'.key = identity.key
        /\ identity'.proved = identity.proved /\ identity'.revoked = identity.revoked
        /\ identity'.verified = identity.verified
    BY <2>1 DEF Identity
  <2>3. identity' # Nobody /\ UNCHANGED <<verifications, stored, answered, swapped>>
    BY <1>8, <2>2, NobodyElse DEF SetScope
  <2> QED BY <1>2, <2>1, <2>2, <2>3, NobodyElse
          DEF IdentityInv, VerifiedKeyProved, RevocationStands, Revoked
<1>9. CASE Revoke
  <2>1. identity \in Identity /\ identity' = [identity EXCEPT !.revoked = TRUE]
    BY <1>1, <1>9 DEF Revoke
  <2>2. /\ identity' \in Identity /\ identity'.key = identity.key
        /\ identity'.proved = identity.proved /\ identity'.revoked
        /\ identity'.verified = identity.verified
    BY <2>1 DEF Identity
  <2>3. identity' # Nobody /\ UNCHANGED <<verifications, stored, answered, swapped>>
    BY <1>9, <2>2, NobodyElse DEF Revoke
  <2> QED BY <1>2, <2>1, <2>2, <2>3, NobodyElse
          DEF IdentityInv, VerifiedKeyProved, RevocationStands, Revoked
<1>10. CASE SaveAuthority
  <2>1. stored'.identity = identity /\ answered' = (answered \/ Revoked)
        /\ UNCHANGED <<identity, verifications, swapped>>
    BY <1>10 DEF SaveAuthority
  <2> QED BY <1>2, <2>1 DEF IdentityInv, VerifiedKeyProved, RevocationStands, Revoked
<1>11. CASE ReloadAuthority
  <2>1. /\ identity' = stored.identity /\ UNCHANGED <<stored, answered, swapped>>
        /\ \A v \in Verifiers : verifications'[v].at = "idle"
    BY <1>2, <1>11 DEF ReloadAuthority
  <2> QED BY <1>2, <2>1 DEF IdentityInv, VerifiedKeyProved, RevocationStands, Revoked
<1>12. ASSUME NEW p \in Payers,
              \/ \E i \in Intents : CheckIntent(p, i)
              \/ ClaimIntent(p) \/ AdmitPayment(p) \/ CreateUnderIntent(p)
              \/ PrepareUnderIntent(p) \/ ReleaseIntent(p)
       PROVE  IdentityInv'
  BY <1>12, SameIdentity
     DEF CheckIntent, ClaimIntent, AdmitPayment, CreateUnderIntent, PrepareUnderIntent, ReleaseIntent
<1>13. CASE Tick \/ \E k \in bound : ForgetKey(k)
  BY <1>13, SameIdentity DEF Tick, ForgetKey
<1> QED BY <1>3, <1>4, <1>5, <1>6, <1>7, <1>8, <1>9, <1>10, <1>11, <1>12, <1>13 DEF AuthorityStep

-----------------------------------------------------------------------------
(* Claims of a nonce.                                                      *)
LEMMA PaidClaim == ASSUME NEW x \in paid PROVE <<x.intent, x.at>> \in Claims
BY DEF Claims

LEMMA CallClaim ==
  ASSUME NEW p \in Payers, payCalls[p].at \in {"admit", "create", "prepare"}
  PROVE  <<payCalls[p].intent, payCalls[p].since>> \in Claims
BY DEF Claims, Active

(* A step that claims nothing and keeps what is held. *)
LEMMA KeepClaims ==
  ASSUME ClaimsInv, Claims' \subseteq Claims, freed \subseteq freed',
         \A c \in Claims' : Held(c[1]) => Held(c[1])'
  PROVE  ClaimsInv'
BY DEF ClaimsInv, Apart, Lapsed

(* Claims are the same when neither payments nor requests change. *)
LEMMA SameClaims ==
  ASSUME UNCHANGED <<paid, payCalls>>
  PROVE  Claims' = Claims
BY DEF Claims, Active

(* A request that does not come to hold a nonce adds no claim. *)
LEMMA LessClaims ==
  ASSUME NEW p \in Payers, payCalls \in [Payers -> Calls], NEW call \in Calls,
         payCalls' = [payCalls EXCEPT ![p] = call],
         call.at \in {"admit", "create", "prepare"} =>
           p \in Active /\ call.intent = payCalls[p].intent /\ call.since = payCalls[p].since,
         \A x \in paid' : <<x.intent, x.at>> \in Claims
  PROVE  Claims' \subseteq Claims
<1>1. ASSUME NEW q \in Active' PROVE <<payCalls'[q].intent, payCalls'[q].since>> \in Claims
  <2>1. CASE q = p
    BY <1>1, <2>1 DEF Active, Claims
  <2>2. CASE q # p
    BY <1>1, <2>2 DEF Active, Claims
  <2> QED BY <2>1, <2>2
<1> QED BY <1>1 DEF Claims

LEMMA Later ==
  ASSUME NEW i, NEW s \in Int, NEW t \in Int, s <= t, Lapsed(i, s)
  PROVE  Lapsed(i, t)
BY AuthorityAssumption DEF Lapsed

(* Dropping what is out of force lets claims lapse, and takes none. *)
LEMMA InForceHolds ==
  ASSUME TypesInv, NEW i, Held(i), UNCHANGED <<second, freed>>, InForce \subseteq nonces'
  PROVE  Held(i)'
<1>1. second \in Int /\ nonces \subseteq Intents
  BY Bounds DEF TypesInv, AuthorityTypeOK
<1>2. ASSUME NEW n \in nonces, n.nonce = i.nonce, n.key = i.key, n \notin InForce
      PROVE  Lapsed(i, second)
  BY <1>1, <1>2, AuthorityAssumption DEF InForce, Lapsed
<1> QED BY <1>1, <1>2 DEF Held, Lapsed

LEMMA ClaimsClaim ==
  ASSUME TypesInv, ClaimsInv, NEW p \in Payers, ClaimIntent(p)
  PROVE  ClaimsInv'
<1>0. PICK i \in Intents : i = payCalls[p].intent
  BY DEF ClaimIntent, TypesInv
<1> PICK now \in 0 .. LastSecond : now = second
  BY DEF TypesInv, AuthorityTypeOK
<1> DEFINE used == {n \in InForce : n.nonce = i.nonce}
           admitted == i.expires > second
                         /\ IF used = {} THEN Cardinality(InForce) < MaxNonces
                                         ELSE \A n \in used : n.key = i.key
           call == [payCalls[p] EXCEPT !.at = "admit", !.since = second, !.claimed = (used = {})]
<1>1. /\ payCalls \in [Payers -> Calls] /\ second \in 0 .. LastSecond /\ second \in Int
      /\ nonces \subseteq Intents /\ i.expires \in Int /\ now = second
      /\ i = payCalls[p].intent
  BY <1>0, Bounds, AuthorityAssumption DEF ClaimIntent, TypesInv, AuthorityTypeOK, Calls
<1>2. UNCHANGED <<second, paid, freed>>
  BY DEF ClaimIntent, ghostVars
<1>3. InForce \subseteq nonces'
  BY DEF ClaimIntent, InForce
<1>4. \A c \in Claims : Held(c[1])'
  BY <1>2, <1>3, InForceHolds DEF ClaimsInv
<1>5. CASE ~ admitted
  <2>1. payCalls' = [payCalls EXCEPT ![p] = NoCall]
    BY <1>1, <1>5, Zenon DEF ClaimIntent
  <2>2. Claims' \subseteq Claims
    BY <1>1, <1>2, <2>1, NewCalls, LessClaims, PaidClaim
  <2> QED BY <1>2, <1>4, <2>2, KeepClaims
<1>6. CASE admitted
  <2>1. /\ payCalls' = [payCalls EXCEPT ![p] = call]
        /\ nonces' = IF used = {} THEN InForce \cup {i} ELSE InForce
    <3>1. payCalls' = [payCalls EXCEPT ![p] = call]
      BY <1>1, <1>6, Zenon DEF ClaimIntent
    <3>2. nonces' = IF used = {} THEN InForce \cup {i} ELSE InForce
      BY <1>1, <1>6 DEF ClaimIntent
    <3> QED BY <3>1, <3>2
  <2>2. call.intent = i /\ call.since = second
    BY <1>1 DEF Calls
  <2>3. Claims' \subseteq Claims \cup {<<i, now>>}
    <3>1. ASSUME NEW q \in Active' PROVE <<payCalls'[q].intent, payCalls'[q].since>> \in Claims \cup {<<i, now>>}
      <4>1. CASE q = p
        <5> HIDE DEF call
        <5> QED BY <1>1, <2>1, <2>2, <3>1, <4>1 DEF Active
      <4>2. CASE q # p
        BY <1>1, <2>1, <3>1, <4>2 DEF Active, Claims
      <4> QED BY <4>1, <4>2
    <3> QED BY <1>2, <3>1 DEF Claims
  <2>4. Held(i)'
    BY <2>1, <1>6 DEF Held
  <2>5. ASSUME NEW c \in Claims, c[1].nonce = i.nonce, c[1].key # i.key
        PROVE  i.nonce \in freed' \/ Lapsed(c[1], now)
    <3>1. ASSUME NEW n \in nonces, n.nonce = c[1].nonce, n.key = c[1].key PROVE Lapsed(c[1], now)
      <4>1. n \notin InForce
        BY <1>6, <2>5, <3>1
      <4> QED BY <1>1, <3>1, <4>1, AuthorityAssumption DEF InForce, Lapsed
    <3> QED BY <1>1, <1>2, <2>5, <3>1 DEF ClaimsInv, Held
  <2>6. ASSUME NEW c \in Claims', NEW d \in Claims'
        PROVE  Held(c[1])' /\ Apart(c[1], c[2], d[1], d[2])'
    <3> DEFINE new == <<i, now>>
    <3>1. (c \in Claims \/ c = new) /\ (d \in Claims \/ d = new) /\ new[1] = i /\ new[2] = now
      BY <2>3
    <3> HIDE DEF new
    <3>2. Held(c[1])'
      BY <1>4, <2>4, <3>1
    <3>3. CASE c \in Claims /\ d \in Claims
      BY <1>2, <3>2, <3>3 DEF ClaimsInv, Apart, Lapsed
    <3>4. CASE c = new /\ d \in Claims
      BY <2>5, <3>1, <3>2, <3>4 DEF Apart, Lapsed
    <3>5. CASE c \in Claims /\ d = new
      BY <1>2, <2>5, <3>1, <3>2, <3>5 DEF Apart, Lapsed
    <3>6. CASE c = new /\ d = new
      BY <3>2, <3>6 DEF Apart
    <3> QED BY <3>1, <3>3, <3>4, <3>5, <3>6
  <2> HIDE DEF used, call
  <2> QED BY <2>6 DEF ClaimsInv
<1> QED BY <1>5, <1>6

LEMMA ClaimsPay ==
  ASSUME TypesInv, ClaimsInv, NEW p \in Payers,
         \/ \E i \in Intents : CheckIntent(p, i)
         \/ AdmitPayment(p) \/ CreateUnderIntent(p) \/ PrepareUnderIntent(p)
  PROVE  ClaimsInv'
<1>1. payCalls \in [Payers -> Calls]
  BY DEF TypesInv, AuthorityTypeOK, Calls
<1>2. UNCHANGED <<second, nonces, freed>>
  BY DEF CheckIntent, AdmitPayment, CreateUnderIntent, PrepareUnderIntent, ghostVars
<1>3. SUFFICES Claims' \subseteq Claims
  BY <1>2, KeepClaims DEF Held, Lapsed
<1>4. ASSUME NEW i \in Intents, CheckIntent(p, i) PROVE Claims' \subseteq Claims
  <2> DEFINE call == [NoCall EXCEPT !.at = "claim", !.intent = i]
  <2>1. payCalls' = [payCalls EXCEPT ![p] = call] /\ UNCHANGED paid
    BY <1>4 DEF CheckIntent
  <2>2. call \in Calls /\ call.at = "claim"
    BY NewCalls
  <2> HIDE DEF call
  <2> QED BY <1>1, <2>1, <2>2, LessClaims, PaidClaim
<1>5. ASSUME NEW place \in {"create", "prepare"}, CallTo(p, place), UNCHANGED paid, p \in Active
      PROVE  Claims' \subseteq Claims
  <2> DEFINE call == [payCalls[p] EXCEPT !.at = place]
  <2>1. payCalls' = [payCalls EXCEPT ![p] = call]
    BY <1>1, <1>5 DEF CallTo
  <2>2. call \in Calls /\ call.intent = payCalls[p].intent /\ call.since = payCalls[p].since
    BY <1>1 DEF Calls
  <2> HIDE DEF call
  <2> QED BY <1>1, <1>5, <2>1, <2>2, LessClaims, PaidClaim
<1>6. ASSUME FailCall(p) \/ EndCall(p), \A x \in paid' : <<x.intent, x.at>> \in Claims
      PROVE  Claims' \subseteq Claims
  <2> DEFINE call == [payCalls[p] EXCEPT !.at = "release"]
  <2>1. payCalls' = [payCalls EXCEPT ![p] = call] \/ payCalls' = [payCalls EXCEPT ![p] = NoCall]
    BY <1>1, <1>6 DEF FailCall, EndCall
  <2>2. call \in Calls /\ call.at = "release"
    BY <1>1 DEF Calls
  <2> HIDE DEF call
  <2>3. CASE payCalls' = [payCalls EXCEPT ![p] = call]
    BY <1>1, <1>6, <2>2, <2>3, LessClaims
  <2>4. CASE payCalls' = [payCalls EXCEPT ![p] = NoCall]
    BY <1>1, <1>6, <2>4, NewCalls, LessClaims
  <2> QED BY <2>1, <2>3, <2>4
<1>7. CASE AdmitPayment(p)
  <2>1. UNCHANGED paid /\ p \in Active
    BY <1>7 DEF AdmitPayment, Active
  <2>2. CallTo(p, "create") \/ FailCall(p)
    BY <1>7 DEF AdmitPayment
  <2> QED BY <1>5, <1>6, <2>1, <2>2, PaidClaim
<1>8. CASE CreateUnderIntent(p)
  <2>1. UNCHANGED paid /\ p \in Active
    BY <1>8 DEF CreateUnderIntent, Active
  <2>2. CallTo(p, "prepare") \/ FailCall(p) \/ EndCall(p)
    BY <1>8 DEF CreateUnderIntent
  <2> QED BY <1>5, <1>6, <2>1, <2>2, PaidClaim
<1>9. CASE PrepareUnderIntent(p)
  <2>1. <<payCalls[p].intent, payCalls[p].since>> \in Claims
    BY <1>9, CallClaim DEF PrepareUnderIntent
  <2> DEFINE new == [intent |-> payCalls[p].intent, at |-> payCalls[p].since,
                     again |-> \E x \in paid : x.intent.key = payCalls[p].intent.key]
  <2>2. \A x \in paid' : <<x.intent, x.at>> \in Claims
    <3>1. new.intent = payCalls[p].intent /\ new.at = payCalls[p].since
      OBVIOUS
    <3>2. paid' \subseteq paid \cup {new}
      BY <1>9 DEF PrepareUnderIntent
    <3> HIDE DEF new
    <3> QED BY <2>1, <3>1, <3>2, PaidClaim
  <2> QED BY <1>6, <1>9, <2>2 DEF PrepareUnderIntent
<1> QED BY <1>4, <1>7, <1>8, <1>9

(* What release_agent_intent takes from others is recorded in freed. *)
LEMMA ClaimsRelease ==
  ASSUME TypesInv, ClaimsInv, NEW p \in Payers, ReleaseIntent(p)
  PROVE  ClaimsInv'
<1>0. PICK i \in Intents : i = payCalls[p].intent
  BY DEF ReleaseIntent, TypesInv
<1> DEFINE released == {n \in nonces : n.nonce = i.nonce /\ n.key = i.key}
<1>1. /\ payCalls \in [Payers -> Calls] /\ payCalls[p].at = "release"
      /\ payCalls' = [payCalls EXCEPT ![p] = NoCall]
      /\ nonces' = nonces \ released
      /\ freed' = IF released # {} /\ (Users(i.nonce, p) # {} \/ PaidFor(i.nonce, i.key))
                  THEN freed \cup {i.nonce} ELSE freed
      /\ UNCHANGED <<second, paid>>
  BY <1>0 DEF ReleaseIntent, EndCall, TypesInv, AuthorityTypeOK, Calls
<1>2. Claims' \subseteq Claims
  BY <1>1, NewCalls, LessClaims, PaidClaim
<1>3. ASSUME NEW c \in Claims, c[1].nonce = i.nonce, p \notin Active, released # {}, c[1].key = i.key
      PROVE  i.nonce \in freed'
  <2>1. CASE \E x \in paid : c = <<x.intent, x.at>>
    BY <1>1, <1>3, <2>1 DEF PaidFor
  <2>2. CASE \E q \in Active : c = <<payCalls[q].intent, payCalls[q].since>>
    <3>1. PICK q \in Active : c = <<payCalls[q].intent, payCalls[q].since>>
      BY <2>2
    <3>2. q \in Users(i.nonce, p)
      BY <1>3, <3>1, IntentFields DEF Users, Active, TypesInv
    <3> QED BY <1>1, <1>3, <3>2
  <2> QED BY <2>1, <2>2 DEF Claims
<1>4. p \notin Active
  BY <1>1 DEF Active
<1>5. ASSUME NEW c \in Claims', Held(c[1]) PROVE Held(c[1])'
  <2>1. CASE c[1].nonce \in freed
    BY <1>1, <2>1 DEF Held
  <2>2. CASE Lapsed(c[1], second)
    BY <1>1, <2>2 DEF Held, Lapsed
  <2>3. ASSUME NEW n \in nonces, n.nonce = c[1].nonce, n.key = c[1].key PROVE Held(c[1])'
    <3>1. CASE n \in released
      BY <1>2, <1>3, <1>4, <2>3, <3>1 DEF Held
    <3>2. CASE n \notin released
      BY <1>1, <2>3, <3>2 DEF Held
    <3> QED BY <3>1, <3>2
  <2> QED BY <1>5, <2>1, <2>2, <2>3 DEF Held
<1> QED BY <1>1, <1>2, <1>5, KeepClaims

LEMMA ClaimsReload == ASSUME TypesInv, ClaimsInv, ReloadAuthority PROVE ClaimsInv'
<1>1. /\ UNCHANGED <<second, paid>> /\ payCalls' = [p \in Payers |-> NoCall]
      /\ nonces' = {n \in stored.nonces : n.expires >= second}
      /\ freed' = freed \cup {n.nonce : n \in nonces \ stored.nonces}
      /\ nonces \subseteq Intents /\ second \in Int
  BY Bounds DEF ReloadAuthority, TypesInv, AuthorityTypeOK
<1>2. Claims' \subseteq Claims
  BY <1>1, NewCalls DEF Claims, Active
<1>3. ASSUME NEW c \in Claims', Held(c[1]) PROVE Held(c[1])'
  <2>1. ASSUME NEW n \in nonces, n.nonce = c[1].nonce, n.key = c[1].key PROVE Held(c[1])'
    <3>1. CASE n \notin stored.nonces
      BY <1>1, <2>1, <3>1 DEF Held
    <3>2. CASE n \in stored.nonces /\ n.expires >= second
      BY <1>1, <2>1, <3>2 DEF Held
    <3>3. CASE ~ (n.expires >= second)
      <4>1. n.expires < second
        BY <1>1, <3>3, AuthorityAssumption
      <4> QED BY <1>1, <2>1, <4>1 DEF Held, Lapsed
    <3> QED BY <3>1, <3>2, <3>3
  <2> QED BY <1>1, <1>3, <2>1 DEF Held, Lapsed
<1> QED BY <1>1, <1>2, <1>3, KeepClaims

LEMMA ClaimsStep == ASSUME TypesInv, ClaimsInv, AuthorityStep PROVE ClaimsInv'
<1> USE DEF payVars, ghostVars
<1>1. ASSUME UNCHANGED <<second, nonces, payCalls, paid, freed>> PROVE ClaimsInv'
  BY <1>1, SameClaims, KeepClaims DEF Held, Lapsed
<1>2. ASSUME NEW k \in AgentKeys, Register(k) PROVE ClaimsInv'
  BY <1>1, <1>2 DEF Register
<1>3. ASSUME NEW v \in Verifiers,
             \/ BeginChallenge(v) \/ FinishVerify(v)
             \/ \E id \in Challenges : StoreChallenge(v, id)
             \/ \E c \in challenges, k \in AgentKeys : BeginVerify(v, c, k)
      PROVE  ClaimsInv'
  BY <1>1, <1>3 DEF BeginChallenge, FinishVerify, StoreChallenge, BeginVerify
<1>4. ASSUME NEW pays \in BOOLEAN, SetScope(pays) PROVE ClaimsInv'
  BY <1>1, <1>4 DEF SetScope
<1>5. CASE Revoke \/ SaveAuthority \/ \E k \in bound : ForgetKey(k)
  BY <1>1, <1>5 DEF Revoke, SaveAuthority, ForgetKey
<1>6. CASE Tick
  <2>1. /\ second' = second + 1 /\ second \in Int /\ second' \in Int
        /\ UNCHANGED <<nonces, payCalls, paid, freed>>
    BY <1>6, Bounds DEF Tick, TypesInv, AuthorityTypeOK
  <2>2. ASSUME NEW c \in Claims', Held(c[1]) PROVE Held(c[1])'
    <3>1. CASE Lapsed(c[1], second)
      BY <2>1, <3>1, Later DEF Held, Lapsed
    <3> QED BY <2>1, <2>2, <3>1 DEF Held
  <2> QED BY <2>1, <2>2, SameClaims, KeepClaims
<1> QED BY <1>2, <1>3, <1>4, <1>5, <1>6, ClaimsClaim, ClaimsPay, ClaimsRelease, ClaimsReload
        DEF AuthorityStep

-----------------------------------------------------------------------------
(* Keys and payments.                                                      *)

(* A step that neither pays nor starts to, and unbinds no key silently. *)
LEMMA KeepOnce ==
  ASSUME OnceInv, UNCHANGED paid, bound \subseteq bound' \cup dropped', dropped \subseteq dropped',
         \A p \in Preparing' : p \in Preparing /\ payCalls'[p] = payCalls[p]
  PROVE  OnceInv'
<1>1. bound \cup dropped \subseteq bound' \cup dropped'
  OBVIOUS
<1>2. \A p \in Preparing' : KeyOfCall(p)' = KeyOfCall(p)
  BY DEF KeyOfCall
<1>3. \A x \in paid' : x.intent.key \in bound' \cup dropped'
  BY <1>1 DEF OnceInv
<1>4. IntentPaidOnce'
  BY DEF OnceInv, IntentPaidOnce
<1> QED BY <1>1, <1>2, <1>3, <1>4 DEF OnceInv

(* A request whose record changes, but not to "prepare". *)
LEMMA LeavesPreparing ==
  ASSUME NEW p \in Payers, payCalls \in [Payers -> Calls], NEW call, call.at # "prepare",
         payCalls' = [payCalls EXCEPT ![p] = call]
  PROVE  \A q \in Preparing' : q # p /\ q \in Preparing /\ payCalls'[q] = payCalls[q]
BY DEF Preparing

LEMMA CallsEnd ==
  ASSUME NEW p \in Payers, payCalls \in [Payers -> Calls], FailCall(p) \/ EndCall(p)
  PROVE  \A q \in Preparing' : q # p /\ q \in Preparing /\ payCalls'[q] = payCalls[q]
<1> DEFINE call == [payCalls[p] EXCEPT !.at = "release"]
<1>1. payCalls' = [payCalls EXCEPT ![p] = call] \/ payCalls' = [payCalls EXCEPT ![p] = NoCall]
  BY DEF FailCall, EndCall
<1>2. call.at = "release" /\ NoCall.at = "idle"
  <2>1. payCalls[p] \in Calls
    OBVIOUS
  <2>2. call.at = "release"
    BY <2>1 DEF Calls
  <2>3. NoCall.at = "idle"
    BY DEF NoCall
  <2> QED BY <2>2, <2>3
<1> HIDE DEF call
<1>3. CASE payCalls' = [payCalls EXCEPT ![p] = call]
  BY <1>2, <1>3, LeavesPreparing
<1>4. CASE payCalls' = [payCalls EXCEPT ![p] = NoCall]
  BY <1>2, <1>4, LeavesPreparing
<1> QED BY <1>1, <1>3, <1>4

(* A key is bound when its payment is created, and was free before. *)
LEMMA OnceCreate == ASSUME TypesInv, OnceInv, NEW p \in Payers, CreateUnderIntent(p) PROVE OnceInv'
<1>1. payCalls \in [Payers -> Calls] /\ UNCHANGED <<paid, dropped>> /\ payCalls[p].at = "create"
  BY DEF TypesInv, AuthorityTypeOK, Calls, CreateUnderIntent, ghostVars
<1>2. CASE FailCall(p) \/ EndCall(p)
  BY <1>1, <1>2, CallsEnd, KeepOnce DEF CreateUnderIntent
<1>3. ASSUME payCalls[p].intent.key \notin bound, bound' = bound \cup {payCalls[p].intent.key},
             CallTo(p, "prepare")
      PROVE  OnceInv'
  <2> DEFINE call == [payCalls[p] EXCEPT !.at = "prepare"]
  <2>1. payCalls' = [payCalls EXCEPT ![p] = call] /\ call.intent = payCalls[p].intent
    BY <1>1, <1>3 DEF CallTo, Calls
  <2> HIDE DEF call
  <2>2. \A q \in Payers : /\ KeyOfCall(q)' = KeyOfCall(q)
                          /\ q # p => (q \in Preparing' <=> q \in Preparing)
    BY <1>1, <2>1 DEF KeyOfCall, Preparing
  <2>3. KeyOfCall(p) \notin bound /\ KeyOfCall(p) \in bound' /\ bound \subseteq bound'
    BY <1>3 DEF KeyOfCall
  <2>4. \A x \in paid : x.intent.key = KeyOfCall(p) => KeyOfCall(p) \in dropped
    BY <2>3 DEF OnceInv
  <2>5. \A q \in Preparing : KeyOfCall(q) = KeyOfCall(p) => KeyOfCall(p) \in dropped
    BY <2>3 DEF OnceInv
  <2>6. \A x \in paid' : x.intent.key \in bound' \cup dropped'
    BY <1>1, <2>3 DEF OnceInv
  <2>7. IntentPaidOnce'
    BY <1>1 DEF OnceInv, IntentPaidOnce
  <2>8. ASSUME NEW q \in Preparing'
        PROVE  /\ KeyOfCall(q)' \in bound' \cup dropped'
               /\ \A x \in paid' : x.intent.key = KeyOfCall(q)' => KeyOfCall(q)' \in dropped'
               /\ \A r \in Preparing' : r # q /\ KeyOfCall(r)' = KeyOfCall(q)' =>
                    KeyOfCall(q)' \in dropped'
    <3>1. q \in Payers /\ \A r \in Preparing' : r \in Payers
      BY DEF Preparing
    <3>2. CASE q = p
      BY <1>1, <2>2, <2>3, <2>4, <2>5, <3>1, <3>2
    <3>3. CASE q # p
      BY <1>1, <2>2, <2>3, <2>5, <3>1, <3>3 DEF OnceInv
    <3> QED BY <3>2, <3>3
  <2> QED BY <2>6, <2>7, <2>8 DEF OnceInv
<1> QED BY <1>2, <1>3 DEF CreateUnderIntent

(* A payment that is made counts as a second one only of a dropped key. *)
LEMMA OncePrepare == ASSUME TypesInv, OnceInv, NEW p \in Payers, PrepareUnderIntent(p) PROVE OnceInv'
<1>1. payCalls \in [Payers -> Calls] /\ UNCHANGED <<bound, dropped>> /\ p \in Preparing
  BY DEF TypesInv, AuthorityTypeOK, Calls, PrepareUnderIntent, ghostVars, Preparing
<1>2. FailCall(p) \/ EndCall(p)
  BY DEF PrepareUnderIntent
<1>3. \A q \in Preparing' : q # p /\ q \in Preparing /\ payCalls'[q] = payCalls[q]
  BY <1>1, <1>2, CallsEnd
<1>4. CASE UNCHANGED paid
  BY <1>1, <1>3, <1>4, KeepOnce
<1>5. CASE ~ UNCHANGED paid
  <2> DEFINE new == [intent |-> payCalls[p].intent, at |-> payCalls[p].since,
                     again |-> \E x \in paid : x.intent.key = payCalls[p].intent.key]
  <2>1. paid' = paid \cup {new} /\ new.intent.key = KeyOfCall(p)
    BY <1>5 DEF PrepareUnderIntent, KeyOfCall
  <2>2. new.again <=> \E x \in paid : x.intent.key = KeyOfCall(p)
    BY Zenon DEF KeyOfCall
  <2> HIDE DEF new
  <2>3. KeyOfCall(p) \in bound \cup dropped /\ (new.again => KeyOfCall(p) \in dropped)
    BY <1>1, <2>2 DEF OnceInv
  <2>4. \A x \in paid' : x.intent.key \in bound' \cup dropped'
    BY <1>1, <2>1, <2>3 DEF OnceInv
  <2>5. IntentPaidOnce'
    BY <1>1, <2>1, <2>3 DEF OnceInv, IntentPaidOnce
  <2>6. \A q \in Preparing' : KeyOfCall(q)' = KeyOfCall(q)
    BY <1>3 DEF KeyOfCall
  <2>7. ASSUME NEW q \in Preparing'
        PROVE  /\ KeyOfCall(q)' \in bound' \cup dropped'
               /\ \A x \in paid' : x.intent.key = KeyOfCall(q)' => KeyOfCall(q)' \in dropped'
               /\ \A r \in Preparing' : r # q /\ KeyOfCall(r)' = KeyOfCall(q)' =>
                    KeyOfCall(q)' \in dropped'
    BY <1>1, <1>3, <2>1, <2>6 DEF OnceInv
  <2> QED BY <2>4, <2>5, <2>7 DEF OnceInv
<1> QED BY <1>4, <1>5

LEMMA OnceStep == ASSUME TypesInv, OnceInv, AuthorityStep PROVE OnceInv'
<1> USE DEF payVars, ghostVars
<1>1. payCalls \in [Payers -> Calls] /\ \A q \in Preparing : q \in Payers
  BY DEF TypesInv, AuthorityTypeOK, Calls, Preparing
<1>2. ASSUME UNCHANGED <<payCalls, paid>>, bound \subseteq bound' \cup dropped', dropped \subseteq dropped'
      PROVE  OnceInv'
  BY <1>2, KeepOnce DEF Preparing
<1>3. ASSUME NEW k \in AgentKeys, Register(k) PROVE OnceInv'
  BY <1>2, <1>3 DEF Register
<1>4. ASSUME NEW v \in Verifiers,
             \/ BeginChallenge(v) \/ FinishVerify(v)
             \/ \E id \in Challenges : StoreChallenge(v, id)
             \/ \E c \in challenges, k \in AgentKeys : BeginVerify(v, c, k)
      PROVE  OnceInv'
  BY <1>2, <1>4 DEF BeginChallenge, FinishVerify, StoreChallenge, BeginVerify
<1>5. ASSUME NEW pays \in BOOLEAN, SetScope(pays) PROVE OnceInv'
  BY <1>2, <1>5 DEF SetScope
<1>6. CASE Revoke \/ SaveAuthority \/ Tick \/ \E k \in bound : ForgetKey(k)
  BY <1>2, <1>6 DEF Revoke, SaveAuthority, Tick, ForgetKey
<1>7. ASSUME NEW p \in Payers, NEW i \in Intents, CheckIntent(p, i) PROVE OnceInv'
  <2> DEFINE call == [NoCall EXCEPT !.at = "claim", !.intent = i]
  <2>1. payCalls' = [payCalls EXCEPT ![p] = call] /\ UNCHANGED <<paid, bound, dropped>>
    BY <1>7 DEF CheckIntent
  <2>2. call.at = "claim"
    BY NewCalls
  <2> HIDE DEF call
  <2> QED BY <1>1, <2>1, <2>2, LeavesPreparing, KeepOnce
<1>8. ASSUME NEW p \in Payers, ClaimIntent(p) PROVE OnceInv'
  <2>1. UNCHANGED <<paid, bound, dropped>> /\ \A q \in Preparing' : q \in Preparing /\ payCalls'[q] = payCalls[q]
    <3>1. UNCHANGED <<paid, bound, dropped>>
      BY <1>8 DEF ClaimIntent
    <3>2. PICK call : payCalls' = [payCalls EXCEPT ![p] = call] /\ call.at # "prepare"
      <4> DEFINE claiming(b) == [payCalls[p] EXCEPT !.at = "admit", !.since = second, !.claimed = b]
      <4>1. \A b \in BOOLEAN : claiming(b).at = "admit"
        BY <1>1 DEF Calls
      <4>2. NoCall.at = "idle"
        BY NewCalls
      <4>3. \/ \E b \in BOOLEAN : payCalls' = [payCalls EXCEPT ![p] = claiming(b)]
            \/ payCalls' = [payCalls EXCEPT ![p] = NoCall]
        BY <1>8, Zenon DEF ClaimIntent
      <4> HIDE DEF claiming
      <4> QED BY <4>1, <4>2, <4>3
    <3> QED BY <1>1, <3>1, <3>2, LeavesPreparing
  <2> QED BY <2>1, KeepOnce
<1>9. ASSUME NEW p \in Payers, AdmitPayment(p) PROVE OnceInv'
  <2>1. UNCHANGED <<paid, bound, dropped>>
    BY <1>9 DEF AdmitPayment
  <2>2. CASE CallTo(p, "create")
    <3> DEFINE call == [payCalls[p] EXCEPT !.at = "create"]
    <3>1. payCalls' = [payCalls EXCEPT ![p] = call] /\ call.at = "create"
      BY <1>1, <2>2 DEF CallTo, Calls
    <3> HIDE DEF call
    <3> QED BY <1>1, <2>1, <3>1, LeavesPreparing, KeepOnce
  <2>3. CASE FailCall(p)
    BY <1>1, <2>1, <2>3, CallsEnd, KeepOnce
  <2> QED BY <1>9, <2>2, <2>3 DEF AdmitPayment
<1>10. ASSUME NEW p \in Payers, ReleaseIntent(p) PROVE OnceInv'
  <2>1. UNCHANGED <<paid, bound, dropped>> /\ EndCall(p)
    BY <1>10 DEF ReleaseIntent
  <2> QED BY <1>1, <2>1, CallsEnd, KeepOnce
<1>11. CASE ReloadAuthority
  <2>1. /\ UNCHANGED paid /\ bound' = stored.bound /\ dropped' = dropped \cup (bound \ stored.bound)
        /\ payCalls' = [p \in Payers |-> NoCall]
    BY <1>11 DEF ReloadAuthority
  <2>2. Preparing' = {}
    BY <2>1, NewCalls DEF Preparing
  <2> QED BY <2>1, <2>2, KeepOnce
<1> QED BY <1>3, <1>4, <1>5, <1>6, <1>7, <1>8, <1>9, <1>10, <1>11, OnceCreate, OncePrepare
        DEF AuthorityStep

-----------------------------------------------------------------------------
LEMMA AuthorityStepInv == AuthorityInv /\ [AuthorityStep]_authorityVars => AuthorityInv'
<1> SUFFICES ASSUME AuthorityInv, [AuthorityStep]_authorityVars PROVE AuthorityInv'
  OBVIOUS
<1>1. CASE AuthorityStep
  BY <1>1, TypesStep, IdentityStep, ClaimsStep, OnceStep DEF AuthorityInv
<1>2. CASE UNCHANGED authorityVars
  <2>1. UNCHANGED <<identity, challenges, verifications, second, nonces, payCalls, bound, paid,
                    stored, answered, swapped, freed, dropped, stores, reloads>>
    BY <1>2 DEF authorityVars
  <2>2. TypesInv'
    BY <2>1 DEF AuthorityInv, TypesInv, AuthorityTypeOK, NonceTable
  <2>3. IdentityInv'
    BY <2>1, SameIdentity DEF AuthorityInv
  <2>4. ClaimsInv'
    BY <2>1, SameClaims, KeepClaims DEF AuthorityInv, Held, Lapsed
  <2>5. OnceInv'
    BY <2>1, KeepOnce DEF AuthorityInv, Preparing
  <2> QED BY <2>2, <2>3, <2>4, <2>5 DEF AuthorityInv
<1> QED BY <1>1, <1>2

(* verify_identity, register_identity and revoke_identity, interleaved and *)
(* restarted: only the proved key is verified, a revocation stands.        *)
THEOREM VerifiedIsProved == AuthoritySpec => []IdentityProved
<1>1. AuthorityInv => IdentityProved
  BY DEF AuthorityInv, TypesInv, IdentityInv, IdentityProved
<1> QED BY InitAuthorityInv, AuthorityStepInv, <1>1, PTL DEF AuthoritySpec

(* claim_agent_intent and release_agent_intent: two payments under one     *)
(* nonce are of one key, or the nonce had lapsed, was given back or lost;  *)
(* a key is paid twice only after its record was dropped.                  *)
THEOREM IntentsArePaidOnce == AuthoritySpec => []IntentsPayOnce
<1>1. ASSUME ClaimsInv PROVE NonceBinds
  <2> SUFFICES ASSUME NEW x \in paid, NEW y \in paid,
                      x.intent.nonce = y.intent.nonce, x.intent.key # y.intent.key
               PROVE  \/ x.intent.nonce \in freed
                      \/ Lapsed(x.intent, y.at) \/ Lapsed(y.intent, x.at)
    BY DEF NonceBinds
  <2> DEFINE c == <<x.intent, x.at>>
             d == <<y.intent, y.at>>
  <2>1. c \in Claims /\ d \in Claims
    BY PaidClaim
  <2>2. Apart(c[1], c[2], d[1], d[2])
    BY <1>1, <2>1 DEF ClaimsInv
  <2> QED BY <2>2 DEF Apart
<1>2. AuthorityInv => IntentsPayOnce
  BY <1>1 DEF AuthorityInv, OnceInv, IntentsPayOnce
<1> QED BY InitAuthorityInv, AuthorityStepInv, <1>2, PTL DEF AuthoritySpec

(* Nothing but AdmitPayment lets a request create a payment, and it looks  *)
(* at the identity.                                                        *)
LEMMA RevocationStop == ASSUME AuthorityInv, AuthorityStep PROVE NoNewPayment
<1> SUFFICES ASSUME answered PROVE Creating' \subseteq Creating /\ (Creating = {} => paid' = paid)
  BY DEF NoNewPayment
<1> USE DEF payVars
<1>1. /\ payCalls \in [Payers -> Calls] /\ identity # Nobody /\ identity.revoked
      /\ NoCall.at = "idle"
  BY NewCalls DEF AuthorityInv, TypesInv, AuthorityTypeOK, Calls, IdentityInv, RevocationStands, Revoked
<1>2. ASSUME UNCHANGED <<payCalls, paid>>
      PROVE  Creating' \subseteq Creating /\ (Creating = {} => paid' = paid)
  BY <1>2 DEF Creating
<1>3. ASSUME NEW p \in Payers, NEW call,
             payCalls' = [payCalls EXCEPT ![p] = call],
             call.at \in {"create", "prepare"} => p \in Creating
      PROVE  Creating' \subseteq Creating
  BY <1>1, <1>3 DEF Creating
<1>4. ASSUME NEW p \in Payers, FailCall(p) \/ EndCall(p) PROVE Creating' \subseteq Creating
  <2> DEFINE call == [payCalls[p] EXCEPT !.at = "release"]
  <2>1. payCalls' = [payCalls EXCEPT ![p] = call] \/ payCalls' = [payCalls EXCEPT ![p] = NoCall]
    BY <1>4 DEF FailCall, EndCall
  <2>2. call.at = "release"
    BY <1>1 DEF Calls
  <2> HIDE DEF call
  <2>3. CASE payCalls' = [payCalls EXCEPT ![p] = call]
    BY <1>3, <2>2, <2>3
  <2>4. CASE payCalls' = [payCalls EXCEPT ![p] = NoCall]
    BY <1>1, <1>3, <2>4
  <2> QED BY <2>1, <2>3, <2>4
<1>5. ASSUME NEW p \in Payers, NEW i \in Intents, CheckIntent(p, i)
      PROVE  Creating' \subseteq Creating /\ paid' = paid
  <2> DEFINE call == [NoCall EXCEPT !.at = "claim", !.intent = i]
  <2>1. payCalls' = [payCalls EXCEPT ![p] = call] /\ UNCHANGED paid
    BY <1>5 DEF CheckIntent
  <2>2. call.at = "claim"
    BY NewCalls
  <2> HIDE DEF call
  <2> QED BY <1>3, <2>1, <2>2
<1>6. ASSUME NEW p \in Payers, ClaimIntent(p) PROVE Creating' \subseteq Creating /\ paid' = paid
  <2> DEFINE claiming(b) == [payCalls[p] EXCEPT !.at = "admit", !.since = second, !.claimed = b]
  <2>1. \A b \in BOOLEAN : claiming(b).at = "admit"
    BY <1>1 DEF Calls
  <2>2. \/ \E b \in BOOLEAN : payCalls' = [payCalls EXCEPT ![p] = claiming(b)]
        \/ payCalls' = [payCalls EXCEPT ![p] = NoCall]
    BY <1>6, Zenon DEF ClaimIntent
  <2>3. UNCHANGED paid
    BY <1>6 DEF ClaimIntent
  <2> HIDE DEF claiming
  <2>4. PICK call : payCalls' = [payCalls EXCEPT ![p] = call] /\ call.at \notin {"create", "prepare"}
    BY <1>1, <2>1, <2>2
  <2> QED BY <1>3, <2>3, <2>4
<1>7. ASSUME NEW p \in Payers, AdmitPayment(p) PROVE Creating' \subseteq Creating /\ paid' = paid
  BY <1>1, <1>4, <1>7 DEF AdmitPayment
<1>8. ASSUME NEW p \in Payers, CreateUnderIntent(p) PROVE Creating' \subseteq Creating /\ paid' = paid
  <2>1. CASE CallTo(p, "prepare")
    <3>1. p \in Creating
      BY <1>8 DEF CreateUnderIntent, Creating
    <3> DEFINE call == [payCalls[p] EXCEPT !.at = "prepare"]
    <3>2. payCalls' = [payCalls EXCEPT ![p] = call]
      BY <2>1 DEF CallTo
    <3> HIDE DEF call
    <3> QED BY <1>3, <1>8, <3>1, <3>2 DEF CreateUnderIntent
  <2> QED BY <1>4, <1>8, <2>1 DEF CreateUnderIntent
<1>9. ASSUME NEW p \in Payers, PrepareUnderIntent(p) PROVE Creating' \subseteq Creating /\ Creating # {}
  BY <1>4, <1>9 DEF PrepareUnderIntent, Creating
<1>10. ASSUME NEW p \in Payers, ReleaseIntent(p) PROVE Creating' \subseteq Creating /\ paid' = paid
  BY <1>4, <1>10 DEF ReleaseIntent
<1>11. CASE ReloadAuthority
  BY <1>1, <1>11 DEF ReloadAuthority, Creating
<1>12. CASE \/ \E k \in AgentKeys : Register(k)
            \/ \E v \in Verifiers : \/ BeginChallenge(v) \/ FinishVerify(v)
                                    \/ \E id \in Challenges : StoreChallenge(v, id)
                                    \/ \E c \in challenges, k \in AgentKeys : BeginVerify(v, c, k)
            \/ \E pays \in BOOLEAN : SetScope(pays)
            \/ Revoke \/ Tick \/ SaveAuthority \/ \E k \in bound : ForgetKey(k)
  BY <1>2, <1>12 DEF Register, BeginChallenge, FinishVerify, StoreChallenge, BeginVerify, SetScope,
                     Revoke, Tick, SaveAuthority, ForgetKey
<1> QED BY <1>5, <1>6, <1>7, <1>8, <1>9, <1>10, <1>11, <1>12 DEF AuthorityStep

(* Once revoke_identity is answered, agent_create_payment_ex_mode starts   *)
(* no payment for the agent.                                               *)
THEOREM RevocationEnds == AuthoritySpec => RevocationStops
<1>1. AuthorityInv /\ [AuthorityStep]_authorityVars => [NoNewPayment]_authorityVars
  BY RevocationStop
<1> QED BY InitAuthorityInv, AuthorityStepInv, <1>1, PTL DEF AuthoritySpec, RevocationStops
=============================================================================
