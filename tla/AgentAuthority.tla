---------------------------- MODULE AgentAuthority ----------------------------
(***************************************************************************)
(* The authority of one agent: the key it registers and proves, the scope  *)
(* and the revocation the operator decides, and the signed intents that    *)
(* allow single payments, each with a nonce that may be used once.         *)
(*                                                                         *)
(* Every handler takes the lock of HubState several times: verification    *)
(* reads the identity, checks the signature, and writes the identity; a    *)
(* payment reads the identity, claims the nonce, reads the identity again, *)
(* and creates the payment, and may give the nonce back at the end.        *)
(*                                                                         *)
(* What a payment is, and how a key comes to be bound to it, is the        *)
(* subject of AgentPay.  Here a key is bound or not, and may be forgotten  *)
(* when its payment is finished and pruned.                                *)
(***************************************************************************)
EXTENDS FiniteSets, Integers

CONSTANTS
  AgentKeys,     \* key pairs
  Challenges,    \* challenge identifiers
  Verifiers,     \* identity requests that may be in progress at once
  Intents,       \* signed intents: [nonce, key, expires]
  Payers,        \* pay requests that may be in progress at once
  ChallengeLife, \* 300 seconds in the code
  IntentLife,    \* 600 seconds in the code
  MaxNonces,     \* 50 000 in the code
  LastSecond,    \* bound: the clock
  MaxStores,     \* bound: snapshots
  MaxReloads,    \* bound: restarts
  MaxForgotten,  \* bound: keys forgotten
  Nobody

ASSUME AuthorityAssumption ==
  /\ Nobody \notin AgentKeys \cup Challenges \cup Intents
  /\ \A i \in Intents : DOMAIN i = {"nonce", "key", "expires"} /\ i.expires \in Nat
  /\ {ChallengeLife, IntentLife, MaxNonces, LastSecond, MaxStores, MaxReloads, MaxForgotten}
       \subseteq Nat

VARIABLES
  identity,       \* the record of the agent, or Nobody
  challenges,     \* [id, expires] of the challenges issued
  verifications,  \* identity requests in progress
  second,         \* the clock
  nonces,         \* [nonce, key, expires] of the intents claimed
  payCalls,       \* pay requests in progress
  bound,          \* idempotency keys bound to a payment
  paid,           \* history: intents paid for, with the second they were claimed
  stored,         \* the snapshot
  answered,       \* history: a revocation is in a snapshot, so it was answered
  swapped,        \* history: the key changed under a verification
  freed,          \* history: nonces given back under another request, or lost
  dropped,        \* history: keys whose payment was pruned or lost
  stores, reloads

authorityVars == <<identity, challenges, verifications, second, nonces, payCalls, bound,
                   paid, stored, answered, swapped, freed, dropped, stores, reloads>>
identityVars == <<identity, challenges, verifications>>
payVars == <<nonces, payCalls, bound, paid>>
ghostVars == <<answered, swapped, freed, dropped>>
-----------------------------------------------------------------------------
Identity == [key : AgentKeys, proved : SUBSET AgentKeys, verified : BOOLEAN,
             pays : BOOLEAN, revoked : BOOLEAN]

ASSUME NobodyElse == Nobody \notin Identity

Nonces == {i.nonce : i \in Intents}
NoVerification == [at |-> "idle", challenge |-> Nobody]
NoCall == [at |-> "idle", intent |-> Nobody, since |-> 0, claimed |-> FALSE]

AuthorityTypeOK ==
  /\ identity \in Identity \cup {Nobody} /\ stored.identity \in Identity \cup {Nobody}
  /\ challenges \subseteq [id : Challenges, expires : Nat]
  /\ \A c, d \in challenges : c.id = d.id => c = d
  /\ verifications \in [Verifiers -> [at : {"idle", "issue", "write"},
                                      challenge : Challenges \cup {Nobody}]]
  /\ second \in 0 .. LastSecond
  /\ nonces \subseteq Intents /\ Cardinality(nonces) <= MaxNonces
  /\ \A i, j \in nonces : i.nonce = j.nonce => i = j
  /\ payCalls \in [Payers -> [at : {"idle", "claim", "admit", "create", "prepare", "release"},
                              intent : Intents \cup {Nobody},
                              since : 0 .. LastSecond, claimed : BOOLEAN]]
  /\ bound \subseteq {i.key : i \in Intents} /\ answered \in BOOLEAN /\ swapped \in BOOLEAN
  /\ freed \subseteq Nonces /\ stores \in 0 .. MaxStores /\ reloads \in 0 .. MaxReloads

AuthorityInit ==
  /\ identity = Nobody /\ challenges = {}
  /\ verifications = [v \in Verifiers |-> NoVerification]
  /\ second = 0 /\ nonces = {} /\ bound = {} /\ paid = {}
  /\ payCalls = [p \in Payers |-> NoCall]
  /\ stored = [identity |-> Nobody, nonces |-> {}, bound |-> {}]
  /\ answered = FALSE /\ swapped = FALSE /\ freed = {} /\ dropped = {}
  /\ stores = 0 /\ reloads = 0
-----------------------------------------------------------------------------
\* Mutant of Register: a verified identity takes another key.
RegisterOver(k) ==
  /\ identity' = IF identity = Nobody
                 THEN [key |-> k, proved |-> {}, verified |-> FALSE, pays |-> TRUE,
                       revoked |-> FALSE]
                 ELSE [identity EXCEPT !.key = k]
  /\ UNCHANGED <<challenges, verifications, second, payVars, stored, ghostVars, stores, reloads>>

\* Mutant of Register: registering again starts over.
RegisterAfresh(k) ==
  /\ identity # Nobody => ~ (identity.verified /\ identity.key # k)
  /\ identity' = [key |-> k, proved |-> {}, verified |-> FALSE, pays |-> TRUE,
                  revoked |-> FALSE]
  /\ UNCHANGED <<challenges, verifications, second, payVars, stored, ghostVars, stores, reloads>>

(***************************************************************************)
(* register_identity: a new identity, or a new key for one that is not yet *)
(* verified; what was decided about it stays.                              *)
(***************************************************************************)
Register(k) ==
  /\ identity # Nobody => ~ (identity.verified /\ identity.key # k)
  /\ identity' = IF identity = Nobody
                 THEN [key |-> k, proved |-> {}, verified |-> FALSE, pays |-> TRUE,
                       revoked |-> FALSE]
                 ELSE [identity EXCEPT !.key = k]
  /\ swapped' = (swapped \/ (/\ identity # Nobody => identity.key # k
                             /\ \E v \in Verifiers : verifications[v].at = "write"))
  /\ UNCHANGED <<challenges, verifications, second, payVars, stored, answered, freed,
                 dropped, stores, reloads>>

(* issue_identity_challenge: the identity is read, *)
BeginChallenge(v) ==
  /\ verifications[v].at = "idle" /\ identity # Nobody /\ ~ identity.revoked
  /\ verifications' = [verifications EXCEPT ![v].at = "issue"]
  /\ UNCHANGED <<identity, challenges, second, payVars, stored, ghostVars, stores, reloads>>

(* and the challenge is stored, while the expired ones are dropped. *)
StoreChallenge(v, id) ==
  /\ verifications[v].at = "issue" /\ id \notin {c.id : c \in challenges}
  /\ challenges' = {c \in challenges : c.expires >= second}
                     \cup {[id |-> id, expires |-> second + ChallengeLife]}
  /\ verifications' = [verifications EXCEPT ![v] = NoVerification]
  /\ UNCHANGED <<identity, second, payVars, stored, ghostVars, stores, reloads>>

(***************************************************************************)
(* verify_identity: challenge and identity are read, and the signature is  *)
(* verified with the key that was read ("proved" is history);              *)
(***************************************************************************)
BeginVerify(v, c, k) ==
  /\ verifications[v].at = "idle" /\ c \in challenges /\ c.expires >= second
  /\ identity # Nobody /\ ~ identity.revoked /\ identity.key = k
  /\ identity' = [identity EXCEPT !.proved = @ \cup {k}]
  /\ verifications' = [verifications EXCEPT ![v] = [at |-> "write", challenge |-> c.id]]
  /\ UNCHANGED <<challenges, second, payVars, stored, ghostVars, stores, reloads>>

(* then the identity, whatever it is now, is verified. *)
FinishVerify(v) ==
  /\ verifications[v].at = "write"
  /\ challenges' = {c \in challenges : c.id # verifications[v].challenge}
  /\ identity' = IF identity = Nobody THEN identity ELSE [identity EXCEPT !.verified = TRUE]
  /\ verifications' = [verifications EXCEPT ![v] = NoVerification]
  /\ UNCHANGED <<second, payVars, stored, ghostVars, stores, reloads>>

(* set_identity_scopes: of the scopes, only "pay" matters here. *)
SetScope(pays) ==
  /\ identity # Nobody /\ ~ identity.revoked /\ identity.pays # pays
  /\ identity' = [identity EXCEPT !.pays = pays]
  /\ UNCHANGED <<challenges, verifications, second, payVars, stored, ghostVars, stores, reloads>>

(* revoke_identity also drops the challenges of the agent. *)
Revoke ==
  /\ identity # Nobody /\ ~ identity.revoked
  /\ identity' = [identity EXCEPT !.revoked = TRUE] /\ challenges' = {}
  /\ UNCHANGED <<verifications, second, payVars, stored, ghostVars, stores, reloads>>
-----------------------------------------------------------------------------
Revoked == IF identity = Nobody THEN FALSE ELSE identity.revoked
AllowsPay == identity # Nobody /\ identity.verified /\ ~ identity.revoked /\ identity.pays

CallTo(p, place) == payCalls' = [payCalls EXCEPT ![p].at = place]
EndCall(p) == payCalls' = [payCalls EXCEPT ![p] = NoCall]

(* pay: the identity may pay, and the intent is signed and not expired. *)
CheckIntent(p, i) ==
  /\ payCalls[p].at = "idle" /\ AllowsPay
  /\ second < i.expires /\ i.expires <= second + IntentLife
  /\ payCalls' = [payCalls EXCEPT ![p] = [NoCall EXCEPT !.at = "claim", !.intent = i]]
  /\ UNCHANGED <<identityVars, second, nonces, bound, paid, stored, ghostVars, stores, reloads>>

InForce == {n \in nonces : n.expires >= second}

\* Mutant of ClaimIntent: nonces are claimed for each key by itself.
ClaimPerKey(p) ==
  LET i == payCalls[p].intent
  IN /\ payCalls[p].at = "claim"
     /\ nonces' = InForce \cup {i}
     /\ payCalls' = [payCalls EXCEPT ![p].at = "admit", ![p].since = second,
                                     ![p].claimed = (i \notin InForce)]
     /\ UNCHANGED <<identityVars, second, bound, paid, stored, ghostVars, stores, reloads>>

(***************************************************************************)
(* claim_agent_intent: a nonce is free, or was claimed for the same key;   *)
(* expired ones are dropped.                                               *)
(***************************************************************************)
ClaimIntent(p) ==
  LET i == payCalls[p].intent
      used == {n \in InForce : n.nonce = i.nonce}
      admitted == i.expires > second
                    /\ IF used = {} THEN Cardinality(InForce) < MaxNonces
                                    ELSE \A n \in used : n.key = i.key
  IN /\ payCalls[p].at = "claim"
     /\ nonces' = IF i.expires <= second THEN nonces
                  ELSE IF admitted /\ used = {} THEN InForce \cup {i} ELSE InForce
     /\ payCalls' = [payCalls EXCEPT ![p] =
                       IF admitted THEN [@ EXCEPT !.at = "admit", !.since = second,
                                                  !.claimed = (used = {})]
                                   ELSE NoCall]
     /\ UNCHANGED <<identityVars, second, bound, paid, stored, ghostVars, stores, reloads>>

(* A failed request gives back the nonce if it was the one to claim it. *)
FailCall(p) ==
  payCalls' = [payCalls EXCEPT ![p] = IF @.claimed THEN [@ EXCEPT !.at = "release"] ELSE NoCall]

\* Mutant of AdmitPayment: the identity is not looked at again.
AdmitAnyone(p) ==
  /\ payCalls[p].at = "admit"
  /\ CallTo(p, "create")
  /\ UNCHANGED <<identityVars, second, nonces, bound, paid, stored, ghostVars, stores, reloads>>

(* agent_create_payment_ex_mode looks at the identity again, *)
AdmitPayment(p) ==
  /\ payCalls[p].at = "admit"
  /\ identity # Nobody
       => IF identity.revoked \/ (identity.verified /\ ~ identity.pays)
          THEN FailCall(p) ELSE CallTo(p, "create")
  /\ identity = Nobody => CallTo(p, "create")
  /\ UNCHANGED <<identityVars, second, nonces, bound, paid, stored, ghostVars, stores, reloads>>

\* Mutant of CreateUnderIntent: the key is not looked up.
CreateAlways(p) ==
  LET i == payCalls[p].intent
  IN /\ payCalls[p].at = "create"
     /\ \/ FailCall(p) /\ UNCHANGED bound
        \/ /\ bound' = bound \cup {i.key}
           /\ CallTo(p, "prepare")
     /\ UNCHANGED <<identityVars, second, nonces, paid, stored, ghostVars, stores, reloads>>

(* and replays the payment of the key, creates one, or fails. *)
CreateUnderIntent(p) ==
  LET i == payCalls[p].intent
  IN /\ payCalls[p].at = "create"
     /\ \/ i.key \in bound /\ EndCall(p) /\ UNCHANGED bound
        \/ FailCall(p) /\ UNCHANGED bound
        \/ /\ i.key \notin bound
           /\ bound' = bound \cup {i.key}
           /\ CallTo(p, "prepare")
     /\ UNCHANGED <<identityVars, second, nonces, paid, stored, ghostVars, stores, reloads>>

(* prepare_created_payment succeeds, or the payment fails with the request. *)
PrepareUnderIntent(p) ==
  LET i == payCalls[p].intent
  IN /\ payCalls[p].at = "prepare"
     /\ \/ /\ EndCall(p)
           /\ paid' = paid \cup {[intent |-> i, at |-> payCalls[p].since,
                                  again |-> \E x \in paid : x.intent.key = i.key]}
        \/ FailCall(p) /\ UNCHANGED paid
     /\ UNCHANGED <<identityVars, second, nonces, bound, stored, ghostVars, stores, reloads>>

(* Other requests that hold the nonce. *)
Users(n, p) == {q \in Payers \ {p} : /\ payCalls[q].intent # Nobody /\ payCalls[q].at # "claim"
                                     /\ payCalls[q].intent.nonce = n}
PaidFor(n, k) == \E x \in paid : x.intent.nonce = n /\ x.intent.key = k

(***************************************************************************)
(* release_agent_intent: the nonce is free again, if it is still bound to  *)
(* the key, although another request with the same key may be using it.    *)
(***************************************************************************)
ReleaseIntent(p) ==
  LET i == payCalls[p].intent
      released == {n \in nonces : n.nonce = i.nonce /\ n.key = i.key}
  IN /\ payCalls[p].at = "release"
     /\ nonces' = nonces \ released
     /\ freed' = IF released # {} /\ (Users(i.nonce, p) # {} \/ PaidFor(i.nonce, i.key))
                 THEN freed \cup {i.nonce} ELSE freed
     /\ EndCall(p)
     /\ UNCHANGED <<identityVars, second, bound, paid, stored, answered, swapped, dropped,
                    stores, reloads>>

(* A finished payment is pruned, and its key with it. *)
ForgetKey(k) ==
  /\ k \in bound /\ Cardinality(dropped) < MaxForgotten
  /\ bound' = bound \ {k} /\ dropped' = dropped \cup {k}
  /\ UNCHANGED <<identityVars, second, nonces, payCalls, paid, stored, answered, swapped, freed,
                 stores, reloads>>
-----------------------------------------------------------------------------
Tick ==
  /\ second < LastSecond /\ second' = second + 1
  /\ UNCHANGED <<identityVars, payVars, stored, ghostVars, stores, reloads>>

(* durable_checkpoint: a request is answered after its effect is saved. *)
SaveAuthority ==
  /\ stores < MaxStores /\ stores' = stores + 1
  /\ stored' = [identity |-> identity, nonces |-> nonces, bound |-> bound]
  /\ answered' = (answered \/ Revoked)
  /\ UNCHANGED <<identityVars, second, payVars, swapped, freed, dropped, reloads>>

(* A restart: challenges and requests are gone, the rest is as saved. *)
ReloadAuthority ==
  /\ reloads < MaxReloads /\ reloads' = reloads + 1
  /\ identity' = stored.identity /\ challenges' = {}
  /\ nonces' = {n \in stored.nonces : n.expires >= second} /\ bound' = stored.bound
  /\ verifications' = [v \in Verifiers |-> NoVerification]
  /\ payCalls' = [p \in Payers |-> NoCall]
  /\ freed' = freed \cup {n.nonce : n \in nonces \ stored.nonces}
  /\ dropped' = dropped \cup (bound \ stored.bound)
  /\ UNCHANGED <<second, paid, stored, answered, swapped, stores>>

AuthorityStep ==
  \/ \E k \in AgentKeys : Register(k)
  \/ \E v \in Verifiers : \/ BeginChallenge(v) \/ FinishVerify(v)
                          \/ \E id \in Challenges : StoreChallenge(v, id)
                          \/ \E c \in challenges, k \in AgentKeys : BeginVerify(v, c, k)
  \/ \E pays \in BOOLEAN : SetScope(pays)
  \/ Revoke
  \/ \E p \in Payers : \/ \E i \in Intents : CheckIntent(p, i)
                       \/ ClaimIntent(p) \/ AdmitPayment(p) \/ CreateUnderIntent(p)
                       \/ PrepareUnderIntent(p) \/ ReleaseIntent(p)
  \/ \E k \in bound : ForgetKey(k)
  \/ Tick \/ SaveAuthority \/ ReloadAuthority

AuthoritySpec == AuthorityInit /\ [][AuthorityStep]_authorityVars
-----------------------------------------------------------------------------
(* Properties.                                                             *)

(* A verified identity has proved the key it has, unless it registered     *)
(* another key while a verification of the one before was not yet written. *)
VerifiedKeyProved ==
  /\ identity # Nobody => (identity.verified => swapped \/ identity.key \in identity.proved)
  /\ \A v \in Verifiers : verifications[v].at = "write" =>
       identity # Nobody /\ (swapped \/ identity.key \in identity.proved)

(* A revocation that was answered stands through registrations, late       *)
(* verifications and restarts.                                             *)
RevocationStands == answered => Revoked

Creating == {p \in Payers : payCalls[p].at \in {"create", "prepare"}}

(* Once it is answered no payment follows, except of the requests that had *)
(* looked at the identity for the last time before.                        *)
NoNewPayment ==
  answered => Creating' \subseteq Creating /\ (Creating = {} => paid' = paid)

RevocationStops == [][NoNewPayment]_authorityVars

(* A nonce lapses with the intent it was claimed for, even if an intent    *)
(* that repeats nonce and key expires later.                               *)
Lapsed(i, t) == \E j \in Intents : j.nonce = i.nonce /\ j.key = i.key /\ j.expires < t

(* Two payments whose intents share a nonce are of one key, or the nonce   *)
(* of the one lapsed before the other claimed it, or was given back by one *)
(* request while another one had it, or was lost in a restart.             *)
NonceBinds ==
  \A x, y \in paid :
    x.intent.nonce = y.intent.nonce /\ x.intent.key # y.intent.key =>
      \/ x.intent.nonce \in freed
      \/ Lapsed(x.intent, y.at) \/ Lapsed(y.intent, x.at)

(* One intent pays once: twice only when its key was forgotten, since the  *)
(* nonce alone does not refuse the same request.                           *)
IntentPaidOnce == \A x \in paid : x.again => x.intent.key \in dropped

(* An identity counts as verified for the key it proved, and not once it   *)
(* was revoked.                                                            *)
IdentityProved == AuthorityTypeOK /\ VerifiedKeyProved /\ RevocationStands

(* An intent authorises one payment, and its nonce one intent at a time.   *)
IntentsPayOnce == NonceBinds /\ IntentPaidOnce
=============================================================================
