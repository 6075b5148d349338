------------------------------ MODULE MCServices ------------------------------
(* The agent services and the network services of a hub.  They share no    *)
(* state, so a behaviour takes the steps of one part; the others rest.     *)
EXTENDS MicroStreams, DeferredPayments, AgentAuthority, PeerTable, Routing, Amounts, TLC

CONSTANTS q1, q2, q3, givenKey   \* pushes, and the key one of them brings

VARIABLE part

-----------------------------------------------------------------------------
(* MicroStreams: two pushes without a key of the user and one with. *)
MCAmountOf == [r \in Requests |-> IF r = q2 THEN 2 ELSE 1]
MCKeyOf == [r \in Requests |-> IF r = q3 THEN givenKey ELSE NoKeyGiven]

(* AgentAuthority: three intents with one nonce, two of them for one key. *)
Repeated == [nonce |-> "n", key |-> "k1", expires |-> 3]
MCIntents == {Repeated, [nonce |-> "n", key |-> "k1", expires |-> 1],
              [nonce |-> "n", key |-> "k2", expires |-> 3]}

(* Amounts: around the limits of the scaled-down word. *)
MCMantissas == 0 .. 12 \cup {20, 25, 90, 99, 100, 101, 110, 120, 200, 300, 400, 500, 512, 513, 1000}

(* Routing: five channels in a diamond between A and D, of three hubs, each *)
(* absent or with one of a few balances and advertisements.                 *)
Channel(id, a, b, hub_, left, right, ad) ==
  [id |-> id, a |-> a, b |-> b, owner |-> hub_, left |-> left, right |-> right, ad |-> ad]
Variants(id, a, b, hub_, S) == {{}} \cup {{Channel(id, a, b, hub_, s[1], s[2], s[3])} : s \in S}
Diamonds ==
  {c1 \cup c2 \cup c3 \cup c4 \cup c5 :
     c1 \in Variants("c1", "A", "B", "self", {<<2, 0, "exact">>, <<0, 2, "exact">>}),
     c2 \in Variants("c2", "D", "B", "P", {<<0, 2, "exact">>, <<1, 3, "mei">>, <<1, 1, "mei">>,
                                           <<2, 0, "total">>, <<1, 1, "exact">>}),
     c3 \in Variants("c3", "A", "C", "P", {<<2, 0, "exact">>, <<0, 2, "exact">>, <<0, 0, "none">>}),
     c4 \in Variants("c4", "C", "D", "Q", {<<2, 0, "exact">>, <<0, 0, "exact">>})
              \cup {{Channel("c4", "C", "D", "Q", 2, 0, "exact"),
                     Channel("c4", "C", "D", "P", 2, 2, "exact")}},
     c5 \in Variants("c5", "B", "C", "self", {<<2, 2, "exact">>, <<0, 2, "exact">>})}
Searches ==
  [channels : Diamonds, payer : {"A"}, payee : {"D"}, amount : {0, 2}, hops : 1 .. 3, route : {<< >>}]
GivenRoutes ==
  [channels : Diamonds, payer : {"A"}, payee : {"D"}, amount : {2}, hops : {3},
   route : {<<"c1", "c2">>, <<"c3", "c5", "c2">>, <<"c1", "c5", "c3", "c1", "c2">>}]
NoChannels ==
  [channels |-> {}, payer |-> "A", payee |-> "D", amount |-> 0, hops |-> 1, route |-> << >>]
MCQueries == Searches \cup GivenRoutes

-----------------------------------------------------------------------------
Parts == {"streams", "deferred", "authority", "peers", "routes", "amounts"}

MCInit ==
  /\ part \in Parts
  /\ StreamInit /\ DeferredInit /\ AuthorityInit /\ PeersInit
  /\ part # "streams" => stream.pays
  /\ IF part = "routes" THEN RoutingInit
     ELSE /\ query = NoChannels /\ edges = {} /\ queue = << >> /\ reached = << >>
          /\ stage = "asked" /\ plan = NoPlan
  /\ IF part = "amounts" THEN AmountInit
     ELSE /\ first = Resolve(CHOOSE t \in Texts : TRUE, 0, 0)
          /\ text = first /\ value = Unparsed

Only(name, step) == part = name /\ step /\ UNCHANGED part

MCNext ==
  \/ Only("streams", StreamStep)
       /\ UNCHANGED <<deferredVars, authorityVars, peerVars, routingVars, amountVars>>
  \/ Only("deferred", DeferredStep)
       /\ UNCHANGED <<streamVars, authorityVars, peerVars, routingVars, amountVars>>
  \/ Only("authority", AuthorityStep)
       /\ UNCHANGED <<streamVars, deferredVars, peerVars, routingVars, amountVars>>
  \/ Only("peers", PeersStep)
       /\ UNCHANGED <<streamVars, deferredVars, authorityVars, routingVars, amountVars>>
  \/ Only("routes", RoutingStep)
       /\ UNCHANGED <<streamVars, deferredVars, authorityVars, peerVars, amountVars>>
  \/ Only("amounts", AmountStep)
       /\ UNCHANGED <<streamVars, deferredVars, authorityVars, peerVars, routingVars>>

MCSpec ==
  MCInit /\ [][MCNext]_<<part, streamVars, deferredVars, authorityVars, peerVars, routingVars, amountVars>>

-----------------------------------------------------------------------------
(* Payments under an intent are not mixed with a challenge in progress, at  *)
(* most one thing is withdrawn, forgotten or reloaded, and nothing of that  *)
(* where an intent repeats nonce and key of another.                        *)
Repeating ==
  Repeated \in nonces \cup {payCalls[p].intent : p \in Payers} \cup {x.intent : x \in paid}
Paying == \E p \in Payers : payCalls[p].at # "idle"
FewAuthority ==
  /\ Paying \/ nonces # {} \/ bound # {} \/ paid # {} =>
       /\ challenges = {} /\ verifications = [v \in Verifiers |-> NoVerification] /\ ~swapped
       /\ identity # Nobody => Cardinality(identity.proved) = 1
  /\ reloads + Cardinality(dropped)
       + (IF identity # Nobody THEN IF identity.pays THEN 0 ELSE 1 ELSE 0) <= 1
  /\ stores = 1 /\ reloads = 0 => dropped = {} /\ freed = {}
  /\ Repeating => stores = 0 /\ dropped = {} /\ ~Revoked
  /\ stored.identity # Nobody => stored.identity.pays

(* One open transaction, one seed at a time, five events from outside. *)
FewPeers ==
  /\ Cardinality(seeds) <= 1
  /\ Cardinality({p \in Providers : opened[p] # NoKey}) <= 1
  /\ used.hellos + used.changes + used.rounds + used.snapshots + used.returns <= 5

Few == FewAuthority /\ FewPeers

(* The parts share their model values. *)
MCSymmetry == Permutations(Payers) \cup Permutations(AgentKeys)
=============================================================================
