-------------------------------- MODULE Routing --------------------------------
(***************************************************************************)
(* How a payment gets its route, its signers and its participants: the     *)
(* channels of this hub and the advertisements of the peers are merged     *)
(* into one graph, a breadth-first search finds a path with liquidity (or  *)
(* the caller's route is walked), and the plan is cut into the part of     *)
(* each hub, which the hubs check when they are asked to prepare.          *)
(*                                                                         *)
(* The maps of the code have no order, so which copy of a channel is taken *)
(* and in which order neighbours are visited is free here.                 *)
(***************************************************************************)
EXTENDS FiniteSets, Integers, Sequences, SequencesExt

CONSTANTS
  Queries,   \* [channels, payer, payee, amount, hops, route]: what may be asked
  Self,      \* this hub
  MeiScale,  \* ZHU_PER_MEI
  MaxRoute   \* 32 hops

(* A hub knows finitely many channels, each of its own by one identifier. *)
ASSUME RoutingAssumption ==
  /\ MeiScale \in Nat \ {0} /\ MaxRoute \in Nat
  /\ \A q \in Queries :
       /\ DOMAIN q = {"channels", "payer", "payee", "amount", "hops", "route"}
       /\ q.payer # q.payee /\ q.amount \in Nat /\ q.hops \in 1 .. MaxRoute
       /\ q.route \in Seq(ToSet(q.route)) /\ IsFiniteSet(q.channels)
       /\ \A ch \in q.channels : ch.left \in Nat /\ ch.right \in Nat
       /\ \A c, d \in q.channels : c.id = d.id /\ c.owner = d.owner => c = d

VARIABLES
  query,    \* the request, and the channels there are
  edges,    \* the routing graph
  queue,    \* addresses to visit
  reached,  \* the path to each address seen
  stage,    \* where the request is
  plan      \* route, signers and hops of each hub

routingVars == <<query, edges, queue, reached, stage, plan>>

-----------------------------------------------------------------------------
(* Edges.  A channel is [id, a, b, owner, left, right, ad]: "ad" says how  *)
(* its owner publishes it: exact, in whole Mei, its total only, or not.    *)

EdgeFromLocal(ch) ==
  [id |-> ch.id, a |-> ch.a, b |-> ch.b, via |-> ch.owner, capacity |-> ch.left + ch.right,
   aAvailable |-> ch.left, bAvailable |-> ch.right, known |-> TRUE]

WholeMei(zhu) == (zhu \div MeiScale) * MeiScale

(* advertise_channels: what the hello of the owner says of a channel. *)
Advertised(ch) ==
  CASE ch.ad = "exact" -> [capacity |-> ch.left + ch.right, left |-> ch.left, right |-> ch.right]
    [] ch.ad = "mei"   -> [capacity |-> WholeMei(ch.left + ch.right),
                           left |-> WholeMei(ch.left), right |-> WholeMei(ch.right)]
    [] ch.ad = "total" -> [capacity |-> ch.left + ch.right, left |-> 0, right |-> 0]
    [] ch.ad = "none"  -> [capacity |-> 0, left |-> 0, right |-> 0]

\* Mutant of EdgeFromAdvertised: each side is taken to have all of the channel.
EdgeOptimistic(ch) ==
  LET ad == Advertised(ch)
  IN [id |-> ch.id, a |-> ch.a, b |-> ch.b, via |-> ch.owner, capacity |-> ad.capacity,
      aAvailable |-> ad.capacity, bAvailable |-> ad.capacity, known |-> ad.capacity > 0]

(* edge_from_advertised: a total without sides counts for both of them. *)
EdgeFromAdvertised(ch) ==
  LET ad == Advertised(ch)
      totalOnly == ad.left = 0 /\ ad.right = 0 /\ ad.capacity > 0
  IN [id |-> ch.id, a |-> ch.a, b |-> ch.b, via |-> ch.owner, capacity |-> ad.capacity,
      aAvailable |-> IF totalOnly THEN ad.capacity ELSE ad.left,
      bAvailable |-> IF totalOnly THEN ad.capacity ELSE ad.right,
      known |-> ad.left > 0 \/ ad.right > 0 \/ ad.capacity > 0]

(* merge_network_edges: one edge for each identifier, the local one first. *)
Merges(channels) ==
  LET copies(id) == {ch \in channels : ch.id = id}
      local(id) == {ch \in copies(id) : ch.owner = Self}
      candidates(id) == IF local(id) # {} THEN {EdgeFromLocal(ch) : ch \in local(id)}
                        ELSE {EdgeFromAdvertised(ch) : ch \in copies(id)}
      ids == {ch.id : ch \in channels}
  IN {S \in SUBSET UNION {candidates(id) : id \in ids} :
        \A id \in ids : Cardinality({e \in S : e.id = id}) = 1}

(* filter_edges_by_capacity: what is too small in total is not looked at. *)
LargeEnough(S, amount) ==
  {e \in S : amount > 0 => (e.capacity = 0 \/ e.capacity >= amount)}

(* can_send_from. *)
CanSend(e, from, amount) ==
  \/ amount = 0 \/ ~ e.known
  \/ from = e.a /\ e.aAvailable >= amount
  \/ from = e.b /\ from # e.a /\ e.bAvailable >= amount

Other(e, x) == IF e.a = x THEN e.b ELSE e.a
-----------------------------------------------------------------------------
NoPlan == [route |-> << >>, signers |-> << >>, hops |-> {}]

RoutingTypeOK ==
  /\ query \in Queries
  /\ \A e, f \in edges : e.id = f.id => e = f
  /\ stage \in {"asked", "search", "walk", "found", "none", "planned", "refused"}
  /\ \A x \in DOMAIN reached : Len(reached[x]) <= query.hops \/ query.route # << >>
  /\ \A i, j \in DOMAIN queue : i # j => queue[i] # queue[j]
  /\ \A h \in plan.hops : DOMAIN h = {"channel", "from", "to", "via"}

RoutingInit ==
  /\ query \in Queries /\ edges = {} /\ queue = << >> /\ reached = << >>
  /\ stage = "asked" /\ plan = NoPlan

(* create_payment_mode reads channels and peers and builds the graph. *)
BuildGraph ==
  /\ stage = "asked"
  /\ \E S \in Merges(query.channels) : edges' = LargeEnough(S, query.amount)
  /\ IF query.route # << >> THEN stage' = "walk"
     ELSE stage' = IF {query.payer, query.payee} \subseteq {e.a : e \in edges'} \cup {e.b : e \in edges'}
                   THEN "search" ELSE "none"
  /\ queue' = <<query.payer>> /\ reached' = [x \in {query.payer} |-> << >>]
  /\ UNCHANGED <<query, plan>>

Usable(S, amount, x) == {e \in S : x \in {e.a, e.b} /\ CanSend(e, x, amount)}

\* Mutant of VisitNext: it is not remembered what was seen.
VisitOver ==
  /\ stage = "search" /\ queue # << >>
  /\ LET x == Head(queue)
         usable == Usable(edges, query.amount, x)
         fresh == {Other(e, x) : e \in usable} \ {query.payer}
     IN IF x = query.payee
        THEN stage' = "found" /\ UNCHANGED <<queue, reached>>
        ELSE IF Len(reached[x]) >= query.hops
        THEN queue' = Tail(queue) /\ UNCHANGED <<stage, reached>>
        ELSE /\ \E via \in [fresh -> usable], order \in SetToAllKPermutations(fresh) :
                  /\ \A y \in fresh : Other(via[y], x) = y
                  /\ Len(order) = Cardinality(fresh)
                  /\ queue' = Tail(queue) \o order
                  /\ reached' = [y \in DOMAIN reached \cup fresh |->
                                   IF y \in fresh THEN Append(reached[x], via[y]) ELSE reached[y]]
             /\ UNCHANGED stage
  /\ UNCHANGED <<query, edges, plan>>

(***************************************************************************)
(* One turn of the loop of find_path_for_amount: the payee is reached, the *)
(* address is too far, or its neighbours are queued once.                  *)
(***************************************************************************)
VisitNext ==
  /\ stage = "search" /\ queue # << >>
  /\ LET x == Head(queue)
         usable == Usable(edges, query.amount, x)
         fresh == {Other(e, x) : e \in usable} \ DOMAIN reached
     IN IF x = query.payee
        THEN stage' = "found" /\ UNCHANGED <<queue, reached>>
        ELSE IF Len(reached[x]) >= query.hops
        THEN queue' = Tail(queue) /\ UNCHANGED <<stage, reached>>
        ELSE /\ \E via \in [fresh -> usable], order \in SetToAllKPermutations(fresh) :
                  /\ \A y \in fresh : Other(via[y], x) = y
                  /\ Len(order) = Cardinality(fresh)
                  /\ queue' = Tail(queue) \o order
                  /\ reached' = [y \in DOMAIN reached \cup fresh |->
                                   IF y \in fresh THEN Append(reached[x], via[y]) ELSE reached[y]]
             /\ UNCHANGED stage
  /\ UNCHANGED <<query, edges, plan>>

GiveUp ==
  /\ stage = "search" /\ queue = << >> /\ stage' = "none"
  /\ UNCHANGED <<query, edges, queue, reached, plan>>

(* The addresses a path leads through. *)
Walk(from, path) ==
  LET at[i \in 0 .. Len(path)] == IF i = 0 THEN from ELSE Other(path[i], at[i - 1])
  IN [i \in 1 .. Len(path) + 1 |-> at[i - 1]]

(* Each edge starts where the one before it ends, and can carry the amount. *)
Carries(path, from, to, amount) ==
  LET at == Walk(from, path)
  IN /\ \A i \in DOMAIN path : at[i] \in {path[i].a, path[i].b} /\ CanSend(path[i], at[i], amount)
     /\ at[Len(path) + 1] = to

(* The caller's route; an unknown channel ends the request. *)
WalkRoute ==
  LET path == [i \in DOMAIN query.route |-> CHOOSE e \in edges : e.id = query.route[i]]
  IN /\ stage = "walk"
     /\ IF /\ ToSet(query.route) \subseteq {e.id : e \in edges}
           /\ Carries(path, query.payer, query.payee, query.amount)
        THEN stage' = "found" /\ reached' = [x \in {query.payee} |-> path]
        ELSE stage' = "none" /\ UNCHANGED reached
     /\ UNCHANGED <<query, edges, queue, plan>>
-----------------------------------------------------------------------------
(* One edge of ordered_signers: its far end signs, once, the payer later. *)
Signed(acc, e, payer, payee) ==
  IF acc.at \notin {e.a, e.b} THEN acc
  ELSE LET x == Other(e, acc.at)
       IN [at |-> x, signers |-> IF x \in {payer, payee} \/ Contains(acc.signers, x)
                                 THEN acc.signers ELSE Append(acc.signers, x)]

\* Mutant of OrderedSigners: the walk goes along the path, not against it.
OrderedForward(path, payer, payee) ==
  LET back[i \in 0 .. Len(path)] ==
        IF i = 0 THEN [at |-> payee, signers |-> <<payee>>]
        ELSE Signed(back[i - 1], path[i], payer, payee)
      signers == back[Len(path)].signers
  IN IF Contains(signers, payer) THEN signers ELSE Append(signers, payer)

(* ordered_signers: from the payee back along the path, the payer last. *)
OrderedSigners(path, payer, payee) ==
  LET back[i \in 0 .. Len(path)] ==
        IF i = 0 THEN [at |-> payee, signers |-> <<payee>>]
        ELSE Signed(back[i - 1], path[Len(path) - i + 1], payer, payee)
      signers == back[Len(path)].signers
  IN IF Contains(signers, payer) THEN signers ELSE Append(signers, payer)

(* No channel and no address comes twice. *)
IsSimple(from, path) ==
  IsInjective([i \in DOMAIN path |-> path[i].id]) /\ IsInjective(Walk(from, path))

(***************************************************************************)
(* The session: route, signers, and each hop with its direction and hub.   *)
(***************************************************************************)
PlanPayment ==
  LET path == reached[query.payee]
      at == Walk(query.payer, path)
  IN /\ stage = "found"
     /\ IF IsSimple(query.payer, path)
        THEN /\ stage' = "planned"
             /\ plan' = [route |-> [i \in DOMAIN path |-> path[i].id],
                         signers |-> OrderedSigners(path, query.payer, query.payee),
                         hops |-> {[channel |-> path[i].id, from |-> at[i], to |-> at[i + 1],
                                    via |-> path[i].via] : i \in DOMAIN path}]
        ELSE stage' = "refused" /\ UNCHANGED plan
     /\ UNCHANGED <<query, edges, queue, reached>>

RoutingStep == BuildGraph \/ VisitNext \/ GiveUp \/ WalkRoute \/ PlanPayment

RoutingSpec == RoutingInit /\ [][RoutingStep]_routingVars
-----------------------------------------------------------------------------
(* What a hub checks before it prepares its part of a payment.             *)

(* build_participants: the hops of a descriptor. *)
HopsOf(hub) == {h \in plan.hops : h.via = hub}

(* validate_descriptor_payment: the signed path, and this hub's part of it. *)
DescriptorValid(hub) ==
  LET addresses == Reverse(plan.signers)
  IN /\ Len(plan.route) \in 1 .. MaxRoute
     /\ Len(plan.signers) = Len(plan.route) + 1
     /\ IsInjective(plan.route) /\ IsInjective(plan.signers)
     /\ addresses[1] = query.payer /\ addresses[Len(addresses)] = query.payee
     /\ \A h \in HopsOf(hub) :
          \E i \in DOMAIN plan.route : /\ plan.route[i] = h.channel
                                       /\ addresses[i] = h.from /\ addresses[i + 1] = h.to
     /\ \A h, k \in HopsOf(hub) : h.channel = k.channel => h = k

(* validate_participant_coverage: the channels it has are those described. *)
CoverageExact(hub) ==
  LET owned == {ch.id : ch \in {c \in query.channels : c.owner = hub}}
  IN ToSet(plan.route) \cap owned = {h.channel : h \in HopsOf(hub)}
-----------------------------------------------------------------------------
(* Properties.                                                             *)

(* Addresses that money can reach in so many hops, computed by layers. *)
Layers(S, q) ==
  LET within[k \in 0 .. q.hops] ==
        IF k = 0 THEN {q.payer}
        ELSE within[k - 1] \cup UNION {{Other(e, x) : e \in Usable(S, q.amount, x)} : x \in within[k - 1]}
  IN within

(* A search that finds nothing had nothing to find within the limit; one   *)
(* that finds a path found one of the shortest, with liquidity in the      *)
(* direction of the payment at each hop, and the path is not refused.      *)
SearchExact ==
  query.route = << >> =>
    /\ stage = "none" => query.payee \notin Layers(edges, query)[query.hops]
    /\ stage # "refused"
    /\ stage \in {"found", "planned"} =>
         LET path == reached[query.payee]
         IN /\ Carries(path, query.payer, query.payee, query.amount) /\ Len(path) <= query.hops
            /\ query.payee \notin Layers(edges, query)[Len(path) - 1]

(* Each hub accepts its part of a payment that was planned, and together   *)
(* the parts are the route, if each channel is registered at one hub only. *)
(* A route that the caller gives may be too long, and is then planned too. *)
OneOwner == \A c, d \in query.channels : c.id = d.id => c = d

PlanAccepted ==
  stage = "planned" /\ Len(plan.route) <= MaxRoute /\ OneOwner =>
    /\ \A h \in plan.hops : DescriptorValid(h.via) /\ CoverageExact(h.via)
    /\ {h.channel : h \in plan.hops} = ToSet(plan.route)

(* Where a side of a channel is published, the money of a planned hop is   *)
(* there when it is planned, also if only whole Mei are published, and on  *)
(* the own channels of the hub.  Two sides below one Mei are published as  *)
(* a total, which is no promise.                                           *)
SidesPublished(ch) ==
  ch.ad \in {"exact", "mei"} /\ (Advertised(ch).left > 0 \/ Advertised(ch).right > 0)

HopsFunded ==
  stage = "planned" =>
    \A h \in plan.hops, ch \in query.channels :
      ch.id = h.channel /\ ch.owner = h.via /\ (ch.owner = Self \/ SidesPublished(ch)) =>
        query.amount <= (IF h.from = ch.a THEN ch.left ELSE ch.right)

(* A route is found when there is one, each hub on it accepts its part, and *)
(* the money that is published for it is there.                            *)
RouteSound == RoutingTypeOK /\ SearchExact /\ PlanAccepted /\ HopsFunded
=============================================================================
