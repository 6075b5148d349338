\* The agent services and the network services of one hub.
SPECIFICATION MCSpec
CONSTANTS
  \* MicroStreams
  NoKeyGiven = NoKeyGiven
  q1 = q1
  q2 = q2
  q3 = q3
  givenKey = givenKey
  Requests = {q1, q2, q3}
  AmountOf <- MCAmountOf
  KeyOf <- MCKeyOf
  Pushers = {x1, x2}
  Cap = 3
  KeptEntries = 2
  MaxPushes = 4
  MaxRestarts = 1
  \* DeferredPayments
  NoOrder = NoOrder
  Orders = {o1}
  Promoters = {x1, x2}
  Loop = loop
  MaxTime = 1
  MaxCreated = 3
  MaxReboots = 1
  \* AgentAuthority
  Nobody = Nobody
  AgentKeys = {y1, y2}
  Challenges = {h1}
  Verifiers = {v1}
  Payers = {x1, x2}
  Intents <- MCIntents
  ChallengeLife = 1
  IntentLife = 3
  MaxStores = 1
  MaxNonces = 1
  LastSecond = 2
  MaxReloads = 1
  MaxForgotten = 1
  \* PeerTable
  NoKey = NoKey
  NoSeed = NoSeed
  NoPeer = NoPeer
  Providers = {x1, x2}
  PeerKeys = {y1, y2}
  MaxPeers = 1
  MaxAge = 0
  MaxMoment = 1
  MaxHellos = 2
  MaxChanges = 3
  MaxRounds = 1
  MaxSnapshots = 1
  MaxReturns = 1
  \* Routing
  Self = "self"
  MeiScale = 2
  MaxRoute = 4
  Queries <- MCQueries
  \* Amounts
  Error = Error
  MaxWord = 511
  MaxUnit = 4
  UnitZhu = 3
  UnitMei = 4
  Mantissas <- MCMantissas
  Counts = {0, 1, 20, 60}
SYMMETRY MCSymmetry
CONSTRAINT Few
\* Each part may stop: nobody has to send a request.
CHECK_DEADLOCK FALSE
INVARIANTS
  StreamCovered
  OrdersPaidOnce
  IdentityProved
  IntentsPayOnce
  PinsStand
  RouteSound
  AmountExact
PROPERTIES
  CancelHolds
  RevocationStops
