-------------------------- MODULE AtomicCommitment --------------------------
(***************************************************************************)
(* What a cross-hub payment promises, with no journal, message or crash in *)
(* sight: one decision, taken once; a commit only when every participant   *)
(* hub is ready; no hub moves balances against the decision; the payer is  *)
(* told "settled" only after every participant has moved its channels.     *)
(* CrossHubPayment.tla is shown to implement this specification.           *)
(***************************************************************************)

CONSTANT Participants     \* hubs, other than the origin, that own route hops

VARIABLES
  decision,   \* what the origin has decided: "undecided", "commit" or "abort"
  part,       \* per participant: "working", "ready", "moved" or "undone"
  reported    \* whether the origin has recorded the payment as finished

vars == <<decision, part, reported>>

TypeOK ==
  /\ decision \in {"undecided", "commit", "abort"}
  /\ part \in [Participants -> {"working", "ready", "moved", "undone"}]
  /\ reported \in BOOLEAN

Init ==
  /\ decision = "undecided"
  /\ part = [p \in Participants |-> "working"]
  /\ reported = FALSE

(***************************************************************************)
(* A participant sets its liquidity aside.  It may still do so after the   *)
(* decision to abort, because requests are delivered late.                 *)
(***************************************************************************)
Ready(p) ==
  /\ part[p] = "working"
  /\ decision # "commit"
  /\ part' = [part EXCEPT ![p] = "ready"]
  /\ UNCHANGED <<decision, reported>>

DecideCommit ==
  /\ decision = "undecided"
  /\ \A p \in Participants : part[p] = "ready"
  /\ decision' = "commit"
  /\ UNCHANGED <<part, reported>>

DecideAbort ==
  /\ decision = "undecided"
  /\ decision' = "abort"
  /\ UNCHANGED <<part, reported>>

Move(p) ==
  /\ decision = "commit"
  /\ part[p] = "ready"
  /\ part' = [part EXCEPT ![p] = "moved"]
  /\ UNCHANGED <<decision, reported>>

(***************************************************************************)
(* A participant that never prepared may be told to abort as well: it then *)
(* refuses to prepare later.                                               *)
(***************************************************************************)
Undo(p) ==
  /\ decision = "abort"
  /\ part[p] \in {"working", "ready"}
  /\ part' = [part EXCEPT ![p] = "undone"]
  /\ UNCHANGED <<decision, reported>>

Report ==
  /\ ~reported
  /\ \/ decision = "commit" /\ \A p \in Participants : part[p] = "moved"
     \/ decision = "abort" /\ \A p \in Participants : part[p] = "undone"
  /\ reported' = TRUE
  /\ UNCHANGED <<decision, part>>

Next ==
  \/ DecideCommit \/ DecideAbort \/ Report
  \/ \E p \in Participants : Ready(p) \/ Move(p) \/ Undo(p)

Spec == Init /\ [][Next]_vars
=============================================================================
