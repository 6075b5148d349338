------------------------- MODULE MCCrossHubPayment -------------------------
(* CrossHubPayment for TLC: participants are interchangeable.              *)
EXTENDS CrossHubPayment, TLC

ParticipantSymmetry == Permutations(Participants)
=============================================================================
