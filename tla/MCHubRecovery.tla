---------------------------- MODULE MCHubRecovery ----------------------------
(* Instances of HubRecovery: two channels between a, b and c.              *)
EXTENDS HubRecovery

CONSTANTS c1, c2, p1, p2, p3, p4

Hop(c, side) == [channel |-> c, from |-> side]

\* p1 crosses both channels, p2 and p4 pay on the first one, p3 pays back.
AllHops == (p1 :> {Hop(c1, "left"), Hop(c2, "left")}) @@ (p2 :> {Hop(c1, "left")})
           @@ (p3 :> {Hop(c1, "right")}) @@ (p4 :> {Hop(c1, "left")})
MCHops == [p \in Payments |-> AllHops[p]]

\* The first channel has room for two of the three payments from the left.
MCAmount == [p \in Payments |-> 1]
MCOpening == [c \in {c1, c2} |-> [side \in {"left", "right"} |->
               IF side = "right" THEN 0 ELSE IF c = c1 THEN 2 ELSE 1]]
=============================================================================
