---------------------------- MODULE MCChannelBills ----------------------------
(* Instances of ChannelBills: one channel with a payment in each direction. *)
EXTENDS ChannelBills

CONSTANTS ch, pay, back

MCHops == [r \in Payments |-> {[channel |-> ch, from |-> IF r = pay THEN "left" ELSE "right"]}]
MCAmount == [r \in Payments |-> 1]
MCOpening == [d \in {ch} |-> [side \in Sides |-> IF side = "left" THEN 1 ELSE 0]]
=============================================================================
