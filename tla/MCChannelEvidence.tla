-------------------------- MODULE MCChannelEvidence --------------------------
(* Instances of ChannelEvidence: a chain s1, s2, a rival t2 of s2 that binds *)
(* another predecessor, and a state r1 of the next incarnation of the id.    *)
EXTENDS ChannelEvidence, TLC

CONSTANTS s1, s2, t2, r1, f1, f2, terms, MCOverlapping

MCSequence == [s \in States |-> IF s \in {s1, r1} THEN 1 ELSE 2]
MCPrevious == [s \in States |-> CASE s = s2 -> s1 [] s = t2 -> s2
                             [] OTHER -> None]
MCFundingOf == [s \in States |-> IF s = r1 THEN f2 ELSE f1]
MCTermsOf == [f \in Fundings |-> terms]
MCLife == << [funding |-> f1, status |-> "open"], [funding |-> f2, status |-> "open"] >>

(* Bound: requests overlap while few have been made. *)
Overlap == requests > MCOverlapping => Cardinality({c \in Calls : calls[c] # Idle}) <= 1

MCSymmetry == Permutations(Parties) \cup Permutations(Calls)
=============================================================================
