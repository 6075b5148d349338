------------------------------ MODULE MCAgentPay ------------------------------
(* Instances of AgentPay: one principal, one invoice. *)
EXTENDS AgentPay, TLC

CONSTANTS inv, bill, plain, owner

MCPrincipalOf == [k \in Keys |-> owner]
MCInvoiceOf == [x \in Contents |-> IF x = plain THEN None ELSE inv]

MCSymmetry == Permutations(Payments) \cup Permutations(Calls) \cup Permutations(Keys)
=============================================================================
