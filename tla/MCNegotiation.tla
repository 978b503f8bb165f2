---------------------------- MODULE MCNegotiation ----------------------------
(* Policies and products of the instances of Negotiation that TLC checks.       *)
EXTENDS Negotiation

MCFirst == [minimum |-> 2, auto |-> 3, rounds |-> 2]

\* The seller may later be content with less, in one round, or set the same again.
MCPolicies == {MCFirst, [minimum |-> 1, auto |-> 2, rounds |-> 1]}
MCOnePolicy == {MCFirst}

\* The product may be taken off sale and put back.
MCOnSale == {OnSale}
MCClosable == {OnSale, [OnSale EXCEPT !.open = FALSE]}
================================================================================
