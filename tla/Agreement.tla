------------------------------- MODULE Agreement -------------------------------
(* What a negotiation promises its two parties: formal offers are made one      *)
(* after the other, at most one is open, the seller's authority covers an open  *)
(* offer or not, and an agreement is reached only on the open offer, once that  *)
(* authority was given and the buyer has seen it.  Nothing follows the end.     *)
EXTENDS Naturals

VARIABLES
    phase,      \* "open", "agreed" or "closed"
    made,       \* number of offers made so far
    standing,   \* the open offer, 0 if there is none
    granted,    \* the seller's authority covers the open offer
    seen        \* and the buyer's client has shown it since

vars == <<phase, made, standing, granted, seen>>

\* The standing offer is one that was made.
TypeOK ==
    /\ phase \in {"open", "agreed", "closed"}
    /\ made \in Nat
    /\ standing \in 0..made
    /\ granted \in BOOLEAN /\ seen \in BOOLEAN

Init ==
    /\ phase = "open" /\ made = 0 /\ standing = 0
    /\ granted = FALSE /\ seen = FALSE

\* A new offer takes the place of the open one, with or without authority.  It
\* may be a counter, made in answer to a buyer's offer that is refused at once.
Propose(o) ==
    /\ phase = "open"
    /\ made' = o /\ standing' = o
    /\ granted' \in BOOLEAN /\ seen' = FALSE
    /\ UNCHANGED phase

\* A new offer is refused: the open one stands as it did.
Refuse ==
    /\ phase = "open"
    /\ made' = made + 1
    /\ UNCHANGED <<phase, standing, granted, seen>>

Grant ==
    /\ phase = "open" /\ standing # 0 /\ ~granted
    /\ granted' = TRUE
    /\ UNCHANGED <<phase, made, standing, seen>>

See ==
    /\ phase = "open" /\ standing # 0 /\ granted
    /\ seen' = TRUE
    /\ UNCHANGED <<phase, made, standing, granted>>

\* The open offer is withdrawn, rejected or has lost its basis.
Drop ==
    /\ phase = "open" /\ standing # 0
    /\ standing' = 0 /\ granted' = FALSE /\ seen' = FALSE
    /\ UNCHANGED <<phase, made>>

Agree ==
    /\ phase = "open" /\ standing # 0 /\ granted /\ seen
    /\ phase' = "agreed"
    /\ UNCHANGED <<made, standing, granted, seen>>

Close ==
    /\ phase = "open"
    /\ phase' = "closed"
    /\ standing' = 0 /\ granted' = FALSE /\ seen' = FALSE
    /\ UNCHANGED made

Next ==
    \/ \E o \in {made + 1, made + 2} : Propose(o)
    \/ Refuse \/ Grant \/ See \/ Drop \/ Agree \/ Close

Spec == Init /\ [][Next]_vars
================================================================================
