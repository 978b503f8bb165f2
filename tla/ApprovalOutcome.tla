----------------------------- MODULE ApprovalOutcome -----------------------------
(* What an approval promises: it is settled at most once for the seller's        *)
(* decision and at most once more when its offer is lost; each settlement is     *)
(* announced to the buyer at most once, and only settlements that happened are.  *)
EXTENDS Naturals

VARIABLES
    decision,   \* "PENDING", "APPROVED", "REJECTED" or "VOID"
    effect,     \* "NOT_APPLIED", "APPLIED" or "INVALIDATED"
    settled,    \* number of settlements so far
    announced   \* the settlements the buyer was told of

vars == <<decision, effect, settled, announced>>

Init ==
    /\ decision = "PENDING" /\ effect = "NOT_APPLIED"
    /\ settled = 0 /\ announced = {}

Approve ==
    /\ decision = "PENDING"
    /\ decision' = "APPROVED"
    /\ UNCHANGED <<effect, settled, announced>>

Reject ==
    /\ decision = "PENDING"
    /\ decision' = "REJECTED" /\ effect' = "APPLIED" /\ settled' = settled + 1
    /\ UNCHANGED announced

\* An approval takes effect once, and only while nothing voided it.
TakeEffect ==
    /\ decision = "APPROVED" /\ effect = "NOT_APPLIED"
    /\ effect' = "APPLIED" /\ settled' = settled + 1
    /\ UNCHANGED <<decision, announced>>

\* The offer is lost: an undecided approval is void, a decision is kept.
Lose ==
    /\ decision # "REJECTED" /\ effect # "INVALIDATED"
    /\ decision' = IF decision = "PENDING" THEN "VOID" ELSE decision
    /\ effect' = "INVALIDATED" /\ settled' = settled + 1
    /\ UNCHANGED announced

Announce ==
    /\ \E n \in 1..settled \ announced : announced' = announced \union {n}
    /\ UNCHANGED <<decision, effect, settled>>

Next == Approve \/ Reject \/ TakeEffect \/ Lose \/ Announce

Spec == Init /\ [][Next]_vars
================================================================================
