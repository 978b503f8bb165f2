----------------------------- MODULE TurnProtocol -----------------------------
(***************************************************************************)
(* What the Graph runtime promises about one negotiation session, with no  *)
(* mention of workers, leases, locks, checkpoints or notifications.        *)
(*                                                                         *)
(* Buyer inputs are accepted in order.  For the oldest unresolved input    *)
(* the business action is committed at most once, then exactly one public  *)
(* reply appears that says truthfully whether an action was committed, and *)
(* only then does the input cursor move on.                                *)
(***************************************************************************)
EXTENDS Naturals, Sequences

CONSTANT MaxInputs            \* bound on the inputs one session receives

VARIABLES
    accepted,    \* how many inputs the API has accepted
    committed,   \* the inputs whose business action is committed
    replies,     \* the public replies, in publication order
    cursor       \* how many inputs are resolved

vars == <<accepted, committed, replies, cursor>>

Outcome == {"ACTION", "NOACTION"}

\* Inputs are numbered, replies say what became of one.
TypeOK ==
    /\ accepted \in 0..MaxInputs
    /\ committed \subseteq 1..MaxInputs
    /\ replies \in Seq(Outcome)
    /\ cursor \in 0..MaxInputs

Init ==
    /\ accepted = 0
    /\ committed = {}
    /\ replies = <<>>
    /\ cursor = 0

Accept ==
    /\ accepted < MaxInputs
    /\ accepted' = accepted + 1
    /\ UNCHANGED <<committed, replies, cursor>>

\* The head of the queue, still unanswered.
Open == cursor < accepted /\ Len(replies) = cursor

Commit ==
    /\ Open
    /\ cursor + 1 \notin committed
    /\ committed' = committed \cup {cursor + 1}
    /\ UNCHANGED <<accepted, replies, cursor>>

Reply ==
    /\ Open
    /\ replies' = Append(replies, IF cursor + 1 \in committed THEN "ACTION" ELSE "NOACTION")
    /\ UNCHANGED <<accepted, committed, cursor>>

Resolve ==
    /\ Len(replies) = cursor + 1
    /\ cursor' = cursor + 1
    /\ UNCHANGED <<accepted, committed, replies>>

Next == Accept \/ Commit \/ Reply \/ Resolve

Spec == Init /\ [][Next]_vars
===============================================================================
