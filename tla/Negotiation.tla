------------------------------ MODULE Negotiation ------------------------------
(* One negotiation session: what each transaction on it does to the session,    *)
(* its offers and their approvals.  The buyer's inputs are handled one at a     *)
(* time by the graph (module GraphRuntime); meanwhile the seller reviews        *)
(* approvals and edits policy, product and facts, the approval graph applies    *)
(* decisions, the worker's lifecycle loop drops what has lost its basis, replies *)
(* and notices are published, the buyer's client shows them, and time passes.   *)
(* Each action is one transaction under the session's row lock.                 *)
(*                                                                              *)
(* What the properties do not tell apart is left out.  Terms are named by the   *)
(* seller's net income, so equal terms are equal nets; of a chat it is the net  *)
(* that the commit's own quote will find.  A pending approval has               *)
(* one effect_revision only, so the seller's expected revision is its status.   *)
(* A display context also ends with time: whatever needs one (Display, Confirm, *)
(* a command planned from a receipt) is a choice that nothing forces, and the   *)
(* turn may always end NOT_EXECUTED.  A refreshed context names the same offer  *)
(* and version as the old one, so refreshing changes nothing here.  Questions,  *)
(* drafts and the texts of replies are not part of this module.                 *)
EXTENDS Integers, Sequences

CONSTANTS
    Nets,         \* the terms a buyer may propose, named by the seller's net income
    Counters,     \* the terms of counter-offers (typed inputs only)
    Policies,     \* records [minimum, auto, rounds] a seller may set
    FirstPolicy,
    Products,     \* records [open, text]: on sale, and a version of its text
    MaxPolicies,  \* bound: versions of the policy
    MaxFacts,     \* bound: versions of the facts and cost rules the offers rest on
    Typed         \* the session runs graph negotiation-v1: inputs carry commands

\* A session is created for a product on sale.
OnSale == [open |-> TRUE, text |-> 1]

\* PricingPolicy refuses an automatic threshold below the minimum.
ASSUME ConstantsAssumption ==
    /\ Nets \subseteq Nat \ {0} /\ Counters \subseteq Nat \ {0}
    /\ Policies \subseteq [minimum : Nat, auto : Nat, rounds : Nat \ {0}]
    /\ \A p \in Policies : p.minimum <= p.auto
    /\ FirstPolicy \in Policies
    /\ Products \subseteq [open : BOOLEAN, text : Nat] /\ OnSale \in Products
    /\ MaxPolicies \in Nat \ {0} /\ MaxFacts \in Nat \ {0}
    /\ Typed \in BOOLEAN
    /\ ~Typed => Counters = {}

VARIABLES
    session,    \* row of negotiation_sessions
    offers,     \* rows of offers, with their evidence and semantic basis
    approvals,  \* approvals[o]: row of approval_requests for offer o
    policies,   \* the versions of the seller's policy, the last one in force
    product,    \* row of products: on sale, and its text (title, price, ...)
    facts,      \* version of facts and rules; whether they still meet the conditions
    turn,       \* the input being handled, or the reply owed for it
    notices,    \* unpublished notices of applied approvals
    contexts,   \* display contexts of published cards: offer and version
    acks        \* contexts the client has shown

books == <<session, offers, approvals>>
basis == <<policies, product, facts>>
cards == <<notices, contexts, acks>>
vars == <<books, basis, turn, cards>>

OpenStatus == {"PROPOSED", "ACCEPTED"}
Ended == {"AGREED", "CLOSED"}

NoApproval == [status |-> "NONE", effect |-> "NOT_APPLIED", late |-> FALSE, timely |-> FALSE]
NewApproval == [NoApproval EXCEPT !.status = "PENDING"]
NoReceipt == [offer |-> 0, version |-> 0]
Idle == [stage |-> "idle"]

Policy == policies[Len(policies)]

\* The price zone of a net income: evaluate_offer.
Zone(net, policy) ==
    IF net >= policy.auto THEN "AUTO" ELSE IF net >= policy.minimum THEN "ASK" ELSE "LOW"

-------------------------------------------------------------------------------
(* The book: what a transaction reads and writes.                               *)

Book == [session |-> session, offers |-> offers, approvals |-> approvals]

Store(b) ==
    /\ session' = b.session /\ offers' = b.offers /\ approvals' = b.approvals

Bump(b) == [b EXCEPT !.session.version = b.session.version + 1]

\* Mutant: the terms are judged anew, but the policy's version is not compared.
BasisAnyPolicy(b, o) ==
    LET x == b.offers[o] IN
    /\ b.session.current = o /\ b.session.status \notin Ended
    /\ product.open /\ x.status \in OpenStatus /\ ~x.lapsed
    /\ Typed \/ (facts.ok /\ x.facts = facts.version)
    /\ Zone(x.net, Policy) = "AUTO" \/ (Zone(x.net, Policy) = "ASK" /\ b.approvals[o].status # "NONE")
    /\ x.text = product.text

\* The offer is current and every fact it was judged by still holds.
BasisValid(b, o) ==
    LET x == b.offers[o] IN
    /\ b.session.current = o
    /\ b.session.status \notin Ended
    /\ product.open
    /\ x.status \in OpenStatus /\ ~x.lapsed
    /\ Typed \/ (facts.ok /\ x.facts = facts.version)
    /\ x.by = "AGENT" => Zone(x.net, Policy) = "AUTO"
    /\ (x.status = "ACCEPTED" /\ Zone(x.net, Policy) # "AUTO") => b.approvals[o].status # "NONE"
    /\ Zone(x.net, Policy) # "LOW"
    /\ x.policy = Len(policies)
    /\ x.text = product.text

\* The offer may be confirmed: its basis holds and the seller's side stands by it.
ValidOffer(o) ==
    /\ o # 0
    /\ session.status = "ACTIVE"
    /\ BasisValid(Book, o)
    /\ IF offers[o].by = "AGENT" THEN offers[o].status = "PROPOSED"
       ELSE /\ offers[o].status = "ACCEPTED"
            /\ IF approvals[o].status = "NONE" THEN Zone(offers[o].net, Policy) = "AUTO"
               ELSE /\ approvals[o].status = "APPROVED"
                    /\ approvals[o].effect = "APPLIED"
                    /\ approvals[o].timely

\* Mutant: an approval already decided is cancelled like a pending one.
VoidErasing(as, o, expired) ==
    IF as[o].status = "NONE" \/ as[o].effect = "INVALIDATED" THEN as
    ELSE [as EXCEPT ![o] = [as[o] EXCEPT !.status = IF expired THEN "EXPIRED" ELSE "CANCELLED",
                                         !.effect = "INVALIDATED"]]

\* Mutant: the end is written to the wrong column.
VoidMisplaced(as, o, expired) ==
    IF as[o].status # "PENDING" THEN as ELSE [as EXCEPT ![o].status = "INVALIDATED"]

\* invalidate_approval: a decision is never erased, only its effect.
Void(as, o, expired) ==
    LET a == as[o]
        undecided == IF expired THEN "EXPIRED" ELSE "CANCELLED"
    IN  IF a.status = "NONE" \/ a.effect = "INVALIDATED" THEN as
        ELSE [as EXCEPT ![o] =
                [a EXCEPT !.status = IF a.status = "PENDING" THEN undecided ELSE a.status,
                          !.effect = "INVALIDATED"]]

\* Mutant: the offer dies alone, its approval stays pending.
KillOfferOnly(b, o) ==
    IF o = 0 THEN b
    ELSE IF b.offers[o].status \notin OpenStatus THEN b
    ELSE [b EXCEPT !.session = IF b.session.current # o THEN b.session
                               ELSE [b.session EXCEPT !.current = 0, !.status = "ACTIVE"],
                   !.offers[o].status = IF b.offers[o].by = "BUYER" THEN "WITHDRAWN" ELSE "REJECTED"]

\* invalidate_offer: an open offer dies with its approval and is current no more.
Kill(b, o) ==
    IF o = 0 THEN b
    ELSE IF b.offers[o].status \notin OpenStatus THEN b
    ELSE [session |->
            IF b.session.current # o THEN b.session
            ELSE [b.session EXCEPT !.current = 0,
                    !.status = IF b.session.status = "WAITING_APPROVAL" THEN "ACTIVE"
                               ELSE b.session.status],
          offers |-> [b.offers EXCEPT ![o].status =
                        IF b.offers[o].by = "BUYER" THEN "WITHDRAWN" ELSE "REJECTED"],
          approvals |-> Void(b.approvals, o, FALSE)]

\* reconcile_approval: an approval past its time, or whose offer has lost its
\* basis, is voided with the offer.
Reconciled(b, o) ==
    LET a == b.approvals[o]
        expired == a.status = "PENDING" /\ a.late
        counted == IF b.session.current = o THEN Bump(b) ELSE b
        settled == \/ b.session.status = "AGREED"
                   \/ a.effect = "INVALIDATED"
                   \/ a.status = "REJECTED"
                   \/ ~expired /\ BasisValid(b, o)
    IN  IF settled THEN b
        ELSE Kill([counted EXCEPT !.approvals = Void(counted.approvals, o, expired)], o)

-------------------------------------------------------------------------------
(* The buyer's inputs.                                                          *)

Request(kind, net, counter, target, receipt) ==
    [stage |-> "queued", kind |-> kind, net |-> net, counter |-> counter,
     target |-> target, receipt |-> receipt, drafted |-> 0, expected |-> 0]

GoodReceipts == acks \union {NoReceipt}

\* What a buyer may send.  A chat only hints at a command; a typed input carries
\* it.  Receipts are kept only where they are read.
Wishes ==
    {Request("CLOSE", 0, 0, 0, NoReceipt)} \union
    IF Typed
    THEN {Request("SUBMIT", n, c, 0, NoReceipt) : n \in Nets, c \in Counters \union {0}}
         \union {Request("REPLACE", n, c, o, NoReceipt) :
                    n \in Nets, c \in Counters \union {0}, o \in DOMAIN offers}
         \union {Request("CONFIRM", 0, 0, o, r) : o \in DOMAIN offers, r \in GoodReceipts}
         \union {Request("WITHDRAW", 0, 0, o, NoReceipt) : o \in DOMAIN offers}
    ELSE {Request("OFFER", n, 0, 0, NoReceipt) : n \in Nets}
         \union {Request(k, 0, 0, 0, r) : k \in {"CONFIRM", "WITHDRAW"}, r \in GoodReceipts}

\* The receipt is frozen with the input.
Enqueue ==
    /\ turn.stage = "idle"
    /\ turn' \in Wishes
    /\ UNCHANGED <<books, basis, cards>>

\* frozen_context: the receipt still counts when it is used.
Frozen(t) == t.receipt.version = session.version

\* plan_turn turns the chat into a command, or into none if it is unclear.
Command(t) ==
    CASE t.kind = "OFFER" /\ facts.ok ->
            IF session.current = 0 THEN <<"SUBMIT", 0>> ELSE <<"REPLACE", session.current>>
      [] t.kind = "CONFIRM" /\ Frozen(t) -> <<"CONFIRM", t.receipt.offer>>
      [] /\ t.kind = "WITHDRAW" /\ session.current # 0
         /\ t.receipt = NoReceipt \/ (Frozen(t) /\ t.receipt.offer = session.current) ->
            <<"WITHDRAW", session.current>>
      [] t.kind = "CLOSE" -> <<"CLOSE", 0>>
      [] OTHER -> <<"QUERY", 0>>

Plan ==
    /\ turn.stage = "queued" /\ ~Typed
    /\ \E c \in {Command(turn), <<"QUERY", 0>>} :
          turn' = [Request(c[1], IF c[1] = "QUERY" THEN 0 ELSE turn.net, 0, c[2],
                           IF c[1] = "CONFIRM" THEN turn.receipt ELSE NoReceipt)
                     EXCEPT !.stage = "planned",
                            !.drafted = IF turn.kind = "OFFER" THEN session.version ELSE 0]
    /\ UNCHANGED <<books, basis, cards>>

\* The stage ends with a transaction of its own that reads the version the
\* commit will expect; a crash before the checkpoint reads it again.
ReadVersion ==
    /\ turn.stage \in {IF Typed THEN "queued" ELSE "planned", "ready"}
    /\ turn' = [turn EXCEPT !.stage = "ready", !.expected = session.version]
    /\ UNCHANGED <<books, basis, cards>>

\* The reply obligation a commit leaves behind.
Owed(outcome, o, b) ==
    [stage |-> "reply", outcome |-> outcome, offer |-> o, version |-> b.session.version]

\* A command runs only on the version it expects and while the session is open.
MayCommit(kinds) ==
    /\ turn.stage = "ready" /\ turn.kind \in kinds
    /\ session.version = turn.expected
    /\ session.status \notin Ended

\* new_offer_in_transaction
NewOffer(by, net, status) ==
    [by |-> by, net |-> net, status |-> status, policy |-> Len(policies),
     text |-> product.text, facts |-> facts.version, lapsed |-> FALSE]

Entered(b, offer, approval) ==
    [b EXCEPT !.offers = Append(b.offers, offer), !.approvals = Append(b.approvals, approval)]

\* The checks of a proposal before anything is written.
ProposalFits ==
    /\ MayCommit({"SUBMIT", "REPLACE"})
    /\ ~Typed => turn.drafted = session.version /\ facts.ok
    /\ product.open
    /\ turn.kind = "REPLACE" => turn.target = session.current

\* The buyer repeats the open offer on an unchanged basis.
Repeated ==
    /\ session.current # 0
    /\ LET x == offers[session.current] IN
       /\ x.by = "BUYER" /\ x.status \in OpenStatus /\ ~x.lapsed
       /\ x.net = turn.net
       /\ x.policy = Len(policies) /\ x.text = product.text
       /\ Typed \/ (facts.ok /\ x.facts = facts.version)

Repeat ==
    /\ ProposalFits /\ Repeated
    /\ turn' = Owed(IF offers[session.current].status = "ACCEPTED" THEN "OFFER_ACCEPTED"
                    ELSE "WAITING_APPROVAL", session.current, Book)
    /\ UNCHANGED <<books, basis, cards>>

\* A new proposal counts a round.
ProposalCounts ==
    /\ ProposalFits /\ ~Repeated
    /\ session.rounds < Policy.rounds
    /\ turn.counter # 0 => Zone(turn.counter, Policy) = "AUTO"

Counted(b) == [Bump(b) EXCEPT !.session.rounds = b.session.rounds + 1]

\* Too low and no counter: refused, and the open offer is left alone.
Reject ==
    /\ ProposalCounts /\ Zone(turn.net, Policy) = "LOW" /\ turn.counter = 0
    /\ LET b == Entered(Counted(Book), NewOffer("BUYER", turn.net, "REJECTED"), NoApproval)
       IN  /\ Store(b)
           /\ turn' = Owed("OFFER_REJECTED", Len(b.offers), b)
    /\ UNCHANGED <<basis, cards>>

\* Mutant: the new offer only takes the open one's place.
ReplacedUnclosed == Counted(Book)

\* The open offer is replaced by a new one.
Replaced == Counted(Kill(Book, session.current))

Accept ==
    /\ ProposalCounts /\ Zone(turn.net, Policy) = "AUTO"
    /\ LET b == Entered(Replaced, NewOffer("BUYER", turn.net, "ACCEPTED"), NoApproval)
           o == Len(b.offers)
       IN  /\ Store([b EXCEPT !.session.current = o])
           /\ turn' = Owed("OFFER_ACCEPTED", o, b)
    /\ UNCHANGED <<basis, cards>>

AskSeller ==
    /\ ProposalCounts /\ Zone(turn.net, Policy) = "ASK"
    /\ LET b == Entered(Replaced, NewOffer("BUYER", turn.net, "PROPOSED"), NewApproval)
           o == Len(b.offers)
       IN  /\ Store([b EXCEPT !.session.current = o, !.session.status = "WAITING_APPROVAL"])
           /\ turn' = Owed("WAITING_APPROVAL", o, b)
    /\ UNCHANGED <<basis, cards>>

Counter ==
    /\ ProposalCounts /\ Zone(turn.net, Policy) = "LOW" /\ turn.counter # 0
    /\ LET refused == Entered(Replaced, NewOffer("BUYER", turn.net, "REJECTED"), NoApproval)
           b == Entered(refused, NewOffer("AGENT", turn.counter, "PROPOSED"), NoApproval)
           o == Len(b.offers)
       IN  /\ Store([b EXCEPT !.session.current = o])
           /\ turn' = Owed("COUNTER_OFFERED", o, b)
    /\ UNCHANGED <<basis, cards>>

\* The receipt was shown before the input came, and is of this offer and version.
Receipted(o) ==
    turn.receipt = [offer |-> o, version |-> session.version]

Confirm ==
    /\ MayCommit({"CONFIRM"})
    /\ ValidOffer(turn.target) /\ Receipted(turn.target)
    /\ LET b == Bump([Book EXCEPT !.session.status = "AGREED",
                                  !.offers[turn.target].status = "ACCEPTED"])
       IN  Store(b) /\ turn' = Owed("INTENT_CONFIRMED", turn.target, b)
    /\ UNCHANGED <<basis, cards>>

Withdraw ==
    /\ MayCommit({"WITHDRAW"})
    /\ session.current # 0 /\ turn.target = session.current
    /\ offers[turn.target].by = "BUYER" /\ offers[turn.target].status \in OpenStatus
    /\ LET b == Bump(Kill(Book, turn.target))
       IN  /\ Store([b EXCEPT !.session.current = 0, !.session.status = "ACTIVE"])
           /\ turn' = Owed("OFFER_WITHDRAWN", turn.target, b)
    /\ UNCHANGED <<basis, cards>>

Close ==
    /\ MayCommit({"CLOSE"})
    /\ LET b == Bump(Kill(Book, session.current))
       IN  /\ Store([b EXCEPT !.session.current = 0, !.session.status = "CLOSED"])
           /\ turn' = Owed("SESSION_CLOSED", session.current, b)
    /\ UNCHANGED <<basis, cards>>

\* abort_or_query: a question, a conflict, an exhausted budget or the seller's
\* termination of the turn ends it without any change.
NotExecuted ==
    /\ turn.stage \notin {"idle", "reply"}
    /\ turn' = Owed("NOT_EXECUTED", 0, Book)
    /\ UNCHANGED <<books, basis, cards>>

-------------------------------------------------------------------------------
(* Publication and display.                                                     *)

\* A card can be confirmed only if nothing happened since its result.
Confirmable(outcome, o, version) ==
    /\ outcome \in {"OFFER_ACCEPTED", "COUNTER_OFFERED"}
    /\ version = session.version
    /\ ValidOffer(o)

Published(outcome, o, version) ==
    contexts' = contexts \union
        (IF Confirmable(outcome, o, version) THEN {[offer |-> o, version |-> session.version]} ELSE {})

PublishReply ==
    /\ turn.stage = "reply"
    /\ Published(turn.outcome, turn.offer, turn.version)
    /\ turn' = Idle
    /\ UNCHANGED <<books, basis, notices, acks>>

PublishNotice ==
    /\ \E n \in notices :
          /\ Published("OFFER_ACCEPTED", n.offer, n.version)
          /\ notices' = notices \ {n}
    /\ UNCHANGED <<books, basis, turn, acks>>

\* check_object: the object of a context is still what it was.
CheckObject(c) == c.version = session.version /\ ValidOffer(c.offer)

Display ==
    /\ \E c \in contexts : CheckObject(c) /\ acks' = acks \union {c}
    /\ UNCHANGED <<books, basis, turn, notices, contexts>>

-------------------------------------------------------------------------------
(* The seller and the approval graph.                                           *)

\* review: a decision is taken on a pending approval whose basis still holds.
Review(o, approve) ==
    /\ approvals[o].status = "PENDING"
    /\ LET b == Reconciled(Book, o)
           a == b.approvals[o]
           decided == [a EXCEPT !.status = IF approve THEN "APPROVED" ELSE "REJECTED",
                                !.effect = IF approve THEN "NOT_APPLIED" ELSE "APPLIED",
                                !.timely = ~a.late]
           recorded == [b EXCEPT !.approvals[o] = decided]
           rejected == [recorded EXCEPT !.offers[o].status = "REJECTED"]
           cleared == [Bump(rejected) EXCEPT !.session.current = 0,
                                             !.session.status = "ACTIVE"]
       IN  Store(IF a.effect = "INVALIDATED" THEN b
                 ELSE IF approve THEN recorded
                 ELSE IF b.session.current = o THEN cleared ELSE rejected)
    /\ UNCHANGED <<basis, turn, cards>>

\* Mutant: the decision takes effect on whatever has become of offer and session.
ApplyUnreconciled(o) ==
    /\ approvals[o].status = "APPROVED" /\ approvals[o].effect # "APPLIED"
    /\ LET applied == Bump([Book EXCEPT !.offers[o].status = "ACCEPTED",
                                        !.session.status = "ACTIVE",
                                        !.approvals[o].effect = "APPLIED"])
       IN  /\ Store(applied)
           /\ notices' = notices \union {[offer |-> o, version |-> applied.session.version]}
    /\ UNCHANGED <<basis, turn, contexts, acks>>

\* apply: the terminal event of the approval takes effect, once.
Apply(o) ==
    /\ approvals[o].status \notin {"NONE", "PENDING"}
    /\ LET b == Reconciled(Book, o)
           a == b.approvals[o]
           due == a.status = "APPROVED" /\ a.effect = "NOT_APPLIED"
           applied == Bump([b EXCEPT !.offers[o].status = "ACCEPTED",
                                     !.session.status = "ACTIVE",
                                     !.approvals[o].effect = "APPLIED"])
       IN  /\ due => a.timely
           /\ Store(IF due THEN applied ELSE b)
           /\ notices' = notices \union
                (IF due THEN {[offer |-> o, version |-> applied.session.version]} ELSE {})
    /\ UNCHANGED <<basis, turn, contexts, acks>>

\* The approval runner reconciles before it runs the graph.
Reconcile(o) ==
    /\ approvals[o].status # "NONE"
    /\ Store(Reconciled(Book, o))
    /\ UNCHANGED <<basis, turn, cards>>

\* Mutant: the version is not counted up with the lost offer.
LifecycleUncounted ==
    /\ session.current # 0 /\ session.status \notin Ended
    /\ ~BasisValid(Book, session.current) /\ Store(Kill(Book, session.current))
    /\ UNCHANGED <<basis, turn, cards>>

\* Mutant: sessions that wait for an approval are not looked at.
LifecycleOfActive ==
    /\ session.current # 0 /\ session.status = "ACTIVE"
    /\ ~BasisValid(Book, session.current) /\ Store(Kill(Bump(Book), session.current))
    /\ UNCHANGED <<basis, turn, cards>>

\* Mutant: only offers under an approval are looked at.
LifecycleOfApprovals ==
    /\ session.current # 0 /\ session.status \notin Ended
    /\ approvals[session.current].status # "NONE"
    /\ Store(Reconciled(Book, session.current))
    /\ UNCHANGED <<basis, turn, cards>>

\* reconcile_offer, from the worker's lifecycle loop.
Lifecycle ==
    /\ session.current # 0 /\ session.status \notin Ended
    /\ IF approvals[session.current].status # "NONE"
       THEN Store(Reconciled(Book, session.current))
       ELSE ~BasisValid(Book, session.current) /\ Store(Kill(Bump(Book), session.current))
    /\ UNCHANGED <<basis, turn, cards>>

UpdatePolicy ==
    /\ Len(policies) < MaxPolicies
    /\ \E p \in Policies : policies' = Append(policies, p)
    /\ UNCHANGED <<books, product, facts, turn, cards>>

UpdateProduct ==
    /\ product' \in Products
    /\ UNCHANGED <<books, policies, facts, turn, cards>>

\* set_fact and set_rule, or the end of a cost rule.
UpdateFacts ==
    /\ ~Typed /\ facts.version < MaxFacts
    /\ \E ok \in BOOLEAN : facts' = [version |-> facts.version + 1, ok |-> ok]
    /\ UNCHANGED <<books, policies, product, turn, cards>>

-------------------------------------------------------------------------------
(* Time.                                                                        *)

\* The open offer ends, and its approval no later; or only the cost quote that a
\* semantic offer rests on.  Time changes nothing for offers no longer open.
OfferLapses ==
    LET o == session.current IN
    /\ o # 0 /\ ~offers[o].lapsed
    /\ offers' = [offers EXCEPT ![o].lapsed = TRUE]
    /\ \E quoteOnly \in IF Typed THEN {FALSE} ELSE BOOLEAN :
          approvals' = [approvals EXCEPT ![o].late =
                          approvals[o].status = "PENDING" /\ (approvals[o].late \/ ~quoteOnly)]
    /\ UNCHANGED <<session, basis, turn, cards>>

ApprovalLapses(o) ==
    /\ approvals[o].status = "PENDING" /\ ~approvals[o].late
    /\ approvals' = [approvals EXCEPT ![o].late = TRUE]
    /\ UNCHANGED <<session, offers, basis, turn, cards>>

-------------------------------------------------------------------------------
Init ==
    /\ session = [status |-> "ACTIVE", current |-> 0, version |-> 1, rounds |-> 0]
    /\ offers = <<>> /\ approvals = <<>>
    /\ policies = <<FirstPolicy>>
    /\ product = OnSale
    /\ facts = [version |-> 1, ok |-> TRUE]
    /\ turn = Idle /\ notices = {} /\ contexts = {} /\ acks = {}

Buyer ==
    \/ Enqueue \/ Plan \/ ReadVersion
    \/ Repeat \/ Reject \/ Accept \/ AskSeller \/ Counter
    \/ Confirm \/ Withdraw \/ Close \/ NotExecuted
    \/ PublishReply \/ PublishNotice \/ Display

Seller == UpdatePolicy \/ UpdateProduct \/ UpdateFacts

Approval(o) ==
    \/ \E approve \in BOOLEAN : Review(o, approve)
    \/ Apply(o) \/ Reconcile(o)

Next ==
    \/ Buyer \/ Seller \/ Lifecycle \/ OfferLapses
    \/ \E o \in DOMAIN offers : Approval(o) \/ ApprovalLapses(o)

Spec == Init /\ [][Next]_vars

\* The clock runs and the worker's lifecycle loop visits every session; nobody
\* has to act, and the approval graph may never run.
FairSpec == Spec /\ WF_vars(OfferLapses) /\ WF_vars(Lifecycle)

-------------------------------------------------------------------------------
(* Properties.                                                                  *)

Receipts == [offer : Nat, version : Nat]
Offers == [by : {"BUYER", "AGENT"}, net : Nets \union Counters,
           status : OpenStatus \union {"REJECTED", "WITHDRAWN"}, policy : 1..MaxPolicies,
           text : Nat, facts : 1..MaxFacts, lapsed : BOOLEAN]
Approvals == [status : {"NONE", "PENDING", "APPROVED", "REJECTED", "CANCELLED", "EXPIRED"},
              effect : {"NOT_APPLIED", "APPLIED", "INVALIDATED"},
              late : BOOLEAN, timely : BOOLEAN]
Turns == {Idle}
    \union [stage : {"queued", "planned", "ready"},
            kind : {"OFFER", "SUBMIT", "REPLACE", "CONFIRM", "WITHDRAW", "CLOSE", "QUERY"},
            net : Nets \union {0}, counter : Counters \union {0}, target : Nat,
            receipt : Receipts, drafted : Nat, expected : Nat]
    \union [stage : {"reply"},
            outcome : {"OFFER_ACCEPTED", "WAITING_APPROVAL", "OFFER_REJECTED", "COUNTER_OFFERED",
                       "INTENT_CONFIRMED", "OFFER_WITHDRAWN", "SESSION_CLOSED", "NOT_EXECUTED"},
            offer : Nat, version : Nat]

\* Rows keep the values their columns and enumerations allow, and every
\* reference is to an offer that exists.
TypeOK ==
    /\ session \in [status : {"ACTIVE", "WAITING_APPROVAL"} \union Ended,
                    current : 0..Len(offers), version : Nat, rounds : Nat]
    /\ offers \in Seq(Offers) /\ approvals \in Seq(Approvals)
    /\ Len(approvals) = Len(offers)
    /\ policies \in Seq(Policies) /\ Len(policies) \in 1..MaxPolicies
    /\ product \in Products
    /\ facts \in [version : 1..MaxFacts, ok : BOOLEAN]
    /\ turn \in Turns
    /\ notices \subseteq [offer : 1..Len(offers), version : Nat]
    /\ contexts \subseteq [offer : 1..Len(offers), version : Nat] /\ acks \subseteq contexts

\* An offer is open exactly while it is the session's current one, whatever
\* combination of replacing, rejecting, voiding, withdrawing and closing came
\* before: no second offer can ever be accepted or confirmed.
OneOpenOffer ==
    \A o \in DOMAIN offers : offers[o].status \in OpenStatus <=> session.current = o

\* The session waits exactly for the seller's decision on its current offer, or
\* for that decision to take effect; no other approval is left undecided or
\* unapplied, so none can take effect later behind a newer offer.
WaitingIsOnApproval ==
    LET Awaited(o) == approvals[o].status # "NONE" /\ approvals[o].effect = "NOT_APPLIED" IN
    /\ \A o \in DOMAIN offers : Awaited(o) =>
          /\ session.current = o /\ session.status = "WAITING_APPROVAL"
          /\ approvals[o].status \in {"PENDING", "APPROVED"}
          /\ offers[o].status = "PROPOSED" /\ offers[o].by = "BUYER"
    /\ session.status = "WAITING_APPROVAL" => session.current # 0 /\ Awaited(session.current)

\* A display context of the present version shows the current offer: the version
\* check that display, plan_turn and confirm share can never let a receipt of
\* one offer stand for another.
VersionNamesOffer ==
    \A c \in contexts : c.version = session.version => c.offer = session.current

\* At the moment of agreement the seller's authority is that of the policy in
\* force: the terms reach its automatic threshold, or the seller approved this
\* offer in time, under this very policy, and the approval was applied.  Policy
\* edits and expiry may come anywhere between offer, display and confirmation.
AgreedIsAuthorized ==
    [][session.status # "AGREED" /\ session'.status = "AGREED" =>
          LET o == session.current IN
          /\ o # 0 /\ product.open /\ ~offers[o].lapsed
          /\ \/ Zone(offers[o].net, Policy) = "AUTO"
             \/ /\ approvals[o].status = "APPROVED" /\ approvals[o].effect = "APPLIED"
                /\ approvals[o].timely /\ offers[o].policy = Len(policies)]_vars

\* The seller's decision and the end of an approval are never rewritten: not by
\* expiry, replacement, a late event or the end of the session.
DecisionsStand ==
    [][\A o \in DOMAIN approvals :
          /\ approvals[o].status # "PENDING" => approvals'[o].status = approvals[o].status
          /\ approvals[o].effect = "INVALIDATED" => approvals'[o].effect = "INVALIDATED"
          /\ approvals[o].effect = "APPLIED" => approvals'[o].effect # "NOT_APPLIED"
          /\ approvals[o].status = "REJECTED" => approvals'[o].effect = "APPLIED"]_vars

\* What the parties were promised: offers, authority, display and agreement
\* follow module Agreement, whatever the interleaving.
Agr == INSTANCE Agreement WITH
    phase <- IF session.status = "AGREED" THEN "agreed"
             ELSE IF session.status = "CLOSED" THEN "closed" ELSE "open",
    made <- Len(offers),
    standing <- session.current,
    granted <- session.current # 0
               /\ (offers[session.current].by = "AGENT"
                   \/ offers[session.current].status = "ACCEPTED"),
    seen <- session.current # 0
            /\ \E c \in acks : c.offer = session.current

AgreementIsKept == Agr!Spec

\* A session does not wait for an approval for ever, even if neither seller nor
\* approval graph ever acts: the lifecycle loop voids what is past its time.
WaitingEnds ==
    session.status = "WAITING_APPROVAL" ~> session.status # "WAITING_APPROVAL"

\* An offer that has lost its basis does not stay current: the lifecycle loop
\* drops it unless the basis returns.
StaleOffersFall ==
    []<>(session.current # 0 /\ session.status \notin Ended => BasisValid(Book, session.current))

================================================================================
