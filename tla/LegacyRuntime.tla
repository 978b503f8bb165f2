--------------------------- MODULE LegacyRuntime ---------------------------
(***************************************************************************)
(* The runtime of sessions without a graph version: one negotiation, its   *)
(* buyer messages, offers and approvals, its confirmation and end, and the *)
(* persistent model tasks                                                  *)
(* that answer a message or announce a seller's decision.  A task is       *)
(* created with the business facts in one transaction, leased by a caller  *)
(* or a worker, the model is called outside any transaction, and one       *)
(* transaction checks lease and freshness before it writes the result.     *)
(* Processes die, leases end under slow callers, the seller edits product  *)
(* and rules, retries and terminates tasks.                                *)
(* Bounds: one message per member of Req, MaxRounds, MaxAttempts leases of *)
(* a task, MaxManual manual retries, MaxEdits edits of product or rules,   *)
(* MaxFaults deaths of a process or leases that end under one.             *)
(***************************************************************************)
EXTENDS Naturals, Sequences, FiniteSets

CONSTANTS Req,          \* request ids of the buyer's messages
          Proc,         \* processes that execute tasks
          Price,        \* prices an offer may name
          MaxRounds, MaxAttempts, MaxManual, MaxEdits, MaxFaults

ASSUME LegacyAssumption ==
    /\ Price \subseteq Nat \ {0}
    /\ {MaxRounds, MaxAttempts, MaxManual, MaxEdits, MaxFaults} \subseteq Nat
    /\ Req \cap Nat = {}         \* a request and an approval never share a key

VARIABLES product,      \* rules and public facts: [policy, onSale, facts]
          deal,         \* the session's row with its offers and approvals
          asked,        \* request -> price of the buyer's message (0: text only)
          tasks,        \* task key -> model task
          replies,      \* request or approval -> number of agent messages under its key
          proc,         \* process -> the execution it is in
          manual, edits, faults \* counters of the bounds
vars == <<product, deal, asked, tasks, replies, proc, manual, edits, faults>>

----------------------------------------------------------------------------
Approvals == 1..MaxRounds
Key == Req \cup Approvals
Active == {"PENDING", "RUNNING", "RETRY_WAIT"}
Settled == {"SUCCEEDED", "STALE", "CANCELLED"}

(* The rule of policy version v: net price v is the minimum, v + 1 is      *)
(* accepted automatically.  Conditions the system cannot verify are priced *)
(* below every minimum.                                                    *)
Zone(price, v) ==
    IF price > v THEN "AUTO" ELSE IF price = v THEN "APPROVAL" ELSE "PROHIBITED"

NoTask == [status |-> "none", attempts |-> 0, limit |-> 0, lapsed |-> FALSE,
           due |-> FALSE, version |-> 0, policy |-> 0, offer |-> 0, input |-> <<>>]
Idle == [at |-> "idle", key |-> 0, token |-> 0]

Init ==
    /\ product = [policy |-> 2, onSale |-> TRUE, facts |-> 1]
    /\ deal = [status |-> "ACTIVE", version |-> 1, rounds |-> 0, current |-> 0,
               offers |-> <<>>, approvals |-> <<>>]
    /\ asked = [r \in Req |-> "none"]
    /\ tasks = [k \in Key |-> NoTask]
    /\ replies = [k \in Key |-> 0]
    /\ proc = [p \in Proc |-> Idle]
    /\ manual = 0 /\ edits = 0 /\ faults = 0

----------------------------------------------------------------------------
(* What the business services do to the locked session.                    *)

Restore(d) ==
    IF d.status = "WAITING" THEN [d EXCEPT !.status = "ACTIVE", !.version = @ + 1] ELSE d

PendingOf(d) == {a \in DOMAIN d.approvals : d.approvals[a].status = "PENDING"}

(* Cancelled, expired or in conflict when reviewed: the approval is void.    *)
Close(d, a) == Restore([d EXCEPT !.approvals[a].status = "VOID"])

(* A new formal offer makes way for itself: the waiting approval falls.     *)
CancelPending(d) ==
    IF d.status # "WAITING" THEN d
    ELSE LET a == CHOOSE b \in PendingOf(d) : TRUE
         IN  Close(d, a)

(* The current offer, still open, is withdrawn by its own side and refused  *)
(* by the other one.                                                       *)
Supersede(d, by) ==
    IF d.current # 0 /\ d.offers[d.current].status = "PROPOSED"
    THEN [d EXCEPT !.offers[d.current].status =
                        IF d.offers[d.current].by = by THEN "WITHDRAWN" ELSE "REJECTED"]
    ELSE d

AddOffer(d, by, price) ==
    LET s == Supersede(d, by)
    IN  [s EXCEPT !.offers = Append(@, [by |-> by, price |-> price, status |-> "PROPOSED"]),
                  !.current = Len(s.offers) + 1, !.version = @ + 1]

RecordBuyerOffer(d, price) == [AddOffer(d, "BUYER", price) EXCEPT !.rounds = @ + 1]

Negotiable(d) == d.status = "ACTIVE" /\ product.onSale

AcceptOffer(d) ==
    [d EXCEPT !.offers[d.current].status = "ACCEPTED", !.version = @ + 1]

CreateRequest(d) ==
    [d EXCEPT !.status = "WAITING", !.version = @ + 1,
              !.approvals = Append(@, [offer |-> d.current, policy |-> product.policy,
                                       status |-> "PENDING", followup |-> "none"])]

(* The agent's counter offer, or the refusal of the tool: at the round      *)
(* limit it may only answer the buyer's offer of this turn.                 *)
Counterable(d, price, turnOffer) ==
    /\ Negotiable(d)
    /\ Zone(price, product.policy) = "AUTO"
    /\ \/ d.rounds < MaxRounds
       \/ turnOffer # 0 /\ d.current = turnOffer /\ d.offers[turnOffer].by = "BUYER"
    /\ d.current = 0 \/ d.offers[d.current].status # "ACCEPTED"

(* The tool that asks the seller serves the buyer's offer of this turn only, *)
(* and only while that offer is current.                                   *)
Requestable(d, turnOffer) == turnOffer # 0 /\ d.current = turnOffer

(* The agent's tools.  What a tool refuses leaves the book as it was.       *)
Tool(d, name, price, turnOffer) ==
    CASE name = "accept" -> AcceptOffer(d)
      [] name = "approve" /\ Requestable(d, turnOffer) -> CreateRequest(d)
      [] name = "counter" /\ Counterable(d, price, turnOffer) -> AddOffer(d, "AGENT", price)
      [] OTHER -> d

----------------------------------------------------------------------------
(* Model tasks.                                                            *)

(* A task remembers the versions and the offer it was created under.        *)
Captured(t, offer, d) ==
    [t EXCEPT !.version = d.version, !.policy = product.policy, !.offer = offer]

NewTask(offer, input, d) ==
    [Captured(NoTask, offer, d) EXCEPT !.status = "PENDING", !.limit = MaxAttempts,
                                       !.input = input]

(* Mutant: a lease that ended under a dead process is nobody's.             *)
LeasableUnlessRunning(t) == t.status = "PENDING" \/ (t.status = "RETRY_WAIT" /\ t.due)

Leasable(t) ==
    \/ t.status = "PENDING"
    \/ t.status = "RETRY_WAIT" /\ t.due
    \/ t.status = "RUNNING" /\ t.lapsed

(* Every lease draws a new token; the number of the attempt stands for it.  *)
Leased(t) == [t EXCEPT !.status = "RUNNING", !.attempts = @ + 1,
                       !.lapsed = FALSE, !.due = FALSE]
Reopened(t) == [t EXCEPT !.status = "PENDING", !.limit = @ + 1]
Left(t, status) == [t EXCEPT !.status = status, !.lapsed = FALSE, !.due = FALSE]
Succeeded(t) == Left(t, "SUCCEEDED")
Deferred(t) == Left(t, "RETRY_WAIT")
Failed(t) == Left(t, "FAILED")
Outdated(t) == Left(t, "STALE")
Cancelled(t) == Left(t, "CANCELLED")

(* Mutant: any token of the task is taken for the lease.                    *)
HoldsAnyLease(p) == proc[p].token <= tasks[proc[p].key].attempts

HoldsLease(p) ==
    LET t == tasks[proc[p].key]
    IN  t.status = "RUNNING" /\ t.attempts = proc[p].token /\ ~t.lapsed

Holding(k, t) == [Idle EXCEPT !.at = "leased", !.key = k, !.token = t.attempts]

(* A failed task hands its approval to the seller, unless it was announced. *)
HandOver(d, k) ==
    IF k \in Req \/ d.approvals[k].followup = "SENT" THEN d
    ELSE [d EXCEPT !.approvals[k].followup = "MANUAL_REQUIRED"]

----------------------------------------------------------------------------
(* The buyer sends a message, with a formal offer when price # 0.  What the *)
(* rules decide is answered in the same transaction; the rest becomes a     *)
(* task bound to the versions read here.                                    *)
Answerable(r) ==
    /\ asked[r] = "none" /\ deal.status \notin {"AGREED", "CLOSED"}
    /\ \A s \in Req : tasks[s].status \notin Active

Reply(k) == [replies EXCEPT ![k] = @ + 1]

Store(r, d) ==
    /\ deal' = d
    /\ replies' = Reply(r)
    /\ UNCHANGED tasks

(* What the model will be shown of the product.                             *)
TurnInput == <<product.facts, product.onSale>>

Defer(r, d) ==
    /\ deal' = d
    /\ tasks' = [tasks EXCEPT ![r] = NewTask(d.current, TurnInput, d)]
    /\ UNCHANGED replies

SendText(r) ==
    /\ Answerable(r)
    /\ asked' = [asked EXCEPT ![r] = "text"]
    /\ Defer(r, deal)
    /\ UNCHANGED <<product, proc, manual, edits, faults>>

SendOffer(r, price) ==
    /\ Answerable(r)
    /\ deal.status = "WAITING" => PendingOf(deal) # {}
    /\ product.onSale /\ deal.rounds < MaxRounds
    /\ LET d == RecordBuyerOffer(CancelPending(deal), price)
           zone == Zone(price, product.policy)
       IN  /\ asked' = [asked EXCEPT ![r] = "offer"]
           /\ \/ zone = "AUTO" /\ Store(r, Tool(d, "accept", 0, d.current))
              \/ zone = "APPROVAL" /\ Store(r, Tool(d, "approve", 0, d.current))
              \/ zone = "PROHIBITED" /\ Defer(r, d)
    /\ UNCHANGED <<product, proc, manual, edits, faults>>

----------------------------------------------------------------------------
(* The worker leases a task; one whose attempts are used up fails instead.  *)
Lease(p, k) ==
    /\ k \in Req /\ proc[p].at = "idle" /\ Leasable(tasks[k])
    /\ IF tasks[k].attempts >= tasks[k].limit
       THEN /\ tasks' = [tasks EXCEPT ![k] = Failed(@)]
            /\ UNCHANGED proc
       ELSE /\ tasks' = [tasks EXCEPT ![k] = Leased(@)]
            /\ proc' = [proc EXCEPT ![p] = Holding(k, Leased(tasks[k]))]
    /\ UNCHANGED <<product, deal, asked, replies, manual, edits, faults>>

(* The caller that sent the message, or repeats it, does so while no answer *)
(* is stored.                                                               *)
Resume(p, k) == k \in Req /\ replies[k] = 0 /\ Lease(p, k)

(* Under the lease, a reply is found stored for the message of the task.    *)
AlreadyAnswered(p) == HoldsLease(p) /\ replies[proc[p].key] > 0

(* Before the model is called: the lease must hold, and an answer that is   *)
(* already stored ends the task.                                            *)
Reconcile(p) ==
    /\ proc[p].at = "leased" /\ proc[p].key \in Req
    /\ tasks' = [tasks EXCEPT ![proc[p].key] = IF AlreadyAnswered(p) THEN Cancelled(@) ELSE @]
    /\ proc' = [proc EXCEPT ![p] = IF HoldsLease(p) /\ ~AlreadyAnswered(p)
                                   THEN [@ EXCEPT !.at = "calling"] ELSE Idle]
    /\ UNCHANGED <<product, deal, asked, replies, manual, edits, faults>>

(* The plan after a failure: another attempt later, or the seller's desk.   *)
Retryable(act, t) == act # "internal" /\ t.attempts < t.limit
AfterFailure(act, t) == IF Retryable(act, t) THEN Deferred(t) ELSE Failed(t)

FailChat(p) ==
    /\ proc[p].at = "calling" /\ proc[p].key \in Req
    /\ \E act \in {"timeout", "internal"} :
          tasks' = [tasks EXCEPT ![proc[p].key] =
                       IF HoldsLease(p) THEN AfterFailure(act, @) ELSE @]
    /\ proc' = [proc EXCEPT ![p] = Idle]
    /\ UNCHANGED <<product, deal, asked, replies, manual, edits, faults>>

----------------------------------------------------------------------------
(* The answer is applied in one transaction under the lease.                *)

StaleTurn(t) ==
    \/ deal.version # t.version
    \/ product.policy # t.policy
    \/ deal.current # t.offer
    \/ TurnInput # t.input

(* A formal offer of this turn may only be countered or refused.            *)
TurnOffer(k) == IF asked[k] = "offer" THEN tasks[k].offer ELSE 0
Constrained(act, k) == IF TurnOffer(k) # 0 /\ act # "counter" THEN "refuse" ELSE act

ApplyAnswer(k, act, price) ==
    Tool(deal, Constrained(act, k), price, TurnOffer(k))

FinishTurn(p, act, price) ==
    /\ proc[p].at = "calling" /\ proc[p].key \in Req /\ HoldsLease(p)
    /\ proc' = [proc EXCEPT ![p] = Idle]
    /\ LET k == proc[p].key
           stale == StaleTurn(tasks[k])
       IN  /\ deal' = IF stale THEN deal ELSE ApplyAnswer(k, act, price)
           /\ replies' = Reply(k)
           /\ tasks' = [tasks EXCEPT ![k] = IF stale THEN Outdated(@) ELSE Succeeded(@)]
    /\ UNCHANGED <<product, asked, manual, edits, faults>>

(* An answer that comes after the lease is dropped.                         *)
LateAnswer(p) ==
    /\ proc[p].at = "calling" /\ proc[p].key \in Req /\ ~HoldsLease(p)
    /\ proc' = [proc EXCEPT ![p] = Idle]
    /\ UNCHANGED <<product, deal, asked, tasks, replies, manual, edits, faults>>

----------------------------------------------------------------------------
(* The seller decides; a decision whose basis is gone voids the approval.   *)
ReviewConflict(a) ==
    LET p == deal.approvals[a]
    IN  \/ deal.status # "WAITING"
        \/ ~product.onSale
        \/ deal.current # p.offer
        \/ deal.offers[p.offer].status # "PROPOSED"
        \/ product.policy # p.policy

Review(a, decision) ==
    /\ a \in PendingOf(deal)
    /\ LET decided == [deal EXCEPT !.approvals[a].status = decision,
                                   !.approvals[a].followup = "PENDING"]
       IN  deal' = IF ReviewConflict(a) THEN Close(deal, a)
                   ELSE IF decision = "APPROVED" THEN [decided EXCEPT !.version = @ + 1]
                   ELSE Restore([decided EXCEPT !.offers[deal.approvals[a].offer].status
                                                     = "REJECTED"])
    /\ UNCHANGED <<product, asked, tasks, replies, proc, manual, edits, faults>>

(* The buyer cancels a request ...                                            *)
CancelRequest(a) ==
    /\ a \in PendingOf(deal)
    /\ deal' = Close(deal, a)
    /\ UNCHANGED <<product, asked, tasks, replies, proc, manual, edits, faults>>

(* ... or its twenty-four hours are over, and the sweep or the seller's late   *)
(* review finds it so ...                                                    *)
ExpireRequest(a) ==
    /\ a \in PendingOf(deal)
    /\ deal' = Close(deal, a)
    /\ UNCHANGED <<product, asked, tasks, replies, proc, manual, edits, faults>>

VoidPending(d) ==
    [d EXCEPT !.approvals = [a \in DOMAIN d.approvals |->
        IF a \in PendingOf(d) THEN [d.approvals[a] EXCEPT !.status = "VOID"]
        ELSE d.approvals[a]]]

(* ... or his list drops all that are due at once.                            *)
ExpireDueOwned ==
    /\ PendingOf(deal) # {}
    /\ deal' = Restore(VoidPending(deal))
    /\ UNCHANGED <<product, asked, tasks, replies, proc, manual, edits, faults>>

----------------------------------------------------------------------------
(* The buyer's last word (IntentService).  The formal message of an offer    *)
(* is stored in the transaction that makes or accepts it.                    *)
ApprovalsOf(o) == {a \in DOMAIN deal.approvals : deal.approvals[a].offer = o}

(* Mutant: what was accepted once is not authorized again.                   *)
ConfirmableAsAccepted(o) ==
    IF deal.offers[o].by = "AGENT"
    THEN deal.offers[o].status = "PROPOSED" /\ Zone(deal.offers[o].price, product.policy) = "AUTO"
    ELSE deal.offers[o].status = "ACCEPTED"

(* The rules in force authorize the offer again: an agent's that still       *)
(* stands, a buyer's that was accepted by the rules or by an announced       *)
(* approval under the same rules.                                            *)
Confirmable(o) ==
    LET zone == Zone(deal.offers[o].price, product.policy) IN
    IF deal.offers[o].by = "AGENT" THEN deal.offers[o].status = "PROPOSED" /\ zone = "AUTO"
    ELSE /\ deal.offers[o].status = "ACCEPTED"
         /\ IF ApprovalsOf(o) = {} THEN zone = "AUTO"
            ELSE /\ zone = "APPROVAL"
                 /\ \E a \in ApprovalsOf(o) :
                       /\ deal.approvals[a].status = "APPROVED"
                       /\ deal.approvals[a].followup = "SENT"
                       /\ deal.approvals[a].policy = product.policy

ConfirmOffer ==
    /\ Negotiable(deal) /\ deal.current # 0 /\ Confirmable(deal.current)
    /\ deal' = [deal EXCEPT !.offers[deal.current].status = "ACCEPTED",
                            !.status = "AGREED", !.version = @ + 1]
    /\ UNCHANGED <<product, asked, tasks, replies, proc, manual, edits, faults>>

CloseNegotiation ==
    /\ deal.status \in {"ACTIVE", "WAITING"}
    /\ deal' = [VoidPending(deal) EXCEPT !.status = "CLOSED", !.version = @ + 1]
    /\ UNCHANGED <<product, asked, tasks, replies, proc, manual, edits, faults>>

----------------------------------------------------------------------------
(* The announcement of a decision.                                          *)

Event(a) ==
    LET p == deal.approvals[a]
    IN  IF p.status = "REJECTED" THEN "REJECTED"
        ELSE IF \/ deal.status # "WAITING" \/ deal.current # p.offer \/ ~product.onSale
                \/ deal.offers[p.offer].status # "PROPOSED" \/ product.policy # p.policy
        THEN "INVALIDATED" ELSE "APPROVED"

Input(a) == <<Event(a), product.facts, deal.offers[deal.approvals[a].offer].status>>

Unsent(a) ==
    /\ a \in DOMAIN deal.approvals
    /\ deal.approvals[a].status \in {"APPROVED", "REJECTED"}
    /\ deal.approvals[a].followup \in {"PENDING", "FAILED"}

(* A claim repeats the creation of the task: the same input finds it, other *)
(* facts are a conflict that escapes the loop.                              *)
InputChanged(a) == tasks[a].status # "none" /\ tasks[a].input # Input(a)

Claim(p, a) ==
    /\ proc[p].at = "idle" /\ Unsent(a) /\ ~InputChanged(a)
    /\ LET t == IF tasks[a].status = "none"
                THEN NewTask(deal.approvals[a].offer, Input(a), deal) ELSE tasks[a]
           used == Leasable(t) /\ t.attempts >= t.limit
       IN  \/ /\ Leasable(t) /\ ~used
              /\ tasks' = [tasks EXCEPT ![a] = Leased(t)]
              /\ proc' = [proc EXCEPT ![p] = [Holding(a, Leased(t)) EXCEPT !.at = "calling"]]
              /\ UNCHANGED deal
           \/ /\ used
              /\ tasks' = [tasks EXCEPT ![a] = Failed(t)]
              /\ deal' = [deal EXCEPT !.approvals[a].followup = "MANUAL_REQUIRED"]
              /\ UNCHANGED proc
    /\ UNCHANGED <<product, asked, replies, manual, edits, faults>>

ApplyEvent(d, a, event) ==
    LET o == d.approvals[a].offer
    IN  Restore(IF event = "APPROVED" THEN [d EXCEPT !.offers[o].status = "ACCEPTED"]
                ELSE IF event = "INVALIDATED" /\ d.offers[o].status = "PROPOSED"
                THEN [d EXCEPT !.offers[o].status = "WITHDRAWN"] ELSE d)

StaleFollowup(t, a) ==
    \/ deal.version # t.version
    \/ product.policy # t.policy
    \/ Input(a) # t.input

(* A decision overtaken by other changes is announced as not applied; only  *)
(* one that is void while its offer is current still ends the wait.         *)
StaleEffect(a) ==
    IF Event(a) = "INVALIDATED" /\ deal.current = deal.approvals[a].offer
    THEN ApplyEvent(deal, a, "INVALIDATED") ELSE deal

Announce(a, d, t) ==
    /\ deal' = [d EXCEPT !.approvals[a].followup = "SENT"]
    /\ replies' = Reply(a)
    /\ tasks' = [tasks EXCEPT ![a] = t]

Postpone(a, act) ==
    /\ tasks' = [tasks EXCEPT ![a] = AfterFailure(act, @)]
    /\ deal' = [deal EXCEPT !.approvals[a].followup =
                    IF Retryable(act, tasks[a]) THEN "FAILED" ELSE "MANUAL_REQUIRED"]
    /\ UNCHANGED replies

FinishFollowup(p, act) ==
    /\ proc[p].at = "calling" /\ proc[p].key \in Approvals
    /\ proc' = [proc EXCEPT ![p] = Idle]
    /\ LET a == proc[p].key
           stale == StaleFollowup(tasks[a], a)
       IN  \/ /\ ~HoldsLease(p)
              /\ UNCHANGED <<deal, tasks, replies>>
           \/ /\ HoldsLease(p) /\ act \in {"timeout", "internal"}
              /\ Postpone(a, act)
           \/ /\ HoldsLease(p) /\ act = "unsafe" /\ ~stale
              /\ Postpone(a, act)
           \/ /\ HoldsLease(p) /\ act = "draft" /\ ~stale
              /\ Announce(a, ApplyEvent(deal, a, Event(a)), Succeeded(tasks[a]))
           \/ /\ HoldsLease(p) /\ act \in {"draft", "unsafe"} /\ stale
              /\ Announce(a, StaleEffect(a), Outdated(tasks[a]))
    /\ UNCHANGED <<product, asked, manual, edits, faults>>

----------------------------------------------------------------------------
(* The seller's recovery desk.                                              *)
Unfinished(k) == replies[k] = 0

RetryFailed(k) ==
    /\ tasks[k].status = "FAILED" /\ manual < MaxManual
    /\ Unfinished(k)
    /\ tasks' = [tasks EXCEPT ![k] = Reopened(@)]
    /\ deal' = IF k \in Req THEN deal ELSE [deal EXCEPT !.approvals[k].followup = "FAILED"]
    /\ manual' = manual + 1
    /\ UNCHANGED <<product, asked, replies, proc, edits, faults>>

ToldTerminated(k) == IF k \in Req /\ Unfinished(k) THEN Reply(k) ELSE replies

Terminate(k) ==
    /\ \/ tasks[k].status \in {"PENDING", "RETRY_WAIT", "FAILED"}
       \/ tasks[k].status = "RUNNING" /\ tasks[k].lapsed
    /\ tasks' = [tasks EXCEPT ![k] = Cancelled(@)]
    /\ replies' = ToldTerminated(k)
    /\ deal' = HandOver(deal, k)
    /\ UNCHANGED <<product, asked, proc, manual, edits, faults>>

(* The seller edits the rules, the public facts, or takes the product off   *)
(* sale and back.                                                           *)
Edit ==
    /\ edits < MaxEdits /\ edits' = edits + 1
    /\ product' \in {[product EXCEPT !.policy = @ + 1], [product EXCEPT !.facts = @ + 1],
                     [product EXCEPT !.onSale = ~@]}
    /\ UNCHANGED <<deal, asked, tasks, replies, proc, manual, faults>>

----------------------------------------------------------------------------
(* Time and faults.                                                         *)
Held(k) == \E p \in Proc : proc[p].key = k /\ HoldsLease(p)

LeaseEnds(k) ==
    /\ tasks[k].status = "RUNNING" /\ ~tasks[k].lapsed
    /\ Held(k) => faults < MaxFaults
    /\ faults' = IF Held(k) THEN faults + 1 ELSE faults
    /\ tasks' = [tasks EXCEPT ![k].lapsed = TRUE]
    /\ UNCHANGED <<product, deal, asked, replies, proc, manual, edits>>

RetryComesDue(k) ==
    /\ tasks[k].status = "RETRY_WAIT" /\ ~tasks[k].due
    /\ tasks' = [tasks EXCEPT ![k].due = TRUE]
    /\ UNCHANGED <<product, deal, asked, replies, proc, manual, edits, faults>>

Die(p) ==
    /\ proc[p].at # "idle" /\ faults < MaxFaults
    /\ proc' = [proc EXCEPT ![p] = Idle]
    /\ faults' = faults + 1
    /\ UNCHANGED <<product, deal, asked, tasks, replies, manual, edits>>

(* What the model may decide on a message ...                               *)
Decisions == {<<"talk", 0>>} \cup {<<"counter", price>> : price \in Price}

(* ... and what asking it for an announcement may end with: a draft, one     *)
(* that cannot be sent, no answer in time, an error of the program.          *)
DraftOutcomes == {"draft", "unsafe", "timeout", "internal"}

Execute(p) ==
    \/ Reconcile(p) \/ FailChat(p) \/ LateAnswer(p)
    \/ \E decision \in Decisions : FinishTurn(p, decision[1], decision[2])
    \/ \E act \in DraftOutcomes : FinishFollowup(p, act)

Next ==
    \/ \E r \in Req : SendText(r)
    \/ \E r \in Req, price \in Price : SendOffer(r, price)
    \/ \E p \in Proc : Execute(p) \/ Die(p)
    \/ \E p \in Proc, k \in Req : Lease(p, k) \/ Resume(p, k)
    \/ \E p \in Proc, a \in Approvals : Claim(p, a)
    \/ \E a \in Approvals, decision \in {"APPROVED", "REJECTED"} : Review(a, decision)
    \/ \E a \in Approvals : CancelRequest(a) \/ ExpireRequest(a)
    \/ ExpireDueOwned
    \/ ConfirmOffer \/ CloseNegotiation
    \/ \E k \in Key : RetryFailed(k) \/ Terminate(k) \/ LeaseEnds(k) \/ RetryComesDue(k)
    \/ Edit

Spec == Init /\ [][Next]_vars

(* Processes run to the end of what they hold, the worker loop polls chat   *)
(* tasks and unsent decisions (each once in a batch), and time passes.      *)
Fairness ==
    /\ \A p \in Proc : WF_vars(Execute(p))
    /\ \A k \in Req : WF_vars(\E p \in Proc : Lease(p, k))
    /\ \A a \in Approvals : WF_vars(\E p \in Proc : Claim(p, a))
    /\ \A k \in Key : WF_vars(LeaseEnds(k)) /\ WF_vars(RetryComesDue(k))
FairSpec == Spec /\ Fairness

----------------------------------------------------------------------------
(* Every row is one the tables can hold: leases and retry times belong to   *)
(* the status that needs them (ModelExecutionTask's CHECK constraints), no   *)
(* attempt exceeds the limit, rounds stay within the policy.                *)
TypeOK ==
    /\ product \in [policy : Nat, onSale : BOOLEAN, facts : Nat]
    /\ deal.status \in {"ACTIVE", "WAITING", "AGREED", "CLOSED"}
    /\ deal.rounds \in 0..MaxRounds /\ deal.current \in 0..Len(deal.offers)
    /\ \A o \in DOMAIN deal.offers :
          deal.offers[o] \in [by : {"BUYER", "AGENT"}, price : Price,
                              status : {"PROPOSED", "ACCEPTED", "REJECTED", "WITHDRAWN"}]
    /\ \A a \in DOMAIN deal.approvals :
          /\ deal.approvals[a].status \in
                {"PENDING", "APPROVED", "REJECTED", "VOID"}
          /\ deal.approvals[a].followup \in
                {"none", "PENDING", "FAILED", "SENT", "MANUAL_REQUIRED"}
          /\ deal.approvals[a].followup = "none" <=>
                deal.approvals[a].status \notin {"APPROVED", "REJECTED"}
    /\ \A k \in Key :
          /\ tasks[k].status \in {"none", "FAILED"} \cup Active \cup Settled
          /\ tasks[k].lapsed => tasks[k].status = "RUNNING"
          /\ tasks[k].due => tasks[k].status = "RETRY_WAIT"
          /\ tasks[k].attempts \in 0..tasks[k].limit
          /\ tasks[k].limit \in 0..(MaxAttempts + manual)
    /\ \A p \in Proc : proc[p].at \in {"idle", "leased", "calling"}

(* A buyer's message is answered once: by the transaction that stored it,    *)
(* or by whoever settled its task - the caller, a worker that took over, or  *)
(* the seller who terminated it.  Nobody settles a task without an answer    *)
(* and no answer leaves a task open.                                         *)
AnsweredWhenSettled ==
    \A r \in Req :
        /\ replies[r] <= 1
        /\ asked[r] # "none" =>
              (replies[r] = 1 <=> tasks[r].status \in Settled \cup {"none"})

(* A decision is announced once, and marked SENT with its message            *)
(* (ApprovalProcessor), whichever worker, retry or stale path announced it.  *)
AnnouncedWhenSent ==
    \A a \in DOMAIN deal.approvals :
        /\ replies[a] <= 1
        /\ deal.approvals[a].followup = "SENT" <=> replies[a] = 1

(* An unannounced decision stands on the seller's desk exactly when its task *)
(* failed or was terminated: nothing is retried behind his back, nothing he  *)
(* must act on hides in the queue (_mark_approval_manual_required).          *)
DeskHoldsFailedTasks ==
    \A a \in DOMAIN deal.approvals :
        deal.approvals[a].followup = "MANUAL_REQUIRED"
            <=> tasks[a].status \in {"FAILED", "CANCELLED"}

(* The session never waits for nothing: its current offer has an approval    *)
(* that is pending, or approved and not applied yet.  The exception is an    *)
(* approval whose facts changed while it was announced: it is marked SENT    *)
(* as not applied and leaves the session waiting (_safe_stale_result).       *)
WaitingHasDecision ==
    deal.status = "WAITING" =>
        \E a \in DOMAIN deal.approvals :
            /\ deal.approvals[a].offer = deal.current
            /\ \/ deal.approvals[a].status = "PENDING"
               \/ /\ deal.approvals[a].status = "APPROVED"
                  /\ deal.approvals[a].followup # "SENT" \/ tasks[a].status = "STALE"

(* An offer is accepted, and then confirmed, only with authority at that     *)
(* moment: the rules in force accept its price, or the seller approved this  *)
(* current offer under these very rules and the product is on sale; the      *)
(* buyer confirms only what was announced (IntentService, ApprovalProcessor).*)
Authorized(o) ==
    /\ deal'.current = o /\ product.onSale
    /\ \/ Zone(deal'.offers[o].price, product.policy) = "AUTO"
       \/ \E a \in DOMAIN deal.approvals :
             /\ deal.approvals[a].offer = o /\ deal.approvals[a].status = "APPROVED"
             /\ deal.approvals[a].policy = product.policy
             /\ deal'.status = "AGREED" => replies[a] = 1
Accepts(o) ==
    /\ deal'.offers[o].status = "ACCEPTED"
    /\ o \in DOMAIN deal.offers => deal.offers[o].status # "ACCEPTED"
Agrees(o) == deal'.status = "AGREED" /\ deal.status # "AGREED" /\ o = deal'.current
AcceptsWithAuthority ==
    \A o \in DOMAIN deal'.offers :
      Agrees(o) \/ Accepts(o) =>
         Authorized(o) /\ (deal'.offers[o].by = "BUYER" \/ Agrees(o))

(* What the buyer confirmed or ended stays so: no late answer of a model, no *)
(* overdue announcement, no decision of the seller and no sweep touches the  *)
(* session or its confirmed offer again.                                     *)
KeepsEnds ==
    deal.status \in {"AGREED", "CLOSED"} =>
      /\ deal'.status = deal.status /\ deal'.current = deal.current
      /\ deal.status = "AGREED" =>
            deal'.offers[deal.current] = deal.offers[deal.current]

(* A late answer never makes an offer: the agent's offer answers the offer   *)
(* and the rules its model was shown, whoever changed them meanwhile.        *)
CountersFreshly ==
    Len(deal'.offers) > Len(deal.offers) /\ deal'.offers[deal'.current].by = "AGENT" =>
      \E r \in Req :
         /\ tasks[r].status = "RUNNING" /\ tasks'[r].status = "SUCCEEDED"
         /\ tasks[r].offer = deal.current /\ tasks[r].policy = product.policy
         /\ tasks[r].input = <<product.facts, product.onSale>>
         /\ Zone(deal'.offers[deal'.current].price, product.policy) = "AUTO"

(* Every message is answered or reaches the seller's desk, whatever died.    *)
MessagesEnd ==
    \A r \in Req : asked[r] # "none" ~> (replies[r] > 0 \/ tasks[r].status = "FAILED")

(* Every decision is announced or reaches the seller's desk - unless the     *)
(* facts of its task changed since the first claim: that conflict ends every *)
(* later claim with an exception.                                            *)
Announcing(a) ==
    a \in DOMAIN deal.approvals /\ deal.approvals[a].followup \in {"PENDING", "FAILED"}
FollowupsEnd ==
    \A a \in Approvals : []<>(~Announcing(a) \/ InputChanged(a))

=============================================================================
