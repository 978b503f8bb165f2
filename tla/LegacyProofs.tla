------------------------------ MODULE LegacyProofs ------------------------------
(* What the legacy runtime keeps, proved for any number of messages, processes,   *)
(* rounds, attempts and faults.  LInv is the inductive invariant: the rows are    *)
(* typed, the book of offers and approvals is in order (BookInOrder), a message   *)
(* is in step with its task and its answer (MessagesInStep), a decision with its  *)
(* task and its announcement (DecisionsInStep), and whoever waits waits for a     *)
(* decision (WaitingHasDecision).                                                 *)
EXTENDS LegacyRuntime, SequenceTheorems, TLAPS

Offers == [by : {"BUYER", "AGENT"}, price : Price,
           status : {"PROPOSED", "ACCEPTED", "REJECTED", "WITHDRAWN"}]
Decided == {"APPROVED", "REJECTED"}
Requested == [offer : Nat, policy : Nat, status : {"PENDING", "VOID"} \cup Decided,
              followup : {"none", "PENDING", "FAILED", "SENT", "MANUAL_REQUIRED"}]
Deals == [status : {"ACTIVE", "WAITING", "AGREED", "CLOSED"}, version : Nat,
          rounds : 0 .. MaxRounds, current : Nat, offers : Seq(Offers),
          approvals : Seq(Requested)]
Inputs == {<<>>} \cup (Nat \X BOOLEAN)
          \cup ({"REJECTED", "INVALIDATED", "APPROVED"} \X Nat
                \X {"PROPOSED", "ACCEPTED", "REJECTED", "WITHDRAWN"})
Statuses == {"none", "FAILED"} \cup Active \cup Settled
TaskRows == [status : Statuses, attempts : Nat, limit : Nat, lapsed : BOOLEAN, due : BOOLEAN,
             version : Nat, policy : Nat, offer : Nat, input : Inputs]
Executions == [at : {"idle", "leased", "calling"}, key : Key \cup {0}, token : Nat]

\* A task row is one its table can hold.
TaskInOrder(t, granted) ==
  /\ t \in TaskRows
  /\ t.lapsed => t.status = "RUNNING"
  /\ t.due => t.status = "RETRY_WAIT"
  /\ t.attempts <= t.limit /\ t.limit <= MaxAttempts + granted

\* An approval is for an offer of the buyer in the book, and has a follow-up from its
\* decision on.
ApprovalInOrder(d, a) ==
  /\ d.approvals[a].offer \in 1 .. Len(d.offers)
  /\ d.offers[d.approvals[a].offer].by = "BUYER"
  /\ d.approvals[a].followup = "none" <=> d.approvals[a].status \notin Decided

\* Every approval took a round, and what was agreed on is the current offer.
BookInOrder(d) ==
  /\ d \in Deals
  /\ d.current <= Len(d.offers) /\ Len(d.approvals) <= d.rounds
  /\ \A a \in 1 .. Len(d.approvals) : ApprovalInOrder(d, a)
  /\ d.status = "AGREED" => d.current # 0 /\ d.offers[d.current].status = "ACCEPTED"

\* A message without an answer has an open or failed task, one with an answer has none.
MessageInStep(question, status, answers) ==
  /\ answers \in {0, 1}
  /\ question = "none" => status = "none" /\ answers = 0
  /\ question # "none" => (answers = 1 <=> status \in Settled \cup {"none"})

\* The follow-up of a decision tells how its task stands and whether it was announced.
FollowupInStep(followup, status, answers) ==
  /\ answers = (IF followup = "SENT" THEN 1 ELSE 0)
  /\ followup = "none" => status = "none"
  /\ status = "none" => followup \in {"none", "PENDING"}
  /\ status \in Active => followup \in {"PENDING", "FAILED"}
  /\ status \in {"FAILED", "CANCELLED"} <=> followup = "MANUAL_REQUIRED"
  /\ status \in {"SUCCEEDED", "STALE"} <=> followup = "SENT"

RowsInOrder ==
  /\ product \in [policy : Nat, onSale : BOOLEAN, facts : Nat]
  /\ asked \in [Req -> {"none", "text", "offer"}]
  /\ tasks \in [Key -> TaskRows] /\ \A k \in Key : TaskInOrder(tasks[k], manual)
  /\ replies \in [Key -> Nat]
  /\ proc \in [Proc -> Executions] /\ \A p \in Proc : proc[p].at # "idle" => proc[p].key \in Key
  /\ {manual, edits, faults} \subseteq Nat

MessagesInStep == \A r \in Req : MessageInStep(asked[r], tasks[r].status, replies[r])

DecisionInStep(a) ==
  IF a \in 1 .. Len(deal.approvals)
  THEN FollowupInStep(deal.approvals[a].followup, tasks[a].status, replies[a])
  ELSE tasks[a].status = "none" /\ replies[a] = 0
DecisionsInStep == \A a \in Approvals : DecisionInStep(a)

LInv ==
  /\ RowsInOrder /\ BookInOrder(deal)
  /\ MessagesInStep /\ DecisionsInStep
  /\ WaitingHasDecision

-------------------------------------------------------------------------------
(* What the services do to the book of a session.                                *)

\* The rows of a book, for the steps below (models of negotiations and approvals).
LEMMA BookRows ==
  ASSUME NEW d, BookInOrder(d)
  PROVE  /\ d.offers \in Seq(Offers) /\ DOMAIN d.offers = 1 .. Len(d.offers) /\ Len(d.offers) \in Nat
         /\ d.approvals \in Seq(Requested) /\ DOMAIN d.approvals = 1 .. Len(d.approvals)
         /\ Len(d.approvals) \in Nat
         /\ \A o \in 1 .. Len(d.offers) : d.offers[o] \in Offers
         /\ \A a \in 1 .. Len(d.approvals) : d.approvals[a] \in Requested
         /\ d.current \in 0 .. Len(d.offers) /\ d.rounds \in 0 .. MaxRounds
<1>1. d.offers \in Seq(Offers) /\ d.approvals \in Seq(Requested) /\ d.current \in Nat
      /\ d.rounds \in 0 .. MaxRounds
  BY DEF BookInOrder, Deals
<1>2. d.current <= Len(d.offers)
  BY DEF BookInOrder
<1>3. Len(d.offers) \in Nat /\ Len(d.approvals) \in Nat
  BY <1>1, LenProperties
<1> QED BY <1>1, <1>2, <1>3, LenProperties, ElementOfSeq

\* A session that waits goes on negotiating, and nothing else of it changes
\* (negotiation_service.restore_active).
LEMMA RestoreKeepsBook ==
  ASSUME NEW d, BookInOrder(d)
  PROVE  /\ BookInOrder(Restore(d))
         /\ Restore(d).status = IF d.status = "WAITING" THEN "ACTIVE" ELSE d.status
         /\ Restore(d).rounds = d.rounds /\ Restore(d).current = d.current
         /\ Restore(d).offers = d.offers /\ Restore(d).approvals = d.approvals
<1>1. d \in Deals
  BY DEF BookInOrder
<1>2. Restore(d) \in Deals
  <2>1. PICK n : n = d.version + 1
    OBVIOUS
  <2>2. n \in Nat
    BY <1>1, <2>1 DEF Deals
  <2>3. Restore(d) = IF d.status = "WAITING" THEN [d EXCEPT !.status = "ACTIVE", !.version = n] ELSE d
    BY <2>1 DEF Restore
  <2>4. [d EXCEPT !.status = "ACTIVE", !.version = n] \in Deals
    BY <1>1, <2>2 DEF Deals
  <2> QED BY <1>1, <2>3, <2>4
<1>3. /\ Restore(d).status = IF d.status = "WAITING" THEN "ACTIVE" ELSE d.status
      /\ Restore(d).rounds = d.rounds /\ Restore(d).current = d.current
      /\ Restore(d).offers = d.offers /\ Restore(d).approvals = d.approvals
  BY <1>1 DEF Restore, Deals
<1>4. BookInOrder(Restore(d))
  BY <1>2, <1>3 DEF BookInOrder, ApprovalInOrder
<1> QED BY <1>3, <1>4

\* An offer changes its status; the one that was agreed on does not lose its acceptance
\* (models.offer).
LEMMA OfferKeepsBook ==
  ASSUME NEW d, BookInOrder(d), NEW o \in 1 .. Len(d.offers),
         NEW row \in Offers, row.by = d.offers[o].by, row.price = d.offers[o].price,
         d.status = "AGREED" /\ o = d.current => row.status = "ACCEPTED",
         NEW e, e = [d EXCEPT !.offers[o] = row]
  PROVE  /\ BookInOrder(e)
         /\ e.status = d.status /\ e.version = d.version /\ e.rounds = d.rounds
         /\ e.current = d.current /\ e.approvals = d.approvals
         /\ Len(e.offers) = Len(d.offers)
         /\ \A i \in 1 .. Len(d.offers) : e.offers[i] = IF i = o THEN row ELSE d.offers[i]
<1>1. d \in Deals /\ d.offers \in Seq(Offers)
  BY BookRows DEF BookInOrder
<1>2. PICK rows : rows = [d.offers EXCEPT ![o] = row]
  OBVIOUS
<1>3. /\ rows \in Seq(Offers) /\ Len(rows) = Len(d.offers)
      /\ \A j \in 1 .. Len(d.offers) : rows[j] = IF j = o THEN row ELSE d.offers[j]
  BY <1>1, <1>2, ExceptSeq
<1>4. e = [d EXCEPT !.offers = rows]
  BY <1>2
<1>5. /\ e \in Deals /\ e.status = d.status /\ e.version = d.version /\ e.rounds = d.rounds
      /\ e.current = d.current /\ e.offers = rows /\ e.approvals = d.approvals
  BY <1>1, <1>3, <1>4 DEF Deals
<1>6. ASSUME NEW a \in 1 .. Len(e.approvals) PROVE ApprovalInOrder(e, a)
  BY <1>3, <1>5 DEF BookInOrder, ApprovalInOrder
<1>7. e.status = "AGREED" => e.current # 0 /\ e.offers[e.current].status = "ACCEPTED"
  BY <1>3, <1>5, BookRows DEF BookInOrder
<1>8. e.current <= Len(e.offers) /\ Len(e.approvals) <= e.rounds
  BY <1>3, <1>5 DEF BookInOrder
<1>9. BookInOrder(e)
  BY <1>5, <1>6, <1>7, <1>8 DEF BookInOrder
<1> QED BY <1>3, <1>5, <1>9

\* The same, of the status alone.
StatusSet(d, o, s, e) ==
  /\ BookInOrder(e)
  /\ e.status = d.status /\ e.version = d.version /\ e.rounds = d.rounds
  /\ e.current = d.current /\ e.approvals = d.approvals
  /\ Len(e.offers) = Len(d.offers)
  /\ \A i \in 1 .. Len(d.offers) :
       /\ e.offers[i].by = d.offers[i].by /\ e.offers[i].price = d.offers[i].price
       /\ e.offers[i].status = IF i = o THEN s ELSE d.offers[i].status
       /\ i # o => e.offers[i] = d.offers[i]

\* The row of an offer with a new status.
LEMMA OfferRow ==
  ASSUME NEW d, BookInOrder(d), NEW o \in 1 .. Len(d.offers),
         NEW s \in {"PROPOSED", "ACCEPTED", "REJECTED", "WITHDRAWN"},
         NEW row, row = [d.offers[o] EXCEPT !.status = s]
  PROVE  row \in Offers /\ row.by = d.offers[o].by /\ row.price = d.offers[o].price /\ row.status = s
<1>1. d.offers[o] \in Offers
  BY BookRows
<1> QED BY <1>1 DEF Offers

\* A new status alone keeps the side and the price of an offer (models.offer).
LEMMA StatusIsSet ==
  ASSUME NEW d, BookInOrder(d), NEW o \in 1 .. Len(d.offers),
         NEW row \in Offers, row.by = d.offers[o].by, row.price = d.offers[o].price,
         d.status = "AGREED" /\ o = d.current => row.status = "ACCEPTED",
         NEW e, e = [d EXCEPT !.offers[o] = row]
  PROVE  StatusSet(d, o, row.status, e)
BY OfferKeepsBook DEF StatusSet

\* An approval changes its status or its follow-up; it has a follow-up when it is decided
\* (models.approval).
LEMMA ApprovalKeepsBook ==
  ASSUME NEW d, BookInOrder(d), NEW a \in 1 .. Len(d.approvals),
         NEW row \in Requested, row.offer = d.approvals[a].offer,
         row.followup = "none" <=> row.status \notin Decided,
         NEW e, e = [d EXCEPT !.approvals[a] = row]
  PROVE  /\ BookInOrder(e)
         /\ e.status = d.status /\ e.version = d.version /\ e.rounds = d.rounds
         /\ e.current = d.current /\ e.offers = d.offers
         /\ Len(e.approvals) = Len(d.approvals)
         /\ \A i \in 1 .. Len(d.approvals) : e.approvals[i] = IF i = a THEN row ELSE d.approvals[i]
<1>1. d \in Deals /\ d.approvals \in Seq(Requested)
  BY BookRows DEF BookInOrder
<1>2. PICK rows : rows = [d.approvals EXCEPT ![a] = row]
  OBVIOUS
<1>3. /\ rows \in Seq(Requested) /\ Len(rows) = Len(d.approvals)
      /\ \A i \in 1 .. Len(d.approvals) : rows[i] = IF i = a THEN row ELSE d.approvals[i]
  BY <1>1, <1>2, ExceptSeq
<1>4. e = [d EXCEPT !.approvals = rows]
  BY <1>2
<1>5. /\ e \in Deals /\ e.status = d.status /\ e.version = d.version /\ e.rounds = d.rounds
      /\ e.current = d.current /\ e.offers = d.offers /\ e.approvals = rows
  BY <1>1, <1>3, <1>4 DEF Deals
<1>6. ASSUME NEW i \in 1 .. Len(e.approvals) PROVE ApprovalInOrder(e, i)
  BY <1>3, <1>5 DEF BookInOrder, ApprovalInOrder
<1>7. BookInOrder(e)
  BY <1>3, <1>5, <1>6 DEF BookInOrder
<1> QED BY <1>3, <1>5, <1>7

\* What the follow-ups of the approvals of d and e have in common.
SameFollowups(d, e) ==
  /\ Len(e.approvals) = Len(d.approvals)
  /\ \A a \in 1 .. Len(d.approvals) : e.approvals[a].followup = d.approvals[a].followup

\* The rest of a session, apart from its status and its approvals.
SameBook(d, e) == e.rounds = d.rounds /\ e.current = d.current /\ e.offers = d.offers

\* The statuses a session may go to when a wait may end.
Continues(d, e) == e.status = IF d.status = "WAITING" THEN "ACTIVE" ELSE d.status

\* A pending approval that is cancelled, expires or is in conflict is void, and the session
\* goes on (approval_service._close).
LEMMA CloseKeepsBook ==
  ASSUME NEW d, BookInOrder(d), NEW a \in PendingOf(d), NEW e, e = Close(d, a)
  PROVE  BookInOrder(e) /\ SameFollowups(d, e) /\ SameBook(d, e) /\ Continues(d, e)
<1>1. a \in 1 .. Len(d.approvals) /\ d.approvals[a].status = "PENDING" /\ d.approvals[a] \in Requested
  BY BookRows DEF PendingOf
<1>2. d.approvals[a].followup = "none"
  BY <1>1 DEF BookInOrder, ApprovalInOrder, Decided
<1>3. PICK row : row = [d.approvals[a] EXCEPT !.status = "VOID"]
  OBVIOUS
<1>4. /\ row \in Requested /\ row.offer = d.approvals[a].offer /\ row.followup = "none"
      /\ row.status = "VOID"
  BY <1>1, <1>2, <1>3 DEF Requested
<1>5. PICK c : c = [d EXCEPT !.approvals[a] = row]
  OBVIOUS
<1>6. row.followup = "none" <=> row.status \notin Decided
  BY <1>4 DEF Decided
<1>7. /\ BookInOrder(c) /\ c.status = d.status /\ c.rounds = d.rounds /\ c.current = d.current
      /\ c.offers = d.offers /\ Len(c.approvals) = Len(d.approvals)
      /\ \A i \in 1 .. Len(d.approvals) : c.approvals[i] = IF i = a THEN row ELSE d.approvals[i]
  BY <1>1, <1>4, <1>5, <1>6, ApprovalKeepsBook
<1>8. e = Restore(c)
  BY <1>3, <1>5 DEF Close
<1>9. SameFollowups(d, c)
  BY <1>2, <1>4, <1>7 DEF SameFollowups
<1> QED BY <1>7, <1>8, <1>9, RestoreKeepsBook DEF SameFollowups, SameBook, Continues

\* A sweep or the end of the session makes every pending approval void
\* (approval_service.expire_due).
LEMMA VoidKeepsBook ==
  ASSUME NEW d, BookInOrder(d), NEW e, e = VoidPending(d)
  PROVE  /\ BookInOrder(e) /\ SameFollowups(d, e) /\ SameBook(d, e)
         /\ e.status = d.status /\ e.version = d.version
<1>1. /\ d \in Deals /\ DOMAIN d.approvals = 1 .. Len(d.approvals) /\ Len(d.approvals) \in Nat
      /\ \A a \in 1 .. Len(d.approvals) : d.approvals[a] \in Requested
  BY BookRows DEF BookInOrder
<1>2. PICK rows : rows = [a \in 1 .. Len(d.approvals) |->
                            IF a \in PendingOf(d) THEN [d.approvals[a] EXCEPT !.status = "VOID"]
                            ELSE d.approvals[a]]
  OBVIOUS
<1>3. ASSUME NEW a \in 1 .. Len(d.approvals)
      PROVE  /\ rows[a] \in Requested /\ rows[a].offer = d.approvals[a].offer
             /\ rows[a].followup = d.approvals[a].followup
             /\ rows[a].followup = "none" <=> rows[a].status \notin Decided
  <2>1. d.approvals[a] \in Requested
    BY <1>1
  <2>2. d.approvals[a].followup = "none" <=> d.approvals[a].status \notin Decided
    BY DEF BookInOrder, ApprovalInOrder
  <2>3. CASE a \in PendingOf(d)
    <3>1. rows[a] = [d.approvals[a] EXCEPT !.status = "VOID"]
      BY <1>2, <2>3
    <3>2. d.approvals[a].status = "PENDING"
      BY <2>3 DEF PendingOf
    <3>3. /\ rows[a] \in Requested /\ rows[a].offer = d.approvals[a].offer
          /\ rows[a].followup = d.approvals[a].followup /\ rows[a].status = "VOID"
      BY <2>1, <3>1 DEF Requested
    <3> QED BY <2>2, <3>2, <3>3 DEF Decided
  <2>4. CASE a \notin PendingOf(d)
    BY <1>2, <2>1, <2>2, <2>4
  <2> QED BY <2>3, <2>4
<1>4. rows \in [1 .. Len(d.approvals) -> Requested]
  BY <1>2, <1>3
<1>5. rows \in Seq(Requested) /\ Len(rows) = Len(d.approvals)
  BY <1>1, <1>4
<1>6. e = [d EXCEPT !.approvals = rows]
  BY <1>1, <1>2 DEF VoidPending
<1>7. /\ e \in Deals /\ e.status = d.status /\ e.version = d.version /\ e.rounds = d.rounds
      /\ e.current = d.current /\ e.offers = d.offers /\ e.approvals = rows
  BY <1>1, <1>5, <1>6 DEF Deals
<1>8. ASSUME NEW a \in 1 .. Len(e.approvals) PROVE ApprovalInOrder(e, a)
  BY <1>3, <1>5, <1>7 DEF BookInOrder, ApprovalInOrder
<1>9. BookInOrder(e)
  BY <1>5, <1>7, <1>8 DEF BookInOrder
<1> QED BY <1>3, <1>5, <1>7, <1>9 DEF SameFollowups, SameBook

\* A new offer ends the wait for an earlier one (chat_service, send_message).
LEMMA CancelKeepsBook ==
  ASSUME NEW d, BookInOrder(d), d.status = "WAITING" => PendingOf(d) # {},
         NEW e, e = CancelPending(d)
  PROVE  BookInOrder(e) /\ SameFollowups(d, e) /\ SameBook(d, e) /\ Continues(d, e)
<1>1. CASE d.status # "WAITING"
  BY <1>1 DEF CancelPending, SameFollowups, SameBook, Continues
<1>2. CASE d.status = "WAITING"
  <2>1. PICK a : a = CHOOSE b \in PendingOf(d) : TRUE
    OBVIOUS
  <2>2. a \in PendingOf(d)
    BY <1>2, <2>1
  <2>3. e = Close(d, a)
    BY <1>2, <2>1 DEF CancelPending
  <2> QED BY <2>2, <2>3, CloseKeepsBook
<1> QED BY <1>1, <1>2

\* No offer of d is accepted on the way to e, and each keeps its side and its price.
KeepsOffers(d, e) ==
  \A i \in 1 .. Len(d.offers) :
    /\ e.offers[i].by = d.offers[i].by /\ e.offers[i].price = d.offers[i].price
    /\ e.offers[i].status = "ACCEPTED" => d.offers[i].status = "ACCEPTED"

\* A new offer withdraws or refuses the current one (negotiation_service.create_offer).
LEMMA SupersedeKeepsBook ==
  ASSUME NEW d, BookInOrder(d), d.status # "AGREED", NEW by, NEW e, e = Supersede(d, by)
  PROVE  /\ BookInOrder(e) /\ Len(e.offers) = Len(d.offers) /\ KeepsOffers(d, e)
         /\ e.status = d.status /\ e.version = d.version /\ e.rounds = d.rounds
         /\ e.current = d.current /\ e.approvals = d.approvals
<1>1. PICK s : s = IF d.offers[d.current].by = by THEN "WITHDRAWN" ELSE "REJECTED"
  OBVIOUS
<1>2. CASE d.current # 0 /\ d.offers[d.current].status = "PROPOSED"
  <2>1. e = [d EXCEPT !.offers[d.current].status = s]
    BY <1>1, <1>2 DEF Supersede
  <2>2. d.current \in 1 .. Len(d.offers)
    BY <1>2, BookRows
  <2>3. s \in {"PROPOSED", "ACCEPTED", "REJECTED", "WITHDRAWN"} /\ s # "ACCEPTED"
    BY <1>1
  <2>4. PICK row : row = [d.offers[d.current] EXCEPT !.status = s]
    OBVIOUS
  <2>5. e = [d EXCEPT !.offers[d.current] = row]
    BY <2>1, <2>4
  <2>6. StatusSet(d, d.current, s, e)
    <3>1. row \in Offers /\ row.by = d.offers[d.current].by /\ row.price = d.offers[d.current].price
          /\ row.status = s
      BY <2>2, <2>3, <2>4, OfferRow
    <3>2. ~(d.status = "AGREED")
      OBVIOUS
    <3> QED BY <2>2, <2>5, <3>1, <3>2, StatusIsSet
  <2> QED BY <2>3, <2>6 DEF StatusSet, KeepsOffers
<1>3. CASE ~(d.current # 0 /\ d.offers[d.current].status = "PROPOSED")
  BY <1>3 DEF Supersede, KeepsOffers
<1> QED BY <1>2, <1>3

\* What a new offer makes of the book.
Offered(d, by, price, e) ==
  /\ BookInOrder(e) /\ KeepsOffers(d, e)
  /\ e.status = d.status /\ e.approvals = d.approvals
  /\ Len(e.offers) = Len(d.offers) + 1 /\ e.current = Len(d.offers) + 1
  /\ e.offers[e.current].by = by /\ e.offers[e.current].price = price
  /\ e.offers[e.current].status = "PROPOSED"

\* It becomes the current one (negotiation_service.create_offer).
LEMMA OfferIsAdded ==
  ASSUME NEW d, BookInOrder(d), d.status # "AGREED", NEW by \in {"BUYER", "AGENT"},
         NEW price \in Price, NEW e, e = AddOffer(d, by, price)
  PROVE  Offered(d, by, price, e) /\ e.rounds = d.rounds
<1>1. PICK s : s = Supersede(d, by)
  OBVIOUS
<1>2. /\ BookInOrder(s) /\ Len(s.offers) = Len(d.offers) /\ KeepsOffers(d, s)
      /\ s.status = d.status /\ s.version = d.version /\ s.rounds = d.rounds
      /\ s.current = d.current /\ s.approvals = d.approvals
  BY <1>1, SupersedeKeepsBook
<1>3. PICK row : row = [by |-> by, price |-> price, status |-> "PROPOSED"]
  OBVIOUS
<1>4. row \in Offers
  BY <1>3 DEF Offers
<1>5. PICK rows : rows = Append(s.offers, row)
  OBVIOUS
<1>6. s \in Deals /\ s.offers \in Seq(Offers) /\ Len(s.offers) \in Nat
  BY <1>2, BookRows DEF BookInOrder
<1>7. /\ rows \in Seq(Offers) /\ Len(rows) = Len(s.offers) + 1 /\ rows[Len(s.offers) + 1] = row
      /\ \A i \in 1 .. Len(s.offers) : rows[i] = s.offers[i]
  BY <1>4, <1>5, <1>6, AppendProperties
<1>8. PICK n, v : n = Len(s.offers) + 1 /\ v = s.version + 1
  OBVIOUS
<1>9. n \in Nat /\ v \in Nat
  BY <1>6, <1>8 DEF Deals
<1>10. e = [s EXCEPT !.offers = rows, !.current = n, !.version = v]
  BY <1>1, <1>3, <1>5, <1>8 DEF AddOffer
<1>11. /\ e \in Deals /\ e.status = s.status /\ e.rounds = s.rounds /\ e.approvals = s.approvals
       /\ e.offers = rows /\ e.current = n
  BY <1>6, <1>7, <1>9, <1>10 DEF Deals
<1>12. ASSUME NEW a \in 1 .. Len(e.approvals) PROVE ApprovalInOrder(e, a)
  <2>1. ApprovalInOrder(s, a)
    BY <1>2, <1>11 DEF BookInOrder
  <2> QED BY <1>6, <1>7, <1>11, <2>1 DEF ApprovalInOrder
<1>13. BookInOrder(e)
  BY <1>2, <1>6, <1>7, <1>8, <1>11, <1>12 DEF BookInOrder
<1>14. KeepsOffers(d, e)
  BY <1>2, <1>7, <1>11 DEF KeepsOffers
<1>15. e.offers[e.current] = row /\ e.current = Len(d.offers) + 1 /\ Len(e.offers) = Len(d.offers) + 1
  BY <1>2, <1>7, <1>8, <1>11
<1> QED BY <1>2, <1>3, <1>11, <1>13, <1>14, <1>15 DEF Offered

\* The buyer's offer takes a round (chat_service.send_message).
LEMMA BuyerOfferIsAdded ==
  ASSUME NEW d, BookInOrder(d), d.status # "AGREED", d.rounds < MaxRounds,
         NEW price \in Price, NEW e, e = RecordBuyerOffer(d, price)
  PROVE  Offered(d, "BUYER", price, e) /\ e.rounds = d.rounds + 1
<1>1. PICK s : s = AddOffer(d, "BUYER", price)
  OBVIOUS
<1>2. Offered(d, "BUYER", price, s) /\ s.rounds = d.rounds
  BY <1>1, OfferIsAdded
<1>3. PICK n : n = s.rounds + 1
  OBVIOUS
<1>4. n \in 0 .. MaxRounds /\ s.rounds <= n
  BY <1>2, <1>3, BookRows, LegacyAssumption
<1>5. e = [s EXCEPT !.rounds = n]
  BY <1>1, <1>3 DEF RecordBuyerOffer
<1>6. s \in Deals /\ BookInOrder(s) /\ Len(s.approvals) \in Nat /\ s.rounds \in Nat
  BY <1>2, BookRows DEF Offered, BookInOrder
<1>7. /\ e \in Deals /\ e.status = s.status /\ e.rounds = n /\ e.approvals = s.approvals
      /\ e.offers = s.offers /\ e.current = s.current
  BY <1>4, <1>5, <1>6 DEF Deals
<1>8. Len(s.approvals) <= n
  BY <1>4, <1>6 DEF BookInOrder
<1>9. BookInOrder(e)
  BY <1>6, <1>7, <1>8 DEF BookInOrder, ApprovalInOrder
<1> QED BY <1>2, <1>3, <1>7, <1>9 DEF Offered, KeepsOffers

\* The rules accept the current offer (negotiation_service.accept_offer).
LEMMA AcceptKeepsBook ==
  ASSUME NEW d, BookInOrder(d), d.current # 0, NEW e, e = AcceptOffer(d)
  PROVE  /\ BookInOrder(e)
         /\ e.status = d.status /\ e.rounds = d.rounds /\ e.current = d.current
         /\ e.approvals = d.approvals /\ Len(e.offers) = Len(d.offers)
         /\ \A i \in 1 .. Len(d.offers) :
              /\ e.offers[i].by = d.offers[i].by /\ e.offers[i].price = d.offers[i].price
              /\ e.offers[i].status = IF i = d.current THEN "ACCEPTED" ELSE d.offers[i].status
<1>1. PICK s : s = [d EXCEPT !.offers[d.current].status = "ACCEPTED"]
  OBVIOUS
<1>2. d.current \in 1 .. Len(d.offers)
  BY BookRows
<1>3. StatusSet(d, d.current, "ACCEPTED", s)
  <2>1. PICK row : row = [d.offers[d.current] EXCEPT !.status = "ACCEPTED"]
    OBVIOUS
  <2>2. s = [d EXCEPT !.offers[d.current] = row]
    BY <1>1, <2>1
  <2>3. row \in Offers /\ row.by = d.offers[d.current].by /\ row.price = d.offers[d.current].price
        /\ row.status = "ACCEPTED"
    BY <1>2, <2>1, OfferRow
  <2> QED BY <1>2, <2>2, <2>3, StatusIsSet
<1>4. PICK v : v = d.version + 1
  OBVIOUS
<1>5. e = [s EXCEPT !.version = v]
  BY <1>1, <1>3, <1>4 DEF AcceptOffer, StatusSet, BookInOrder, Deals
<1>6. d \in Deals /\ s \in Deals
  BY <1>3 DEF StatusSet, BookInOrder
<1>7. v \in Nat
  BY <1>4, <1>6 DEF Deals
<1>8. /\ e \in Deals /\ e.status = s.status /\ e.rounds = s.rounds /\ e.approvals = s.approvals
      /\ e.offers = s.offers /\ e.current = s.current
  BY <1>5, <1>6, <1>7 DEF Deals
<1>9. BookInOrder(e)
  BY <1>3, <1>8 DEF StatusSet, BookInOrder, ApprovalInOrder
<1> QED BY <1>3, <1>8, <1>9 DEF StatusSet

\* A request for the current offer, a buyer's, is the last one of the session
\* (approval_service.create).
LEMMA RequestIsAdded ==
  ASSUME NEW d, BookInOrder(d), d.current # 0, d.offers[d.current].by = "BUYER",
         d.status # "AGREED",
         Len(d.approvals) < d.rounds, product.policy \in Nat, NEW e, e = CreateRequest(d)
  PROVE  /\ BookInOrder(e)
         /\ e.status = "WAITING" /\ e.rounds = d.rounds /\ e.current = d.current
         /\ e.offers = d.offers /\ Len(e.approvals) = Len(d.approvals) + 1
         /\ \A a \in 1 .. Len(d.approvals) : e.approvals[a] = d.approvals[a]
         /\ e.approvals[Len(d.approvals) + 1].offer = d.current
         /\ e.approvals[Len(d.approvals) + 1].status = "PENDING"
         /\ e.approvals[Len(d.approvals) + 1].followup = "none"
<1>1. PICK row : row = [offer |-> d.current, policy |-> product.policy, status |-> "PENDING",
                        followup |-> "none"]
  OBVIOUS
<1>2. d \in Deals /\ d.approvals \in Seq(Requested) /\ Len(d.approvals) \in Nat
      /\ d.current \in 1 .. Len(d.offers) /\ Len(d.offers) \in Nat /\ d.rounds \in Nat
  BY BookRows DEF BookInOrder
<1>3. row \in Requested
  BY <1>1, <1>2 DEF Requested
<1>4. PICK rows : rows = Append(d.approvals, row)
  OBVIOUS
<1>5. /\ rows \in Seq(Requested) /\ Len(rows) = Len(d.approvals) + 1
      /\ rows[Len(d.approvals) + 1] = row
      /\ \A a \in 1 .. Len(d.approvals) : rows[a] = d.approvals[a]
  BY <1>2, <1>3, <1>4, AppendProperties
<1>6. PICK v : v = d.version + 1
  OBVIOUS
<1>7. v \in Nat
  BY <1>2, <1>6 DEF Deals
<1>8. e = [d EXCEPT !.status = "WAITING", !.version = v, !.approvals = rows]
  BY <1>1, <1>4, <1>6 DEF CreateRequest
<1>9. /\ e \in Deals /\ e.status = "WAITING" /\ e.rounds = d.rounds /\ e.approvals = rows
      /\ e.offers = d.offers /\ e.current = d.current
  BY <1>2, <1>5, <1>7, <1>8 DEF Deals
<1>10. ASSUME NEW a \in 1 .. Len(e.approvals) PROVE ApprovalInOrder(e, a)
  <2>1. CASE a = Len(d.approvals) + 1
    BY <1>1, <1>2, <1>5, <1>9, <2>1 DEF ApprovalInOrder, Decided
  <2>2. CASE a # Len(d.approvals) + 1
    <3>1. a \in 1 .. Len(d.approvals)
      BY <1>2, <1>5, <1>9, <2>2
    <3>2. ApprovalInOrder(d, a)
      BY <3>1 DEF BookInOrder
    <3> QED BY <1>5, <1>9, <3>1, <3>2 DEF ApprovalInOrder
  <2> QED BY <2>1, <2>2
<1>11. BookInOrder(e)
  BY <1>2, <1>5, <1>9, <1>10 DEF BookInOrder
<1> QED BY <1>1, <1>5, <1>9, <1>11

\* What a new follow-up of one approval makes of the book.
FollowupSet(d, a, f, e) ==
  /\ BookInOrder(e) /\ SameBook(d, e) /\ e.status = d.status
  /\ Len(e.approvals) = Len(d.approvals)
  /\ \A i \in 1 .. Len(d.approvals) :
       /\ e.approvals[i].followup = IF i = a THEN f ELSE d.approvals[i].followup
       /\ e.approvals[i].status = d.approvals[i].status
       /\ e.approvals[i].offer = d.approvals[i].offer
       /\ e.approvals[i].policy = d.approvals[i].policy

\* The row of a decided approval with a new follow-up.
LEMMA FollowupRow ==
  ASSUME NEW d, BookInOrder(d), NEW a \in 1 .. Len(d.approvals), d.approvals[a].followup # "none",
         NEW f \in {"PENDING", "FAILED", "SENT", "MANUAL_REQUIRED"},
         NEW row, row = [d.approvals[a] EXCEPT !.followup = f]
  PROVE  /\ row \in Requested /\ row.offer = d.approvals[a].offer /\ row.followup = f
         /\ row.policy = d.approvals[a].policy /\ row.status = d.approvals[a].status
         /\ row.status \in Decided
<1>1. d.approvals[a] \in Requested
  BY BookRows
<1>2. d.approvals[a].status \in Decided
  BY DEF BookInOrder, ApprovalInOrder
<1> QED BY <1>1, <1>2 DEF Requested

\* Only the follow-up of a decided approval changes (model_task_service,
\* _mark_approval_manual_required).
LEMMA RowIsSet ==
  ASSUME NEW d, BookInOrder(d), NEW a \in 1 .. Len(d.approvals),
         NEW row \in Requested, row.offer = d.approvals[a].offer, row.followup # "none",
         row.policy = d.approvals[a].policy, row.status = d.approvals[a].status,
         row.status \in Decided,
         NEW e, e = [d EXCEPT !.approvals[a] = row]
  PROVE  FollowupSet(d, a, row.followup, e)
<1>1. row.followup = "none" <=> row.status \notin Decided
  OBVIOUS
<1>2. /\ BookInOrder(e)
      /\ e.status = d.status /\ e.version = d.version /\ e.rounds = d.rounds
      /\ e.current = d.current /\ e.offers = d.offers
      /\ Len(e.approvals) = Len(d.approvals)
      /\ \A i \in 1 .. Len(d.approvals) : e.approvals[i] = IF i = a THEN row ELSE d.approvals[i]
  BY <1>1, ApprovalKeepsBook
<1> QED BY <1>2 DEF FollowupSet, SameBook

\* Both together, as the actions write them.
LEMMA FollowupIsSet ==
  ASSUME NEW d, BookInOrder(d), NEW a \in 1 .. Len(d.approvals), d.approvals[a].followup # "none",
         NEW f \in {"PENDING", "FAILED", "SENT", "MANUAL_REQUIRED"},
         NEW e, e = [d EXCEPT !.approvals[a].followup = f]
  PROVE  FollowupSet(d, a, f, e)
<1>1. PICK row : row = [d.approvals[a] EXCEPT !.followup = f]
  OBVIOUS
<1>2. /\ row \in Requested /\ row.offer = d.approvals[a].offer /\ row.followup = f
      /\ row.policy = d.approvals[a].policy /\ row.status = d.approvals[a].status
      /\ row.status \in Decided
  BY <1>1, FollowupRow
<1>3. e = [d EXCEPT !.approvals[a] = row]
  BY <1>1
<1>4. row.followup # "none"
  BY <1>2
<1> QED BY <1>2, <1>3, <1>4, RowIsSet

\* What the announcement of a decision makes of the book.
EventApplied(d, a, event, e) ==
  /\ BookInOrder(e) /\ Continues(d, e)
  /\ e.rounds = d.rounds /\ e.current = d.current /\ e.approvals = d.approvals
  /\ Len(e.offers) = Len(d.offers)
  /\ \A i \in 1 .. Len(d.offers) :
       /\ e.offers[i].by = d.offers[i].by /\ e.offers[i].price = d.offers[i].price
       /\ e.offers[i].status = "ACCEPTED" =>
            d.offers[i].status = "ACCEPTED" \/ (event = "APPROVED" /\ i = d.approvals[a].offer)
  /\ d.status = "AGREED" => e.offers[d.current] = d.offers[d.current]

\* It accepts the offer the seller approved, withdraws one whose basis is gone, and ends the
\* wait (approval_followup.apply_result).
LEMMA EventIsApplied ==
  ASSUME NEW d, BookInOrder(d), NEW a \in 1 .. Len(d.approvals), NEW event,
         event = "APPROVED" => d.status # "AGREED", NEW e, e = ApplyEvent(d, a, event)
  PROVE  EventApplied(d, a, event, e)
<1>1. PICK o : o = d.approvals[a].offer
  OBVIOUS
<1>2. o \in 1 .. Len(d.offers)
  BY <1>1 DEF BookInOrder, ApprovalInOrder
<1>3. PICK c : c = IF event = "APPROVED" THEN [d EXCEPT !.offers[o].status = "ACCEPTED"]
                   ELSE IF event = "INVALIDATED" /\ d.offers[o].status = "PROPOSED"
                   THEN [d EXCEPT !.offers[o].status = "WITHDRAWN"] ELSE d
  OBVIOUS
<1>4. e = Restore(c)
  BY <1>1, <1>3 DEF ApplyEvent
<1>5. ASSUME NEW s \in {"ACCEPTED", "WITHDRAWN"}, c = [d EXCEPT !.offers[o].status = s],
             d.status = "AGREED" => s = "WITHDRAWN" /\ d.offers[o].status = "PROPOSED"
      PROVE  StatusSet(d, o, s, c)
  <2>1. PICK row : row = [d.offers[o] EXCEPT !.status = s]
    OBVIOUS
  <2>2. c = [d EXCEPT !.offers[o] = row]
    BY <1>5, <2>1
  <2>3. row \in Offers /\ row.by = d.offers[o].by /\ row.price = d.offers[o].price /\ row.status = s
    BY <1>2, <2>1, OfferRow
  <2>4. d.status = "AGREED" => o # d.current
    BY <1>5 DEF BookInOrder
  <2> QED BY <1>2, <2>2, <2>3, <2>4, StatusIsSet
<1>6. \/ event = "APPROVED" /\ d.status # "AGREED" /\ StatusSet(d, o, "ACCEPTED", c)
      \/ event # "APPROVED" /\ d.offers[o].status = "PROPOSED" /\ StatusSet(d, o, "WITHDRAWN", c)
      \/ c = d
  <2>1. CASE event = "APPROVED"
    BY <1>3, <1>5, <2>1
  <2>2. CASE event = "INVALIDATED" /\ d.offers[o].status = "PROPOSED"
    BY <1>3, <1>5, <2>2
  <2>3. CASE event # "APPROVED" /\ ~(event = "INVALIDATED" /\ d.offers[o].status = "PROPOSED")
    BY <1>3, <2>3
  <2> QED BY <2>1, <2>2, <2>3
<1>7. /\ BookInOrder(c) /\ c.status = d.status
      /\ c.rounds = d.rounds /\ c.current = d.current /\ c.approvals = d.approvals
      /\ Len(c.offers) = Len(d.offers)
  BY <1>6 DEF StatusSet
<1>8. \A i \in 1 .. Len(d.offers) :
        /\ c.offers[i].by = d.offers[i].by /\ c.offers[i].price = d.offers[i].price
        /\ c.offers[i].status = "ACCEPTED" =>
             d.offers[i].status = "ACCEPTED" \/ (event = "APPROVED" /\ i = o)
  BY <1>6 DEF StatusSet
<1>9. d.status = "AGREED" => c.offers[d.current] = d.offers[d.current]
  <2> SUFFICES ASSUME d.status = "AGREED" PROVE c.offers[d.current] = d.offers[d.current]
    OBVIOUS
  <2>1. d.current \in 1 .. Len(d.offers) /\ d.offers[d.current].status = "ACCEPTED"
    BY BookRows DEF BookInOrder
  <2> QED BY <1>6, <2>1 DEF StatusSet
<1>10. /\ BookInOrder(e) /\ e.status = (IF c.status = "WAITING" THEN "ACTIVE" ELSE c.status)
       /\ e.rounds = c.rounds /\ e.current = c.current
       /\ e.offers = c.offers /\ e.approvals = c.approvals
  BY <1>4, <1>7, RestoreKeepsBook
<1>11. Continues(d, e)
  BY <1>7, <1>10 DEF Continues
<1>12. \A i \in 1 .. Len(d.offers) :
        /\ e.offers[i].by = d.offers[i].by /\ e.offers[i].price = d.offers[i].price
        /\ e.offers[i].status = "ACCEPTED" =>
             d.offers[i].status = "ACCEPTED" \/ (event = "APPROVED" /\ i = d.approvals[a].offer)
  BY <1>1, <1>8, <1>10
<1>13. d.status = "AGREED" => e.offers[d.current] = d.offers[d.current]
  BY <1>9, <1>10
<1> QED BY <1>7, <1>10, <1>11, <1>12, <1>13 DEF EventApplied

-------------------------------------------------------------------------------
(* What happens to a task.                                                       *)

\* A task that is left has neither a lease nor a due time (models.model_task).
LEMMA LeftKeepsTask ==
  ASSUME NEW t, NEW g \in Nat, TaskInOrder(t, g), NEW s \in Statuses
  PROVE  TaskInOrder(Left(t, s), g) /\ Left(t, s).status = s
BY DEF TaskInOrder, TaskRows, Left

\* A lease counts as an attempt, within the limit (model_task_service.lease).
LEMMA LeaseKeepsTask ==
  ASSUME NEW t, NEW g \in Nat, TaskInOrder(t, g), t.attempts < t.limit
  PROVE  TaskInOrder(Leased(t), g) /\ Leased(t).status = "RUNNING" /\ Leased(t).attempts \in Nat
<1>1. t \in TaskRows
  BY DEF TaskInOrder
<1>2. PICK n : n = t.attempts + 1
  OBVIOUS
<1>3. n \in Nat /\ n <= t.limit
  BY <1>1, <1>2 DEF TaskRows
<1>4. Leased(t) = [t EXCEPT !.status = "RUNNING", !.attempts = n, !.lapsed = FALSE, !.due = FALSE]
  BY <1>2 DEF Leased
<1>5. "RUNNING" \in Statuses
  BY DEF Statuses, Active
<1> QED BY <1>1, <1>3, <1>4, <1>5 DEF TaskInOrder, TaskRows

\* A new task has its first attempts before it (model_task_service.create_task).
LEMMA NewTaskInOrder ==
  ASSUME NEW d, BookInOrder(d), NEW offer \in Nat, NEW shown \in Inputs, NEW g \in Nat,
         product.policy \in Nat
  PROVE  /\ TaskInOrder(NewTask(offer, shown, d), g) /\ NewTask(offer, shown, d).status = "PENDING"
         /\ NewTask(offer, shown, d).attempts = 0
<1>1. d.version \in Nat
  BY DEF BookInOrder, Deals
<1>2. NoTask \in TaskRows
  BY DEF NoTask, TaskRows, Statuses, Inputs
<1>3. PICK c : c = Captured(NoTask, offer, d)
  OBVIOUS
<1>4. c \in TaskRows /\ c.attempts = 0 /\ c.lapsed = FALSE /\ c.due = FALSE
  BY <1>1, <1>2, <1>3 DEF Captured, TaskRows, NoTask
<1>5. NewTask(offer, shown, d) = [c EXCEPT !.status = "PENDING", !.limit = MaxAttempts, !.input = shown]
  BY <1>3 DEF NewTask
<1>6. "PENDING" \in Statuses /\ MaxAttempts \in Nat
  BY LegacyAssumption DEF Statuses, Active
<1>7. PICK n : n = NewTask(offer, shown, d)
  OBVIOUS
<1>8. /\ n \in TaskRows /\ n.status = "PENDING" /\ n.limit = MaxAttempts /\ n.attempts = 0
      /\ n.lapsed = FALSE /\ n.due = FALSE
  BY <1>4, <1>5, <1>6, <1>7 DEF TaskRows
<1>9. TaskInOrder(n, g)
  BY <1>6, <1>8 DEF TaskInOrder
<1> QED BY <1>7, <1>8, <1>9

\* After a failure a task waits for its next attempt, or fails (model_retry_policy.py).
LEMMA FailureKeepsTask ==
  ASSUME NEW t, NEW g \in Nat, TaskInOrder(t, g), NEW act
  PROVE  /\ TaskInOrder(AfterFailure(act, t), g)
         /\ AfterFailure(act, t).status = IF Retryable(act, t) THEN "RETRY_WAIT" ELSE "FAILED"
<1>1. "RETRY_WAIT" \in Statuses /\ "FAILED" \in Statuses
  BY DEF Statuses, Active
<1> QED BY <1>1, LeftKeepsTask DEF AfterFailure, Deferred, Failed

\* A key is a message's or an approval's, never both.
LEMMA KeysApart ==
  /\ \A r \in Req : r \in Key /\ r \notin Approvals
  /\ \A a \in Approvals : a \in Key /\ a \notin Req /\ a \in Nat /\ a \in 1 .. MaxRounds
  /\ \A k \in Key : k \in Req \/ k \in Approvals
BY LegacyAssumption DEF Key, Approvals

\* The approvals of a session have their keys among Approvals.
LEMMA ApprovalsHaveKeys ==
  ASSUME NEW d, BookInOrder(d), NEW a \in 1 .. Len(d.approvals)
  PROVE  a \in Approvals
<1>1. Len(d.approvals) \in Nat /\ Len(d.approvals) <= d.rounds /\ d.rounds \in 0 .. MaxRounds
  BY BookRows DEF BookInOrder
<1> QED BY <1>1, LegacyAssumption DEF Approvals

\* A task changes; the other rows of the tasks stay.
LEMMA TaskRowsKeep ==
  ASSUME RowsInOrder, NEW k \in Key, NEW t, TaskInOrder(t, manual), tasks' = [tasks EXCEPT ![k] = t]
  PROVE  /\ tasks' \in [Key -> TaskRows] /\ \A i \in Key : TaskInOrder(tasks'[i], manual)
         /\ tasks'[k] = t /\ \A i \in Key : i # k => tasks'[i] = tasks[i]
BY DEF RowsInOrder, TaskInOrder

\* The execution of a process ends or begins.
LEMMA ProcRowsKeep ==
  ASSUME RowsInOrder, NEW p \in Proc, NEW x \in Executions, x.at # "idle" => x.key \in Key,
         proc' = [proc EXCEPT ![p] = x]
  PROVE  proc' \in [Proc -> Executions] /\ \A q \in Proc : proc'[q].at # "idle" => proc'[q].key \in Key
BY DEF RowsInOrder

\* The empty execution is one.
LEMMA IdleRow == Idle \in Executions /\ Idle.at = "idle"
BY DEF Idle, Executions

\* An execution of a leased task.
LEMMA HoldingRow ==
  ASSUME NEW k \in Key, NEW t, t.attempts \in Nat, NEW x, x = Holding(k, t)
  PROVE  x \in Executions /\ x.key = k /\ x.at = "leased" /\ x.token \in Nat
BY DEF Holding, Idle, Executions

\* Where nothing is kept for a session there is nothing out of step.
LEMMA LStart == Init => LInv
<1> SUFFICES ASSUME Init PROVE LInv
  OBVIOUS
<1>1. /\ deal.offers = <<>> /\ deal.approvals = <<>> /\ deal.status = "ACTIVE" /\ deal.version = 1
      /\ deal.rounds = 0 /\ deal.current = 0
      /\ deal = [status |-> "ACTIVE", version |-> 1, rounds |-> 0, current |-> 0,
                 offers |-> <<>>, approvals |-> <<>>]
  BY DEF Init
<1>2. <<>> \in Seq(Offers) /\ <<>> \in Seq(Requested) /\ Len(<<>>) = 0
  BY EmptySeq
<1>3. deal \in Deals
  BY <1>1, <1>2, LegacyAssumption DEF Deals
<1>4. BookInOrder(deal)
  BY <1>1, <1>2, <1>3 DEF BookInOrder
<1>5. /\ tasks = [k \in Key |-> NoTask] /\ NoTask \in TaskRows /\ NoTask.status = "none"
      /\ TaskInOrder(NoTask, 0)
  <2>1. NoTask \in TaskRows
    BY DEF NoTask, TaskRows, Statuses, Inputs
  <2>2. TaskInOrder(NoTask, 0)
    BY <2>1, LegacyAssumption DEF TaskInOrder, NoTask
  <2> QED BY <2>1, <2>2 DEF Init, NoTask
<1>6. RowsInOrder
  <2>1. product \in [policy : Nat, onSale : BOOLEAN, facts : Nat]
    BY DEF Init
  <2>2. asked \in [Req -> {"none", "text", "offer"}] /\ replies \in [Key -> Nat]
    BY DEF Init
  <2>3. tasks \in [Key -> TaskRows] /\ manual = 0 /\ \A k \in Key : TaskInOrder(tasks[k], manual)
    BY <1>5 DEF Init
  <2>4. proc \in [Proc -> Executions] /\ \A p \in Proc : proc[p].at # "idle" => proc[p].key \in Key
    BY IdleRow DEF Init
  <2>5. {manual, edits, faults} \subseteq Nat
    BY DEF Init
  <2> QED BY <2>1, <2>2, <2>3, <2>4, <2>5 DEF RowsInOrder
<1>7. MessagesInStep
  BY <1>5, KeysApart DEF MessagesInStep, MessageInStep, Init
<1>8. DecisionsInStep
  BY <1>1, <1>2, <1>5, KeysApart DEF DecisionsInStep, DecisionInStep, Init
<1>9. WaitingHasDecision
  BY <1>1 DEF WaitingHasDecision
<1> QED BY <1>4, <1>6, <1>7, <1>8, <1>9 DEF LInv

-------------------------------------------------------------------------------
(* What a step leaves in step.                                                   *)

\* Steps that touch no decision leave the follow-ups in step.
LEMMA DecisionsKeep ==
  ASSUME LInv, SameFollowups(deal, deal'),
         \A a \in Approvals : tasks'[a].status = tasks[a].status /\ replies'[a] = replies[a]
  PROVE  DecisionsInStep'
BY DEF LInv, DecisionsInStep, DecisionInStep, SameFollowups

\* A step that touches one decision moves its follow-up with its task and its message.
LEMMA DecisionMoves ==
  ASSUME LInv, NEW a \in Approvals, a \in 1 .. Len(deal.approvals), NEW f,
         Len(deal'.approvals) = Len(deal.approvals),
         \A i \in 1 .. Len(deal.approvals) :
           deal'.approvals[i].followup = IF i = a THEN f ELSE deal.approvals[i].followup,
         \A i \in Approvals : i # a => tasks'[i].status = tasks[i].status /\ replies'[i] = replies[i],
         FollowupInStep(f, tasks'[a].status, replies'[a])
  PROVE  DecisionsInStep'
<1> SUFFICES ASSUME NEW i \in Approvals PROVE DecisionInStep(i)'
  BY DEF DecisionsInStep
<1>1. CASE i = a
  BY <1>1 DEF DecisionInStep
<1>2. CASE i # a
  BY <1>2 DEF LInv, DecisionsInStep, DecisionInStep
<1> QED BY <1>1, <1>2

\* A session whose approvals and decisions stay waits for what it waited for.
LEMMA WaitKeeps ==
  ASSUME LInv, deal' = deal, \A a \in Approvals : tasks'[a].status = tasks[a].status
  PROVE  WaitingHasDecision'
<1> SUFFICES ASSUME deal.status = "WAITING"
             PROVE  \E a \in DOMAIN deal.approvals :
                      /\ deal.approvals[a].offer = deal.current
                      /\ \/ deal.approvals[a].status = "PENDING"
                         \/ /\ deal.approvals[a].status = "APPROVED"
                            /\ deal.approvals[a].followup # "SENT" \/ tasks'[a].status = "STALE"
  BY DEF WaitingHasDecision
<1>1. \A a \in DOMAIN deal.approvals : a \in Approvals
  BY ApprovalsHaveKeys, BookRows DEF LInv
<1> QED BY <1>1 DEF LInv, WaitingHasDecision

\* A decision that is not announced, or announced as stale, may still be waited for.
LEMMA WaitMoves ==
  ASSUME LInv, NEW a \in 1 .. Len(deal.approvals), NEW f, FollowupSet(deal, a, f, deal'),
         \A i \in Approvals : i # a => tasks'[i].status = tasks[i].status,
         f # "SENT" \/ tasks'[a].status = "STALE"
  PROVE  WaitingHasDecision'
<1> SUFFICES ASSUME deal'.status = "WAITING"
             PROVE  \E b \in DOMAIN deal'.approvals :
                      /\ deal'.approvals[b].offer = deal'.current
                      /\ \/ deal'.approvals[b].status = "PENDING"
                         \/ /\ deal'.approvals[b].status = "APPROVED"
                            /\ deal'.approvals[b].followup # "SENT" \/ tasks'[b].status = "STALE"
  BY DEF WaitingHasDecision
<1>1. \A b \in DOMAIN deal.approvals : b \in Approvals
  BY ApprovalsHaveKeys, BookRows DEF LInv
<1>2. DOMAIN deal'.approvals = 1 .. Len(deal'.approvals) /\ DOMAIN deal.approvals = 1 .. Len(deal.approvals)
  BY BookRows DEF FollowupSet, LInv
<1>3. deal.status = "WAITING" /\ deal'.current = deal.current
  BY DEF FollowupSet, SameBook
<1>4. PICK b \in DOMAIN deal.approvals :
        /\ deal.approvals[b].offer = deal.current
        /\ \/ deal.approvals[b].status = "PENDING"
           \/ /\ deal.approvals[b].status = "APPROVED"
              /\ deal.approvals[b].followup # "SENT" \/ tasks[b].status = "STALE"
  BY <1>3 DEF LInv, WaitingHasDecision
<1>5. /\ b \in DOMAIN deal'.approvals /\ deal'.approvals[b].offer = deal'.current
      /\ deal'.approvals[b].status = deal.approvals[b].status
      /\ deal'.approvals[b].followup = IF b = a THEN f ELSE deal.approvals[b].followup
  BY <1>2, <1>3, <1>4 DEF FollowupSet
<1>6. b # a => tasks'[b].status = tasks[b].status
  BY <1>1, <1>4
<1> QED BY <1>4, <1>5, <1>6

\* Steps that touch no message leave the messages in step.
LEMMA MessagesKeep ==
  ASSUME LInv, asked' = asked,
         \A r \in Req : tasks'[r].status = tasks[r].status /\ replies'[r] = replies[r]
  PROVE  MessagesInStep'
BY DEF LInv, MessagesInStep

\* A step that touches one message moves its task with its answer.
LEMMA MessageMoves ==
  ASSUME LInv, NEW r \in Req, \A s \in Req : s # r =>
           asked'[s] = asked[s] /\ tasks'[s].status = tasks[s].status /\ replies'[s] = replies[s],
         MessageInStep(asked'[r], tasks'[r].status, replies'[r])
  PROVE  MessagesInStep'
BY DEF LInv, MessagesInStep

\* An answer is counted under its key.
LEMMA ReplyRows ==
  ASSUME RowsInOrder, NEW k \in Key, replies' = Reply(k)
  PROVE  /\ replies' \in [Key -> Nat] /\ replies'[k] = replies[k] + 1
         /\ \A i \in Key : i # k => replies'[i] = replies[i]
BY DEF RowsInOrder, Reply

\* A task of a decision has a decided approval with a follow-up.
LEMMA TaskHasDecision ==
  ASSUME LInv, NEW a \in Approvals, tasks[a].status # "none"
  PROVE  /\ a \in 1 .. Len(deal.approvals) /\ deal.approvals[a].followup # "none"
         /\ deal.approvals[a].status \in Decided
         /\ FollowupInStep(deal.approvals[a].followup, tasks[a].status, replies[a])
<1>1. DecisionInStep(a)
  BY DEF LInv, DecisionsInStep
<1>2. a \in 1 .. Len(deal.approvals) /\ deal.approvals[a].followup # "none"
      /\ FollowupInStep(deal.approvals[a].followup, tasks[a].status, replies[a])
  BY <1>1 DEF DecisionInStep, FollowupInStep
<1> QED BY <1>2 DEF LInv, BookInOrder, ApprovalInOrder

-------------------------------------------------------------------------------
(* The buyer's messages and the tasks that answer them.                          *)

\* What the model is shown can be stored in a task.
LEMMA TurnInputIsOne == ASSUME RowsInOrder PROVE TurnInput \in Inputs
BY DEF RowsInOrder, TurnInput, Inputs

\* A deferred message has a task that remembers the book (chat_service.send_message).
LEMMA DeferKeeps ==
  ASSUME LInv, NEW r \in Req, asked[r] = "none", NEW q \in {"text", "offer"}, NEW d,
         BookInOrder(d), SameFollowups(deal, d),
         d = deal \/ d.status # "WAITING",
         asked' = [asked EXCEPT ![r] = q], Defer(r, d),
         UNCHANGED <<product, proc, manual, edits, faults>>
  PROVE  LInv'
<1> USE DEF LInv
<1>1. r \in Key /\ \A a \in Approvals : a \in Key /\ a # r
  BY KeysApart
<1>2. PICK t : t = NewTask(d.current, TurnInput, d)
  OBVIOUS
<1>3. product.policy \in Nat /\ manual \in Nat /\ d.current \in Nat
  BY BookRows DEF RowsInOrder
<1>4. TaskInOrder(t, manual) /\ t.status = "PENDING"
  BY <1>2, <1>3, TurnInputIsOne, NewTaskInOrder
<1>5. tasks' = [tasks EXCEPT ![r] = t] /\ deal' = d /\ replies' = replies
  BY <1>2 DEF Defer
<1>6. /\ tasks' \in [Key -> TaskRows] /\ \A i \in Key : TaskInOrder(tasks'[i], manual)
      /\ tasks'[r] = t /\ \A i \in Key : i # r => tasks'[i] = tasks[i]
  BY <1>1, <1>4, <1>5, TaskRowsKeep
<1>7. RowsInOrder'
  BY <1>5, <1>6 DEF RowsInOrder
<1>8. MessagesInStep'
  <2>1. replies[r] = 0
    BY DEF MessagesInStep, MessageInStep
  <2>2. asked'[r] = q /\ \A s \in Req : s # r => asked'[s] = asked[s]
    BY DEF RowsInOrder
  <2>3. MessageInStep(asked'[r], tasks'[r].status, replies'[r])
    BY <1>4, <1>5, <1>6, <2>1, <2>2 DEF MessageInStep, Settled
  <2>4. \A s \in Req : s # r => tasks'[s] = tasks[s]
    BY <1>6, KeysApart
  <2> QED BY <1>5, <2>2, <2>3, <2>4, MessageMoves
<1>9. \A a \in Approvals : tasks'[a].status = tasks[a].status /\ replies'[a] = replies[a]
  BY <1>1, <1>5, <1>6
<1>10. DecisionsInStep'
  BY <1>5, <1>9, DecisionsKeep
<1>11. WaitingHasDecision'
  <2>1. CASE d = deal
    BY <1>5, <1>9, <2>1, WaitKeeps
  <2>2. CASE d.status # "WAITING"
    BY <1>5, <2>2 DEF WaitingHasDecision
  <2> QED BY <2>1, <2>2
<1> QED BY <1>5, <1>7, <1>8, <1>10, <1>11

\* A text is deferred (chat_service.send_message).
LEMMA SendTextKeeps == ASSUME LInv, NEW r \in Req, SendText(r) PROVE LInv'
<1>1. asked[r] = "none"
  BY DEF SendText, Answerable
<1>2. SameFollowups(deal, deal)
  BY DEF SameFollowups
<1>3. "text" \in {"text", "offer"} /\ BookInOrder(deal)
  BY DEF LInv
<1> QED BY <1>1, <1>2, <1>3, DeferKeeps DEF SendText

\* The book an offer of the buyer leaves, before the rules are asked.
BuyersBook(price) == RecordBuyerOffer(CancelPending(deal), price)

\* It is the session's with the offer as the current one, and nobody waits any more
\* (chat_service.send_message).
LEMMA BuyersBookInOrder ==
  ASSUME LInv, NEW r \in Req, NEW price \in Price, SendOffer(r, price), NEW d, d = BuyersBook(price)
  PROVE  /\ BookInOrder(d) /\ SameFollowups(deal, d) /\ d.status = "ACTIVE"
         /\ Len(d.approvals) < d.rounds
         /\ KeepsOffers(deal, d) /\ Len(d.offers) = Len(deal.offers) + 1
         /\ d.current = Len(deal.offers) + 1 /\ d.offers[d.current].by = "BUYER"
         /\ d.offers[d.current].price = price /\ d.offers[d.current].status = "PROPOSED"
<1>1. BookInOrder(deal) /\ deal.status \notin {"AGREED", "CLOSED"} /\ deal.rounds < MaxRounds
      /\ (deal.status = "WAITING" => PendingOf(deal) # {})
  BY DEF LInv, SendOffer, Answerable
<1>2. PICK c : c = CancelPending(deal)
  OBVIOUS
<1>3. BookInOrder(c) /\ SameFollowups(deal, c) /\ SameBook(deal, c) /\ Continues(deal, c)
  BY <1>1, <1>2, CancelKeepsBook
<1>4. deal.status \in {"ACTIVE", "WAITING"}
  BY <1>1 DEF BookInOrder, Deals
<1>5. c.status = "ACTIVE" /\ c.rounds < MaxRounds /\ c.offers = deal.offers
  BY <1>1, <1>3, <1>4 DEF Continues, SameBook
<1>6. d = RecordBuyerOffer(c, price)
  BY <1>2 DEF BuyersBook
<1>7. Offered(c, "BUYER", price, d) /\ d.rounds = c.rounds + 1
  BY <1>3, <1>5, <1>6, BuyerOfferIsAdded
<1>8. Len(c.approvals) \in Nat /\ c.rounds \in Nat /\ Len(c.approvals) <= c.rounds
  BY <1>3, BookRows DEF BookInOrder
<1>9. Len(d.approvals) < d.rounds
  BY <1>7, <1>8 DEF Offered
<1> QED BY <1>3, <1>5, <1>7, <1>9 DEF Offered, SameFollowups, KeepsOffers

\* What the rules decide is answered at once (chat_service.send_message).
LEMMA StoreKeeps ==
  ASSUME LInv, NEW r \in Req, asked[r] = "none", NEW d, BookInOrder(d),
         asked' = [asked EXCEPT ![r] = "offer"], Store(r, d),
         UNCHANGED <<product, proc, manual, edits, faults>>,
         DecisionsInStep', WaitingHasDecision'
  PROVE  LInv'
<1> USE DEF LInv
<1>1. r \in Key /\ deal' = d /\ tasks' = tasks /\ replies' = Reply(r)
  BY KeysApart DEF Store
<1>2. /\ replies' \in [Key -> Nat] /\ replies'[r] = replies[r] + 1
      /\ \A i \in Key : i # r => replies'[i] = replies[i]
  BY <1>1, ReplyRows
<1>3. RowsInOrder'
  BY <1>1, <1>2 DEF RowsInOrder
<1>4. MessagesInStep'
  <2>1. replies[r] = 0 /\ tasks[r].status = "none"
    BY DEF MessagesInStep, MessageInStep
  <2>2. asked'[r] = "offer" /\ \A s \in Req : s # r => asked'[s] = asked[s]
    BY DEF RowsInOrder
  <2>3. MessageInStep(asked'[r], tasks'[r].status, replies'[r])
    BY <1>1, <1>2, <2>1, <2>2 DEF MessageInStep
  <2>4. \A s \in Req : s # r => replies'[s] = replies[s]
    BY <1>2, KeysApart
  <2> QED BY <1>1, <2>2, <2>3, <2>4, MessageMoves
<1> QED BY <1>1, <1>3, <1>4

\* An offer is accepted, put before the seller or deferred (chat_service.send_message).
LEMMA SendOfferKeeps ==
  ASSUME LInv, NEW r \in Req, NEW price \in Price, SendOffer(r, price) PROVE LInv'
<1>1. asked[r] = "none" /\ asked' = [asked EXCEPT ![r] = "offer"]
      /\ UNCHANGED <<product, proc, manual, edits, faults>>
  BY DEF SendOffer, Answerable
<1>2. PICK d : d = BuyersBook(price)
  OBVIOUS
<1>3. /\ BookInOrder(d) /\ SameFollowups(deal, d) /\ d.status = "ACTIVE"
      /\ Len(d.approvals) < d.rounds
      /\ d.current = Len(deal.offers) + 1 /\ d.offers[d.current].by = "BUYER"
      /\ d.offers[d.current].status = "PROPOSED"
  BY <1>2, BuyersBookInOrder
<1>4. \/ Store(r, Tool(d, "accept", 0, d.current))
      \/ Store(r, Tool(d, "approve", 0, d.current))
      \/ Defer(r, d)
  BY <1>2 DEF SendOffer, BuyersBook
<1>5. Len(deal.offers) \in Nat /\ product.policy \in Nat
  BY BookRows DEF LInv, RowsInOrder
<1>6. d.current # 0
  BY <1>3, <1>5
<1>7. ASSUME NEW e, Store(r, e)
      PROVE  \A a \in Approvals : tasks'[a] = tasks[a] /\ replies'[a] = replies[a]
  BY <1>7, KeysApart, ReplyRows DEF LInv, Store
<1>8. CASE Store(r, Tool(d, "accept", 0, d.current))
  <2>1. PICK e : e = AcceptOffer(d)
    OBVIOUS
  <2>2. BookInOrder(e) /\ e.status = d.status /\ e.approvals = d.approvals
    BY <1>3, <1>6, <2>1, AcceptKeepsBook
  <2>3. Store(r, e)
    BY <1>8, <2>1 DEF Tool
  <2>4. deal' = e
    BY <2>3 DEF Store
  <2>5. SameFollowups(deal, deal')
    BY <1>3, <2>2, <2>4 DEF SameFollowups
  <2>6. DecisionsInStep'
    BY <1>7, <2>3, <2>5, DecisionsKeep
  <2>7. WaitingHasDecision'
    BY <1>3, <2>2, <2>4 DEF WaitingHasDecision
  <2> QED BY <1>1, <2>2, <2>3, <2>6, <2>7, StoreKeeps
<1>9. CASE Store(r, Tool(d, "approve", 0, d.current))
  <2>1. PICK e : e = CreateRequest(d)
    OBVIOUS
  <2>2. /\ BookInOrder(e)
        /\ e.status = "WAITING" /\ e.current = d.current
        /\ Len(e.approvals) = Len(d.approvals) + 1
        /\ \A a \in 1 .. Len(d.approvals) : e.approvals[a] = d.approvals[a]
        /\ e.approvals[Len(d.approvals) + 1].offer = d.current
        /\ e.approvals[Len(d.approvals) + 1].status = "PENDING"
        /\ e.approvals[Len(d.approvals) + 1].followup = "none"
    BY <1>3, <1>5, <1>6, <2>1, RequestIsAdded
  <2>3. Store(r, e)
    BY <1>6, <1>9, <2>1 DEF Tool, Requestable
  <2>4. deal' = e
    BY <2>3 DEF Store
  <2>5. Len(d.approvals) \in Nat /\ DOMAIN e.approvals = 1 .. Len(e.approvals)
    BY <1>3, <2>2, BookRows
  <2>6. DecisionsInStep'
    <3> SUFFICES ASSUME NEW a \in Approvals PROVE DecisionInStep(a)'
      BY DEF DecisionsInStep
    <3>1. tasks'[a] = tasks[a] /\ replies'[a] = replies[a]
      BY <1>7, <2>3
    <3>2. DecisionInStep(a)
      BY DEF LInv, DecisionsInStep
    <3>3. CASE a \in 1 .. Len(d.approvals)
      BY <1>3, <2>2, <2>4, <2>5, <3>1, <3>2, <3>3 DEF DecisionInStep, SameFollowups
    <3>4. CASE a \notin 1 .. Len(d.approvals)
      <4>1. tasks[a].status = "none" /\ replies[a] = 0
        BY <1>3, <3>2, <3>4 DEF DecisionInStep, SameFollowups
      <4>2. FollowupInStep("none", "none", 0)
        BY DEF FollowupInStep, Active
      <4>3. a = Len(d.approvals) + 1 \/ a \notin 1 .. Len(e.approvals)
        BY <2>2, <2>5, <3>4, KeysApart
      <4> QED BY <2>2, <2>4, <3>1, <4>1, <4>2, <4>3 DEF DecisionInStep
    <3> QED BY <3>3, <3>4
  <2>7. WaitingHasDecision'
    <3>1. Len(d.approvals) + 1 \in DOMAIN e.approvals
      BY <2>2, <2>5
    <3> QED BY <2>2, <2>4, <3>1 DEF WaitingHasDecision
  <2> QED BY <1>1, <2>2, <2>3, <2>6, <2>7, StoreKeeps
<1>10. CASE Defer(r, d)
  <2>1. "offer" \in {"text", "offer"} /\ d.status # "WAITING"
    BY <1>3
  <2> QED BY <1>1, <1>3, <1>10, <2>1, DeferKeeps
<1> QED BY <1>4, <1>8, <1>9, <1>10

\* A step on the task of a message that neither answers nor settles it, or settles it with
\* an answer, leaves the decisions alone.
LEMMA ChatTaskKeeps ==
  ASSUME LInv, NEW r \in Req, NEW t, TaskInOrder(t, manual), tasks' = [tasks EXCEPT ![r] = t],
         MessageInStep(asked[r], t.status, replies[r]),
         proc' \in [Proc -> Executions], \A q \in Proc : proc'[q].at # "idle" => proc'[q].key \in Key,
         UNCHANGED <<product, deal, asked, replies, manual, edits, faults>>
  PROVE  LInv'
<1> USE DEF LInv
<1>1. r \in Key /\ \A a \in Approvals : a \in Key /\ a # r
  BY KeysApart
<1>2. /\ tasks' \in [Key -> TaskRows] /\ \A i \in Key : TaskInOrder(tasks'[i], manual)
      /\ tasks'[r] = t /\ \A i \in Key : i # r => tasks'[i] = tasks[i]
  BY <1>1, TaskRowsKeep
<1>3. RowsInOrder'
  BY <1>2 DEF RowsInOrder
<1>4. MessagesInStep'
  <2>1. \A s \in Req : s # r => tasks'[s] = tasks[s]
    BY <1>2, KeysApart
  <2> QED BY <1>2, <2>1, MessageMoves
<1>5. \A a \in Approvals : tasks'[a] = tasks[a]
  BY <1>1, <1>2
<1>6. SameFollowups(deal, deal')
  BY DEF SameFollowups
<1>7. DecisionsInStep' /\ WaitingHasDecision'
  BY <1>5, <1>6, DecisionsKeep, WaitKeeps
<1> QED BY <1>3, <1>4, <1>7

\* A message with an open task is not answered.
LEMMA OpenIsUnanswered ==
  ASSUME LInv, NEW r \in Req, tasks[r].status \in Active \cup {"FAILED"}
  PROVE  /\ replies[r] = 0 /\ asked[r] # "none"
         /\ \A s \in Active \cup {"FAILED"} : MessageInStep(asked[r], s, replies[r])
         /\ \A s \in Settled : MessageInStep(asked[r], s, 1)
BY DEF LInv, MessagesInStep, MessageInStep, Active, Settled

\* A task can be leased only while it is open, and by then it has been created.
LEMMA LeasableIsOpen == ASSUME NEW t, Leasable(t) PROVE t.status \in Active
BY DEF Leasable, Active

\* A lease counts an attempt or ends the attempts (model_task_service.lease).
LEMMA LeaseKeeps == ASSUME LInv, NEW p \in Proc, NEW k \in Key, Lease(p, k) PROVE LInv'
<1> USE DEF LInv
<1>1. k \in Req /\ Leasable(tasks[k]) /\ tasks[k].status \in Active
  BY LeasableIsOpen DEF Lease
<1>2. TaskInOrder(tasks[k], manual) /\ manual \in Nat /\ tasks[k] \in TaskRows
  BY DEF RowsInOrder
<1>3. \A s \in Active \cup {"FAILED"} : MessageInStep(asked[k], s, replies[k])
  BY <1>1, OpenIsUnanswered
<1>4. UNCHANGED <<product, deal, asked, replies, manual, edits, faults>>
  BY DEF Lease
<1>5. CASE tasks[k].attempts >= tasks[k].limit
  <2>1. PICK t : t = Failed(tasks[k])
    OBVIOUS
  <2>2. TaskInOrder(t, manual) /\ t.status = "FAILED"
    <3>1. "FAILED" \in Statuses
      BY DEF Statuses
    <3> QED BY <1>2, <2>1, <3>1, LeftKeepsTask DEF Failed
  <2>3. tasks' = [tasks EXCEPT ![k] = t] /\ proc' = proc
    BY <1>5, <2>1 DEF Lease
  <2>4. MessageInStep(asked[k], t.status, replies[k])
    BY <1>3, <2>2
  <2>5. proc' \in [Proc -> Executions] /\ \A q \in Proc : proc'[q].at # "idle" => proc'[q].key \in Key
    BY <2>3 DEF RowsInOrder
  <2> QED BY <1>1, <1>4, <2>2, <2>3, <2>4, <2>5, ChatTaskKeeps
<1>6. CASE ~(tasks[k].attempts >= tasks[k].limit)
  <2>1. PICK t, x : t = Leased(tasks[k]) /\ x = Holding(k, t)
    OBVIOUS
  <2>2. TaskInOrder(t, manual) /\ t.status = "RUNNING" /\ t.attempts \in Nat
    <3>1. tasks[k].attempts < tasks[k].limit
      BY <1>2, <1>6 DEF TaskRows
    <3> QED BY <1>2, <2>1, <3>1, LeaseKeepsTask
  <2>3. tasks' = [tasks EXCEPT ![k] = t] /\ proc' = [proc EXCEPT ![p] = x]
    BY <1>6, <2>1 DEF Lease
  <2>4. MessageInStep(asked[k], t.status, replies[k])
    BY <1>3, <2>2 DEF Active
  <2>5. proc' \in [Proc -> Executions] /\ \A q \in Proc : proc'[q].at # "idle" => proc'[q].key \in Key
    <3>1. x \in Executions /\ x.key = k
      BY <2>1, <2>2, HoldingRow
    <3> QED BY <2>3, <3>1, ProcRowsKeep
  <2> QED BY <1>1, <1>4, <2>2, <2>3, <2>4, <2>5, ChatTaskKeeps
<1> QED BY <1>5, <1>6

\* An execution that ends leaves the rows of the processes in order.
LEMMA ProcEnds ==
  ASSUME LInv, NEW p \in Proc, proc' = [proc EXCEPT ![p] = Idle]
  PROVE  proc' \in [Proc -> Executions] /\ \A q \in Proc : proc'[q].at # "idle" => proc'[q].key \in Key
<1>1. PICK x : x = Idle
  OBVIOUS
<1>2. x \in Executions /\ x.at = "idle"
  BY <1>1, IdleRow
<1> QED BY <1>1, <1>2, ProcRowsKeep DEF LInv

\* An answer that is already stored would end the task before the model is called
\* (model_task_service.reconcile).
LEMMA ReconcileKeeps == ASSUME LInv, NEW p \in Proc, Reconcile(p) PROVE LInv'
<1> USE DEF LInv
<1>1. PICK k : k = proc[p].key
  OBVIOUS
<1>2. k \in Req /\ k \in Key /\ proc[p].at = "leased" /\ proc[p] \in Executions
      /\ UNCHANGED <<product, deal, asked, replies, manual, edits, faults>>
  BY <1>1, KeysApart DEF Reconcile, RowsInOrder
<1>3. ~AlreadyAnswered(p)
  <2> SUFFICES ASSUME AlreadyAnswered(p) PROVE FALSE
    OBVIOUS
  <2>1. tasks[k].status = "RUNNING" /\ replies[k] > 0
    BY <1>1 DEF AlreadyAnswered, HoldsLease
  <2>2. replies[k] = 0
    BY <1>2, <2>1, OpenIsUnanswered DEF Active
  <2> QED BY <2>1, <2>2
<1>4. TaskInOrder(tasks[k], manual) /\ tasks[k] \in TaskRows /\ MessageInStep(asked[k], tasks[k].status, replies[k])
  BY <1>2 DEF RowsInOrder, MessagesInStep
<1>5. tasks' = [tasks EXCEPT ![k] = tasks[k]]
  BY <1>1, <1>3 DEF Reconcile
<1>6. proc' \in [Proc -> Executions] /\ \A q \in Proc : proc'[q].at # "idle" => proc'[q].key \in Key
  <2>1. CASE HoldsLease(p)
    <3>1. PICK x : x = [proc[p] EXCEPT !.at = "calling"]
      OBVIOUS
    <3>2. x \in Executions /\ x.key = k
      BY <1>1, <1>2, <3>1 DEF Executions
    <3>3. proc' = [proc EXCEPT ![p] = x]
      BY <1>3, <2>1, <3>1 DEF Reconcile
    <3> QED BY <1>2, <3>2, <3>3, ProcRowsKeep
  <2>2. CASE ~HoldsLease(p)
    <3>1. proc' = [proc EXCEPT ![p] = Idle]
      BY <2>2 DEF Reconcile
    <3> QED BY <3>1, ProcEnds
  <2> QED BY <2>1, <2>2
<1> QED BY <1>2, <1>4, <1>5, <1>6, ChatTaskKeeps

\* A call that failed leaves the task for another attempt or for the seller
\* (model_task_service.fail).
LEMMA FailChatKeeps == ASSUME LInv, NEW p \in Proc, FailChat(p) PROVE LInv'
<1> USE DEF LInv
<1>1. PICK k : k = proc[p].key
  OBVIOUS
<1>2. k \in Req /\ k \in Key /\ UNCHANGED <<product, deal, asked, replies, manual, edits, faults>>
      /\ proc' = [proc EXCEPT ![p] = Idle]
  BY <1>1, KeysApart DEF FailChat
<1>3. TaskInOrder(tasks[k], manual) /\ manual \in Nat /\ MessageInStep(asked[k], tasks[k].status, replies[k])
  BY <1>2 DEF RowsInOrder, MessagesInStep
<1>4. PICK act : tasks' = [tasks EXCEPT ![k] = IF HoldsLease(p) THEN AfterFailure(act, tasks[k]) ELSE tasks[k]]
  BY <1>1 DEF FailChat
<1>5. PICK t : t = IF HoldsLease(p) THEN AfterFailure(act, tasks[k]) ELSE tasks[k]
  OBVIOUS
<1>6. tasks' = [tasks EXCEPT ![k] = t]
  BY <1>4, <1>5
<1>7. TaskInOrder(t, manual) /\ MessageInStep(asked[k], t.status, replies[k])
  <2>1. CASE HoldsLease(p)
    <3>1. tasks[k].status \in Active
      BY <1>1, <2>1 DEF HoldsLease, Active
    <3>2. TaskInOrder(t, manual) /\ t.status \in {"RETRY_WAIT", "FAILED"}
      BY <1>3, <1>5, <2>1, FailureKeepsTask
    <3> QED BY <1>2, <3>1, <3>2, OpenIsUnanswered DEF Active
  <2>2. CASE ~HoldsLease(p)
    BY <1>3, <1>5, <2>2
  <2> QED BY <2>1, <2>2
<1> QED BY <1>2, <1>6, <1>7, ProcEnds, ChatTaskKeeps

\* Where only the processes, the product or the counters move, all stays in step.
LEMMA RestKeeps ==
  ASSUME LInv, RowsInOrder', UNCHANGED <<deal, asked, replies>>,
         \A k \in Key : tasks'[k].status = tasks[k].status
  PROVE  LInv'
<1>1. \A r \in Req : tasks'[r].status = tasks[r].status
  BY KeysApart
<1>2. \A a \in Approvals : tasks'[a].status = tasks[a].status
  BY KeysApart
<1>3. SameFollowups(deal, deal')
  BY DEF SameFollowups
<1>4. MessagesInStep'
  BY <1>1, MessagesKeep
<1>5. DecisionsInStep' /\ WaitingHasDecision'
  BY <1>2, <1>3, DecisionsKeep, WaitKeeps
<1>6. BookInOrder(deal)'
  BY DEF LInv
<1> QED BY <1>4, <1>5, <1>6 DEF LInv

\* A late answer is dropped (model_task_service.finish).
LEMMA LateAnswerKeeps == ASSUME LInv, NEW p \in Proc, LateAnswer(p) PROVE LInv'
<1>1. proc' = [proc EXCEPT ![p] = Idle]
      /\ UNCHANGED <<product, deal, asked, tasks, replies, manual, edits, faults>>
  BY DEF LateAnswer
<1>2. proc' \in [Proc -> Executions] /\ \A q \in Proc : proc'[q].at # "idle" => proc'[q].key \in Key
  BY <1>1, ProcEnds
<1>3. RowsInOrder'
  BY <1>1, <1>2 DEF LInv, RowsInOrder
<1> QED BY <1>1, <1>3, RestKeeps

\* A process dies.
LEMMA DieKeeps == ASSUME LInv, NEW p \in Proc, Die(p) PROVE LInv'
<1>1. proc' = [proc EXCEPT ![p] = Idle] /\ faults' = faults + 1
      /\ UNCHANGED <<product, deal, asked, tasks, replies, manual, edits>>
  BY DEF Die
<1>2. proc' \in [Proc -> Executions] /\ \A q \in Proc : proc'[q].at # "idle" => proc'[q].key \in Key
  BY <1>1, ProcEnds
<1>3. RowsInOrder'
  BY <1>1, <1>2 DEF LInv, RowsInOrder
<1> QED BY <1>1, <1>3, RestKeeps

\* The seller edits the product.
LEMMA EditKeeps == ASSUME LInv, Edit PROVE LInv'
<1>1. UNCHANGED <<deal, asked, tasks, replies, proc, manual, faults>> /\ edits' = edits + 1
  BY DEF Edit
<1>2. product \in [policy : Nat, onSale : BOOLEAN, facts : Nat]
  BY DEF LInv, RowsInOrder
<1>3. PICK n, m : n = product.policy + 1 /\ m = product.facts + 1
  OBVIOUS
<1>4. n \in Nat /\ m \in Nat
  BY <1>2, <1>3
<1>5. product' \in {[product EXCEPT !.policy = n], [product EXCEPT !.facts = m],
                    [product EXCEPT !.onSale = ~product.onSale]}
  BY <1>3 DEF Edit
<1>6. product' \in [policy : Nat, onSale : BOOLEAN, facts : Nat]
  BY <1>2, <1>4, <1>5
<1>7. RowsInOrder'
  BY <1>1, <1>6 DEF LInv, RowsInOrder
<1> QED BY <1>1, <1>7, RestKeeps

\* A lease ends under whoever holds it.
LEMMA LeaseEndsKeeps == ASSUME LInv, NEW k \in Key, LeaseEnds(k) PROVE LInv'
<1>1. PICK t : t = [tasks[k] EXCEPT !.lapsed = TRUE]
  OBVIOUS
<1>2. /\ tasks[k].status = "RUNNING" /\ tasks' = [tasks EXCEPT ![k] = t]
      /\ UNCHANGED <<product, deal, asked, replies, proc, manual, edits>>
      /\ faults' \in {faults, faults + 1}
  BY <1>1 DEF LeaseEnds
<1>3. TaskInOrder(tasks[k], manual)
  BY DEF LInv, RowsInOrder
<1>4. TaskInOrder(t, manual) /\ t.status = tasks[k].status
  BY <1>1, <1>2, <1>3 DEF TaskInOrder, TaskRows
<1>5. /\ tasks' \in [Key -> TaskRows] /\ \A i \in Key : TaskInOrder(tasks'[i], manual)
      /\ tasks'[k] = t /\ \A i \in Key : i # k => tasks'[i] = tasks[i]
  BY <1>2, <1>4, TaskRowsKeep DEF LInv
<1>6. RowsInOrder'
  BY <1>2, <1>5 DEF LInv, RowsInOrder
<1> QED BY <1>2, <1>4, <1>5, <1>6, RestKeeps

\* The time of a retry comes.
LEMMA RetryComesDueKeeps == ASSUME LInv, NEW k \in Key, RetryComesDue(k) PROVE LInv'
<1>1. PICK t : t = [tasks[k] EXCEPT !.due = TRUE]
  OBVIOUS
<1>2. /\ tasks[k].status = "RETRY_WAIT" /\ tasks' = [tasks EXCEPT ![k] = t]
      /\ UNCHANGED <<product, deal, asked, replies, proc, manual, edits, faults>>
  BY <1>1 DEF RetryComesDue
<1>3. TaskInOrder(tasks[k], manual)
  BY DEF LInv, RowsInOrder
<1>4. TaskInOrder(t, manual) /\ t.status = tasks[k].status
  BY <1>1, <1>2, <1>3 DEF TaskInOrder, TaskRows
<1>5. /\ tasks' \in [Key -> TaskRows] /\ \A i \in Key : TaskInOrder(tasks'[i], manual)
      /\ tasks'[k] = t /\ \A i \in Key : i # k => tasks'[i] = tasks[i]
  BY <1>2, <1>4, TaskRowsKeep DEF LInv
<1>6. RowsInOrder'
  BY <1>2, <1>5 DEF LInv, RowsInOrder
<1> QED BY <1>2, <1>4, <1>5, <1>6, RestKeeps

\* An answer that is applied makes at most a counter offer of the agent, on the facts its
\* model was shown (chat_service.finish_turn).
LEMMA TurnAppliesCounter ==
  ASSUME LInv, NEW p \in Proc, NEW decision \in Decisions, FinishTurn(p, decision[1], decision[2])
  PROVE  \/ deal' = deal
         \/ /\ decision[2] \in Price /\ ~StaleTurn(tasks[proc[p].key])
            /\ Counterable(deal, decision[2], TurnOffer(proc[p].key))
            /\ deal' = AddOffer(deal, "AGENT", decision[2])
<1>1. PICK act, price, k : act = decision[1] /\ price = decision[2] /\ k = proc[p].key
  OBVIOUS
<1>2. \/ act = "talk"
      \/ act = "counter" /\ price \in Price
  BY <1>1 DEF Decisions
<1>3. deal' = IF StaleTurn(tasks[k]) THEN deal
              ELSE Tool(deal, Constrained(act, k), price, TurnOffer(k))
  BY <1>1 DEF FinishTurn, ApplyAnswer
<1>4. \/ Constrained(act, k) \in {"talk", "refuse"}
      \/ Constrained(act, k) = "counter" /\ price \in Price
  BY <1>2 DEF Constrained
<1>5. CASE Constrained(act, k) \in {"talk", "refuse"}
  BY <1>3, <1>5 DEF Tool
<1>6. CASE Constrained(act, k) = "counter" /\ price \in Price
  <2>1. Tool(deal, "counter", price, TurnOffer(k)) =
          IF Counterable(deal, price, TurnOffer(k)) THEN AddOffer(deal, "AGENT", price) ELSE deal
    BY DEF Tool
  <2> QED BY <1>1, <1>3, <1>6, <2>1
<1> QED BY <1>4, <1>5, <1>6

\* An answer settles its task (chat_service.finish_turn).
LEMMA FinishTurnKeeps ==
  ASSUME LInv, NEW p \in Proc, NEW decision \in Decisions, FinishTurn(p, decision[1], decision[2])
  PROVE  LInv'
<1> USE DEF LInv
<1>1. PICK k : k = proc[p].key
  OBVIOUS
<1>2. /\ k \in Req /\ k \in Key /\ tasks[k].status = "RUNNING"
      /\ UNCHANGED <<product, asked, manual, edits, faults>>
      /\ proc' = [proc EXCEPT ![p] = Idle] /\ replies' = Reply(k)
  BY <1>1, KeysApart DEF FinishTurn, HoldsLease
<1>3. TaskInOrder(tasks[k], manual) /\ manual \in Nat
  BY <1>2 DEF RowsInOrder
<1>4. PICK t : t = IF StaleTurn(tasks[k]) THEN Outdated(tasks[k]) ELSE Succeeded(tasks[k])
  OBVIOUS
<1>5. tasks' = [tasks EXCEPT ![k] = t]
  BY <1>1, <1>4 DEF FinishTurn
<1>6. TaskInOrder(t, manual) /\ t.status \in Settled
  <2>1. "STALE" \in Statuses \cap Settled /\ "SUCCEEDED" \in Statuses \cap Settled
    BY DEF Statuses, Settled
  <2> QED BY <1>3, <1>4, <2>1, LeftKeepsTask DEF Outdated, Succeeded
<1>7. /\ tasks' \in [Key -> TaskRows] /\ \A i \in Key : TaskInOrder(tasks'[i], manual)
      /\ tasks'[k] = t /\ \A i \in Key : i # k => tasks'[i] = tasks[i]
  BY <1>2, <1>5, <1>6, TaskRowsKeep
<1>8. /\ replies' \in [Key -> Nat] /\ replies'[k] = replies[k] + 1
      /\ \A i \in Key : i # k => replies'[i] = replies[i]
  BY <1>2, ReplyRows
<1>9. proc' \in [Proc -> Executions] /\ \A q \in Proc : proc'[q].at # "idle" => proc'[q].key \in Key
  BY <1>2, ProcEnds
<1>10. RowsInOrder'
  BY <1>2, <1>7, <1>8, <1>9 DEF RowsInOrder
<1>11. MessagesInStep'
  <2>1. replies[k] = 0 /\ \A s \in Settled : MessageInStep(asked[k], s, 1)
    BY <1>2, OpenIsUnanswered DEF Active
  <2>2. MessageInStep(asked'[k], tasks'[k].status, replies'[k])
    BY <1>2, <1>6, <1>7, <1>8, <2>1
  <2>3. \A s \in Req : s # k => tasks'[s] = tasks[s] /\ replies'[s] = replies[s]
    BY <1>7, <1>8, KeysApart
  <2> QED BY <1>2, <2>2, <2>3, MessageMoves
<1>12. \A a \in Approvals : tasks'[a] = tasks[a] /\ replies'[a] = replies[a]
  BY <1>2, <1>7, <1>8, KeysApart
<1>13. BookInOrder(deal') /\ SameFollowups(deal, deal') /\ (deal' = deal \/ deal'.status # "WAITING")
  <2>1. CASE deal' = deal
    BY <2>1 DEF SameFollowups
  <2>2. CASE /\ decision[2] \in Price /\ Counterable(deal, decision[2], TurnOffer(k))
             /\ deal' = AddOffer(deal, "AGENT", decision[2])
    <3>1. deal.status = "ACTIVE"
      BY <2>2 DEF Counterable, Negotiable
    <3>2. Offered(deal, "AGENT", decision[2], deal')
      BY <2>2, <3>1, OfferIsAdded
    <3> QED BY <3>1, <3>2 DEF Offered, SameFollowups
  <2> QED BY <1>1, <2>1, <2>2, TurnAppliesCounter
<1>14. DecisionsInStep'
  BY <1>12, <1>13, DecisionsKeep
<1>15. WaitingHasDecision'
  BY <1>12, <1>13, WaitKeeps DEF WaitingHasDecision
<1> QED BY <1>10, <1>11, <1>13, <1>14, <1>15

-------------------------------------------------------------------------------
(* The seller's decisions and the buyer's last word.                             *)

\* A step on the book that leaves the follow-ups and ends any wait leaves all in step.
LEMMA BookStepKeeps ==
  ASSUME LInv, BookInOrder(deal'), SameFollowups(deal, deal'), deal'.status # "WAITING",
         UNCHANGED <<product, asked, tasks, replies, proc, manual, edits, faults>>
  PROVE  LInv'
<1>1. RowsInOrder'
  BY DEF LInv, RowsInOrder
<1>2. MessagesInStep'
  BY MessagesKeep
<1>3. DecisionsInStep'
  BY DecisionsKeep
<1>4. WaitingHasDecision'
  BY DEF WaitingHasDecision
<1> QED BY <1>1, <1>2, <1>3, <1>4 DEF LInv

\* An approval that becomes void ends the wait (approval_service._close).
LEMMA CloseKeeps ==
  ASSUME LInv, NEW a \in PendingOf(deal), deal' = Close(deal, a),
         UNCHANGED <<product, asked, tasks, replies, proc, manual, edits, faults>>
  PROVE  LInv'
<1>1. BookInOrder(deal') /\ SameFollowups(deal, deal') /\ Continues(deal, deal')
  BY CloseKeepsBook DEF LInv
<1>2. deal'.status # "WAITING"
  BY <1>1 DEF Continues
<1> QED BY <1>1, <1>2, BookStepKeeps

\* A sweep does so for all that are due (approval_service.expire_due).
LEMMA SweepKeeps == ASSUME LInv, ExpireDueOwned PROVE LInv'
<1>1. PICK d : d = VoidPending(deal)
  OBVIOUS
<1>2. BookInOrder(d) /\ SameFollowups(deal, d)
  BY <1>1, VoidKeepsBook DEF LInv
<1>3. deal' = Restore(d) /\ UNCHANGED <<product, asked, tasks, replies, proc, manual, edits, faults>>
  BY <1>1 DEF ExpireDueOwned
<1>4. BookInOrder(deal') /\ deal'.approvals = d.approvals /\ deal'.status # "WAITING"
  BY <1>2, <1>3, RestoreKeepsBook
<1>5. SameFollowups(deal, deal')
  BY <1>2, <1>4 DEF SameFollowups
<1> QED BY <1>3, <1>4, <1>5, BookStepKeeps

\* The buyer ends the session (intent_service.close).
LEMMA CloseNegotiationKeeps == ASSUME LInv, CloseNegotiation PROVE LInv'
<1>1. PICK d, v : d = VoidPending(deal) /\ v = d.version + 1
  OBVIOUS
<1>2. BookInOrder(d) /\ SameFollowups(deal, d)
  BY <1>1, VoidKeepsBook DEF LInv
<1>3. deal' = [d EXCEPT !.status = "CLOSED", !.version = v]
      /\ UNCHANGED <<product, asked, tasks, replies, proc, manual, edits, faults>>
  BY <1>1 DEF CloseNegotiation
<1>4. d \in Deals /\ v \in Nat
  <2>1. d \in Deals /\ d.version \in Nat
    BY <1>2 DEF BookInOrder, Deals
  <2> QED BY <1>1, <2>1
<1>5. /\ deal' \in Deals /\ deal'.status = "CLOSED" /\ deal'.rounds = d.rounds
      /\ deal'.current = d.current /\ deal'.offers = d.offers /\ deal'.approvals = d.approvals
  BY <1>3, <1>4 DEF Deals
<1>6. BookInOrder(deal')
  BY <1>2, <1>5 DEF BookInOrder, ApprovalInOrder
<1>7. SameFollowups(deal, deal')
  BY <1>2, <1>5 DEF SameFollowups
<1> QED BY <1>3, <1>5, <1>6, <1>7, BookStepKeeps

\* The buyer confirms the current offer: it stands accepted (intent_service.confirm).
LEMMA ConfirmedBook ==
  ASSUME LInv, ConfirmOffer
  PROVE  /\ BookInOrder(deal') /\ deal'.status = "AGREED" /\ deal'.rounds = deal.rounds
         /\ deal'.current = deal.current /\ deal'.approvals = deal.approvals
         /\ Len(deal'.offers) = Len(deal.offers)
         /\ \A i \in 1 .. Len(deal.offers) :
              /\ deal'.offers[i].by = deal.offers[i].by /\ deal'.offers[i].price = deal.offers[i].price
              /\ deal'.offers[i].status = IF i = deal.current THEN "ACCEPTED" ELSE deal.offers[i].status
<1>1. deal.current # 0 /\ deal.current \in 1 .. Len(deal.offers) /\ BookInOrder(deal)
  BY BookRows DEF LInv, ConfirmOffer
<1>2. PICK row : row = [deal.offers[deal.current] EXCEPT !.status = "ACCEPTED"]
  OBVIOUS
<1>3. PICK c : c = [deal EXCEPT !.offers[deal.current] = row]
  OBVIOUS
<1>4. row \in Offers /\ row.by = deal.offers[deal.current].by /\ row.price = deal.offers[deal.current].price
      /\ row.status = "ACCEPTED"
  BY <1>1, <1>2, OfferRow
<1>5. StatusSet(deal, deal.current, "ACCEPTED", c)
  BY <1>1, <1>3, <1>4, StatusIsSet
<1>6. PICK v : v = deal.version + 1
  OBVIOUS
<1>7. deal \in Deals /\ c \in Deals /\ deal.version \in Nat
  BY <1>1, <1>5 DEF StatusSet, BookInOrder, Deals
<1>8. deal' = [c EXCEPT !.status = "AGREED", !.version = v]
  <2>1. c.version = deal.version
    BY <1>5 DEF StatusSet
  <2>2. deal' = [deal EXCEPT !.offers[deal.current].status = "ACCEPTED",
                            !.status = "AGREED", !.version = deal.version + 1]
    BY DEF ConfirmOffer
  <2>3. c = [deal EXCEPT !.offers[deal.current].status = "ACCEPTED"]
    BY <1>2, <1>3
  <2> QED BY <1>6, <1>7, <2>1, <2>2, <2>3
<1>9. /\ deal' \in Deals /\ deal'.status = "AGREED" /\ deal'.rounds = c.rounds
      /\ deal'.current = c.current /\ deal'.offers = c.offers /\ deal'.approvals = c.approvals
  <2>1. v \in Nat
    BY <1>6, <1>7
  <2> QED BY <1>7, <1>8, <2>1 DEF Deals
<1>10. BookInOrder(deal')
  BY <1>1, <1>5, <1>9 DEF StatusSet, BookInOrder, ApprovalInOrder
<1> QED BY <1>5, <1>9, <1>10 DEF StatusSet

\* The confirmation touches no decision (intent_service.confirm).
LEMMA ConfirmKeeps == ASSUME LInv, ConfirmOffer PROVE LInv'
<1>1. BookInOrder(deal') /\ deal'.status = "AGREED" /\ deal'.approvals = deal.approvals
  BY ConfirmedBook
<1>2. SameFollowups(deal, deal')
  BY <1>1 DEF SameFollowups
<1>3. UNCHANGED <<product, asked, tasks, replies, proc, manual, edits, faults>>
  BY DEF ConfirmOffer
<1> QED BY <1>1, <1>2, <1>3, BookStepKeeps

\* The book in which the seller has decided on a.
DecidedBook(a, decision) ==
  [deal EXCEPT !.approvals[a].status = decision, !.approvals[a].followup = "PENDING"]

\* The decision is due to be announced (approval_service.review).
LEMMA DecisionIsRecorded ==
  ASSUME LInv, NEW a \in PendingOf(deal), NEW decision \in Decided, NEW c, c = DecidedBook(a, decision)
  PROVE  /\ a \in 1 .. Len(deal.approvals)
         /\ BookInOrder(c) /\ SameBook(deal, c) /\ c.status = deal.status
         /\ Len(c.approvals) = Len(deal.approvals)
         /\ c.approvals[a].status = decision /\ c.approvals[a].offer = deal.approvals[a].offer
         /\ \A i \in 1 .. Len(deal.approvals) : c.approvals[i].followup =
              IF i = a THEN "PENDING" ELSE deal.approvals[i].followup
<1>1. /\ a \in 1 .. Len(deal.approvals) /\ deal.approvals[a] \in Requested /\ BookInOrder(deal)
      /\ deal.approvals \in Seq(Requested) /\ deal \in Deals
  BY BookRows DEF LInv, PendingOf, BookInOrder
<1>2. PICK half : half = [deal.approvals[a] EXCEPT !.status = decision]
  OBVIOUS
<1>3. PICK row : row = [half EXCEPT !.followup = "PENDING"]
  OBVIOUS
<1>4. half \in Requested /\ half.offer = deal.approvals[a].offer /\ half.status = decision
  BY <1>1, <1>2 DEF Requested
<1>5. /\ row \in Requested /\ row.offer = deal.approvals[a].offer /\ row.status = decision
      /\ row.followup = "PENDING"
  BY <1>3, <1>4 DEF Requested
<1>6. PICK rows : rows = [deal.approvals EXCEPT ![a] = half]
  OBVIOUS
<1>7. rows[a] = half
  BY <1>1, <1>6
<1>8. [rows EXCEPT ![a] = row] = [deal.approvals EXCEPT ![a] = row]
  BY <1>1, <1>6
<1>9. PICK b : b = [deal EXCEPT !.approvals = rows]
  OBVIOUS
<1>10. b.approvals = rows
  BY <1>1, <1>9 DEF Deals
<1>11. c = [b EXCEPT !.approvals[a].followup = "PENDING"]
  BY <1>2, <1>6, <1>9 DEF DecidedBook
<1>12. c = [b EXCEPT !.approvals = [rows EXCEPT ![a] = row]]
  BY <1>3, <1>7, <1>10, <1>11
<1>13. c = [deal EXCEPT !.approvals = [deal.approvals EXCEPT ![a] = row]]
  BY <1>1, <1>8, <1>9, <1>12 DEF Deals
<1>14. c = [deal EXCEPT !.approvals[a] = row]
  BY <1>13
<1>15. row.followup = "none" <=> row.status \notin Decided
  BY <1>5
<1>16. /\ BookInOrder(c)
       /\ c.status = deal.status /\ c.rounds = deal.rounds
       /\ c.current = deal.current /\ c.offers = deal.offers
       /\ Len(c.approvals) = Len(deal.approvals)
       /\ \A i \in 1 .. Len(deal.approvals) : c.approvals[i] = IF i = a THEN row ELSE deal.approvals[i]
  BY <1>1, <1>5, <1>14, <1>15, ApprovalKeepsBook
<1> QED BY <1>1, <1>5, <1>16 DEF SameBook

\* A decision takes effect on the book of a session that waits, or the approval is void
\* (approval_service.review).
LEMMA ReviewKeepsBook ==
  ASSUME LInv, NEW a \in PendingOf(deal), NEW decision \in Decided, Review(a, decision)
  PROVE  \/ deal' = Close(deal, a)
         \/ /\ deal.status = "WAITING" /\ a \in 1 .. Len(deal.approvals)
            /\ BookInOrder(deal') /\ deal'.current = deal.current
            /\ Len(deal'.offers) = Len(deal.offers) /\ KeepsOffers(deal, deal')
            /\ Len(deal'.approvals) = Len(deal.approvals)
            /\ \A i \in 1 .. Len(deal.approvals) : deal'.approvals[i].followup =
                 IF i = a THEN "PENDING" ELSE deal.approvals[i].followup
            /\ \/ deal'.status = "ACTIVE"
               \/ /\ deal'.status = "WAITING" /\ deal'.approvals[a].offer = deal'.current
                  /\ deal'.approvals[a].status = "APPROVED" /\ deal'.approvals[a].followup = "PENDING"
<1>1. PICK c : c = DecidedBook(a, decision)
  OBVIOUS
<1>2. /\ a \in 1 .. Len(deal.approvals)
      /\ BookInOrder(c) /\ SameBook(deal, c) /\ c.status = deal.status
      /\ Len(c.approvals) = Len(deal.approvals)
      /\ c.approvals[a].status = decision /\ c.approvals[a].offer = deal.approvals[a].offer
      /\ \A i \in 1 .. Len(deal.approvals) : c.approvals[i].followup =
           IF i = a THEN "PENDING" ELSE deal.approvals[i].followup
  BY <1>1, DecisionIsRecorded
<1>3. CASE ReviewConflict(a)
  BY <1>3 DEF Review
<1>4. CASE ~ReviewConflict(a) /\ decision = "APPROVED"
  <2>1. deal.status = "WAITING" /\ deal.current = deal.approvals[a].offer
    BY <1>4 DEF ReviewConflict
  <2>2. PICK v : v = c.version + 1
    OBVIOUS
  <2>3. deal' = [c EXCEPT !.version = v]
    BY <1>1, <1>4, <2>2 DEF Review, DecidedBook
  <2>4. c \in Deals
    BY <1>2 DEF BookInOrder
  <2>5. v \in Nat
    BY <2>2, <2>4 DEF Deals
  <2>6. /\ deal' \in Deals /\ deal'.status = c.status /\ deal'.rounds = c.rounds
        /\ deal'.current = c.current /\ deal'.offers = c.offers /\ deal'.approvals = c.approvals
    BY <2>3, <2>4, <2>5 DEF Deals
  <2>7. BookInOrder(deal')
    BY <1>2, <2>6 DEF BookInOrder, ApprovalInOrder
  <2>8. KeepsOffers(deal, deal') /\ Len(deal'.offers) = Len(deal.offers)
    BY <1>2, <2>6 DEF KeepsOffers, SameBook
  <2> QED BY <1>2, <1>4, <2>1, <2>6, <2>7, <2>8 DEF SameBook
<1>5. CASE ~ReviewConflict(a) /\ decision = "REJECTED"
  <2>1. deal.status = "WAITING"
    BY <1>5 DEF ReviewConflict
  <2>2. PICK o : o = deal.approvals[a].offer
    OBVIOUS
  <2>3. o \in 1 .. Len(c.offers)
    BY <1>2, <2>2 DEF BookInOrder, ApprovalInOrder
  <2>4. PICK row : row = [c.offers[o] EXCEPT !.status = "REJECTED"]
    OBVIOUS
  <2>5. PICK e : e = [c EXCEPT !.offers[o] = row]
    OBVIOUS
  <2>6. row \in Offers /\ row.by = c.offers[o].by /\ row.price = c.offers[o].price /\ row.status = "REJECTED"
    BY <1>2, <2>3, <2>4, OfferRow
  <2>7. StatusSet(c, o, "REJECTED", e)
    BY <1>2, <2>1, <2>3, <2>5, <2>6, StatusIsSet
  <2>8. deal' = Restore(e)
    BY <1>1, <1>5, <2>2, <2>4, <2>5 DEF Review, DecidedBook
  <2>9. /\ BookInOrder(deal') /\ deal'.status = "ACTIVE" /\ deal'.current = c.current
        /\ deal'.offers = e.offers /\ deal'.approvals = c.approvals
    BY <1>2, <2>1, <2>7, <2>8, RestoreKeepsBook DEF StatusSet
  <2>10. KeepsOffers(deal, deal') /\ Len(deal'.offers) = Len(deal.offers)
    BY <1>2, <2>7, <2>9 DEF StatusSet, KeepsOffers, SameBook
  <2> QED BY <1>2, <2>1, <2>9, <2>10 DEF SameBook
<1> QED BY <1>3, <1>4, <1>5 DEF Decided

\* A decision has its follow-up from now on and no task yet (approval_service.review).
LEMMA ReviewKeeps ==
  ASSUME LInv, NEW a \in Approvals, NEW decision \in Decided, Review(a, decision) PROVE LInv'
<1>1. /\ a \in PendingOf(deal)
      /\ UNCHANGED <<product, asked, tasks, replies, proc, manual, edits, faults>>
  BY DEF Review
<1>2. CASE deal' = Close(deal, a)
  BY <1>1, <1>2, CloseKeeps
<1>3. CASE /\ deal.status = "WAITING" /\ a \in 1 .. Len(deal.approvals)
           /\ BookInOrder(deal')
           /\ Len(deal'.approvals) = Len(deal.approvals)
           /\ \A i \in 1 .. Len(deal.approvals) : deal'.approvals[i].followup =
                IF i = a THEN "PENDING" ELSE deal.approvals[i].followup
           /\ \/ deal'.status = "ACTIVE"
              \/ /\ deal'.status = "WAITING" /\ deal'.approvals[a].offer = deal'.current
                 /\ deal'.approvals[a].status = "APPROVED" /\ deal'.approvals[a].followup = "PENDING"
  <2>1. RowsInOrder'
    BY <1>1 DEF LInv, RowsInOrder
  <2>2. MessagesInStep'
    BY <1>1, MessagesKeep
  <2>3. FollowupInStep("PENDING", tasks'[a].status, replies'[a])
    <3>1. deal.approvals[a].followup = "none"
      BY <1>1, <1>3 DEF PendingOf, LInv, BookInOrder, ApprovalInOrder, Decided
    <3>2. tasks[a].status = "none" /\ replies[a] = 0
      BY <1>3, <3>1 DEF LInv, DecisionsInStep, DecisionInStep, FollowupInStep
    <3> QED BY <1>1, <3>2 DEF FollowupInStep, Active
  <2>4. DecisionsInStep'
    <3>1. \A i \in Approvals : i # a => tasks'[i].status = tasks[i].status /\ replies'[i] = replies[i]
      BY <1>1
    <3>2. PICK f : f = "PENDING"
      OBVIOUS
    <3>3. /\ \A i \in 1 .. Len(deal.approvals) :
               deal'.approvals[i].followup = IF i = a THEN f ELSE deal.approvals[i].followup
          /\ FollowupInStep(f, tasks'[a].status, replies'[a])
      BY <1>3, <2>3, <3>2
    <3> QED BY <1>3, <3>1, <3>3, DecisionMoves
  <2>5. WaitingHasDecision'
    <3>1. a \in DOMAIN deal'.approvals
      BY <1>3, BookRows
    <3> QED BY <1>3, <3>1 DEF WaitingHasDecision
  <2> QED BY <1>3, <2>1, <2>2, <2>4, <2>5 DEF LInv
<1> QED BY <1>1, <1>2, <1>3, ReviewKeepsBook

-------------------------------------------------------------------------------
(* The announcement of a decision and the seller's desk.                         *)

\* A task changes when a manual retry may have been granted; the other rows stay.
LEMMA TaskRowsGrow ==
  ASSUME RowsInOrder, NEW k \in Key, NEW t, NEW g \in Nat, manual <= g, TaskInOrder(t, g),
         tasks' = [tasks EXCEPT ![k] = t]
  PROVE  /\ tasks' \in [Key -> TaskRows] /\ \A i \in Key : TaskInOrder(tasks'[i], g)
         /\ tasks'[k] = t /\ \A i \in Key : i # k => tasks'[i] = tasks[i]
<1>1. /\ tasks' \in [Key -> TaskRows]
      /\ tasks'[k] = t /\ \A i \in Key : i # k => tasks'[i] = tasks[i]
  BY DEF RowsInOrder, TaskInOrder
<1>2. ASSUME NEW i \in Key, i # k PROVE TaskInOrder(tasks[i], g)
  <2>1. TaskInOrder(tasks[i], manual) /\ manual \in Nat /\ MaxAttempts \in Nat
    BY LegacyAssumption DEF RowsInOrder
  <2>2. tasks[i].limit \in Nat
    BY <2>1 DEF TaskInOrder, TaskRows
  <2>3. tasks[i].limit <= MaxAttempts + g
    BY <2>1, <2>2 DEF TaskInOrder
  <2> QED BY <2>1, <2>3 DEF TaskInOrder
<1> QED BY <1>1, <1>2

\* A step on one decision: its follow-up, its task and its message move together.
LEMMA DecisionStepKeeps ==
  ASSUME LInv, NEW a \in Approvals, a \in 1 .. Len(deal.approvals), NEW f, NEW t,
         BookInOrder(deal'), Len(deal'.approvals) = Len(deal.approvals),
         \A i \in 1 .. Len(deal.approvals) :
           deal'.approvals[i].followup = IF i = a THEN f ELSE deal.approvals[i].followup,
         manual' \in Nat, manual <= manual', TaskInOrder(t, manual'), tasks' = [tasks EXCEPT ![a] = t],
         replies' = replies \/ replies' = Reply(a),
         FollowupInStep(f, t.status, replies'[a]),
         proc' \in [Proc -> Executions], \A q \in Proc : proc'[q].at # "idle" => proc'[q].key \in Key,
         UNCHANGED <<product, asked, edits, faults>>, WaitingHasDecision'
  PROVE  LInv'
<1> USE DEF LInv
<1>1. a \in Key /\ \A r \in Req : r \in Key /\ r # a
  BY KeysApart
<1>2. /\ tasks' \in [Key -> TaskRows] /\ \A i \in Key : TaskInOrder(tasks'[i], manual')
      /\ tasks'[a] = t /\ \A i \in Key : i # a => tasks'[i] = tasks[i]
  BY <1>1, TaskRowsGrow
<1>3. replies' \in [Key -> Nat] /\ \A i \in Key : i # a => replies'[i] = replies[i]
  BY <1>1, ReplyRows DEF RowsInOrder
<1>4. RowsInOrder'
  BY <1>2, <1>3 DEF RowsInOrder
<1>5. MessagesInStep'
  <2>1. \A r \in Req : tasks'[r] = tasks[r] /\ replies'[r] = replies[r]
    BY <1>1, <1>2, <1>3
  <2> QED BY <2>1, MessagesKeep
<1>6. DecisionsInStep'
  <2>1. \A i \in Approvals : i # a => tasks'[i].status = tasks[i].status /\ replies'[i] = replies[i]
    BY <1>2, <1>3, KeysApart
  <2> QED BY <1>2, <2>1, DecisionMoves
<1> QED BY <1>4, <1>5, <1>6

\* The input of an announcement can be stored in a task (approval_followup.py).
LEMMA EventInputIsOne ==
  ASSUME LInv, NEW a \in 1 .. Len(deal.approvals)
  PROVE  Input(a) \in Inputs /\ Event(a) \in {"REJECTED", "INVALIDATED", "APPROVED"}
<1>1. PICK s : s = deal.offers[deal.approvals[a].offer].status
  OBVIOUS
<1>2. s \in {"PROPOSED", "ACCEPTED", "REJECTED", "WITHDRAWN"}
  <2>1. deal.approvals[a].offer \in 1 .. Len(deal.offers)
    BY DEF LInv, BookInOrder, ApprovalInOrder
  <2> QED BY <1>1, <2>1, BookRows DEF LInv, Offers
<1>3. PICK e, n : e = Event(a) /\ n = product.facts
  OBVIOUS
<1>4. e \in {"REJECTED", "INVALIDATED", "APPROVED"}
  BY <1>3 DEF Event
<1>5. n \in Nat
  BY <1>3 DEF LInv, RowsInOrder
<1>6. Input(a) = <<e, n, s>>
  BY <1>1, <1>3 DEF Input
<1> QED BY <1>2, <1>3, <1>4, <1>5, <1>6 DEF Inputs

\* A claim of an unsent decision starts, continues or ends its task
\* (approval_processor.py, model_task_service.create_task).
LEMMA ClaimKeeps == ASSUME LInv, NEW p \in Proc, NEW a \in Approvals, Claim(p, a) PROVE LInv'
<1> USE DEF LInv
<1>1. /\ a \in 1 .. Len(deal.approvals) /\ deal.approvals[a].followup \in {"PENDING", "FAILED"}
      /\ BookInOrder(deal) /\ UNCHANGED <<product, asked, replies, manual, edits, faults>>
  BY BookRows DEF Claim, Unsent
<1>2. PICK t : t = IF tasks[a].status = "none" THEN NewTask(deal.approvals[a].offer, Input(a), deal)
                   ELSE tasks[a]
  OBVIOUS
<1>3. TaskInOrder(t, manual) /\ manual \in Nat /\ a \in Key
  <2>1. product.policy \in Nat /\ manual \in Nat /\ TaskInOrder(tasks[a], manual) /\ a \in Key
    BY KeysApart DEF RowsInOrder
  <2>2. deal.approvals[a].offer \in Nat /\ Input(a) \in Inputs
    BY <1>1, EventInputIsOne, BookRows DEF Requested
  <2> QED BY <1>1, <1>2, <2>1, <2>2, NewTaskInOrder
<1>4. replies[a] = 0
  BY <1>1 DEF DecisionsInStep, DecisionInStep, FollowupInStep
<1>5. PICK f : f = deal.approvals[a].followup
  OBVIOUS
<1>6. CASE /\ Leasable(t) /\ ~(Leasable(t) /\ t.attempts >= t.limit)
           /\ tasks' = [tasks EXCEPT ![a] = Leased(t)]
           /\ proc' = [proc EXCEPT ![p] = [Holding(a, Leased(t)) EXCEPT !.at = "calling"]]
           /\ deal' = deal
  <2>1. PICK l, h, x : l = Leased(t) /\ h = Holding(a, l) /\ x = [h EXCEPT !.at = "calling"]
    OBVIOUS
  <2>2. TaskInOrder(l, manual) /\ l.status = "RUNNING" /\ l.attempts \in Nat
    <3>1. t.attempts < t.limit
      BY <1>3, <1>6 DEF TaskInOrder, TaskRows
    <3> QED BY <1>3, <2>1, <3>1, LeaseKeepsTask
  <2>3. x \in Executions /\ x.key = a
    <3>1. h \in Executions /\ h.key = a
      BY <1>3, <2>1, <2>2, HoldingRow
    <3> QED BY <2>1, <3>1 DEF Executions
  <2>4. proc' \in [Proc -> Executions] /\ \A q \in Proc : proc'[q].at # "idle" => proc'[q].key \in Key
    <3>1. proc' = [proc EXCEPT ![p] = x] /\ x.at # "idle" => x.key \in Key
      BY <1>3, <2>1, <2>3
    <3>2. proc' = [proc EXCEPT ![p] = x]
      BY <1>6, <2>1
    <3> QED BY <1>3, <2>3, <3>2, ProcRowsKeep
  <2>5. tasks' = [tasks EXCEPT ![a] = l]
    BY <1>6, <2>1
  <2>6. FollowupInStep(f, l.status, replies'[a])
    BY <1>1, <1>4, <1>5, <2>2 DEF FollowupInStep, Active
  <2>7. WaitingHasDecision'
    <3>1. FollowupSet(deal, a, f, deal')
      BY <1>1, <1>5, <1>6 DEF FollowupSet, SameBook
    <3>2. \A i \in Approvals : i # a => tasks'[i].status = tasks[i].status
      BY <2>5, KeysApart DEF RowsInOrder
    <3> QED BY <1>1, <1>5, <3>1, <3>2, WaitMoves
  <2>8. \A i \in 1 .. Len(deal.approvals) :
           deal'.approvals[i].followup = IF i = a THEN f ELSE deal.approvals[i].followup
    BY <1>5, <1>6
  <2>9. /\ manual' \in Nat /\ manual <= manual' /\ TaskInOrder(l, manual') /\ replies' = replies
        /\ BookInOrder(deal') /\ Len(deal'.approvals) = Len(deal.approvals)
        /\ UNCHANGED <<product, asked, edits, faults>>
    BY <1>1, <1>3, <1>6, <2>2
  <2> QED BY <1>1, <2>4, <2>5, <2>6, <2>7, <2>8, <2>9, DecisionStepKeeps
<1>7. CASE /\ tasks' = [tasks EXCEPT ![a] = Failed(t)]
           /\ deal' = [deal EXCEPT !.approvals[a].followup = "MANUAL_REQUIRED"]
           /\ proc' = proc
  <2>1. PICK l : l = Failed(t)
    OBVIOUS
  <2>2. TaskInOrder(l, manual) /\ l.status = "FAILED"
    <3>1. "FAILED" \in Statuses
      BY DEF Statuses
    <3> QED BY <1>3, <2>1, <3>1, LeftKeepsTask DEF Failed
  <2>3. FollowupSet(deal, a, "MANUAL_REQUIRED", deal')
    BY <1>1, <1>7, FollowupIsSet
  <2>4. tasks' = [tasks EXCEPT ![a] = l]
    BY <1>7, <2>1
  <2>5. FollowupInStep("MANUAL_REQUIRED", l.status, replies'[a])
    BY <1>1, <1>4, <2>2 DEF FollowupInStep, Active
  <2>6. WaitingHasDecision'
    <3>1. \A i \in Approvals : i # a => tasks'[i].status = tasks[i].status
      BY <2>4, KeysApart DEF RowsInOrder
    <3> QED BY <1>1, <2>3, <3>1, WaitMoves
  <2>7. proc' \in [Proc -> Executions] /\ \A q \in Proc : proc'[q].at # "idle" => proc'[q].key \in Key
    BY <1>7 DEF RowsInOrder
  <2>8. PICK g : g = "MANUAL_REQUIRED"
    OBVIOUS
  <2>9. /\ FollowupInStep(g, l.status, replies'[a]) /\ BookInOrder(deal')
        /\ Len(deal'.approvals) = Len(deal.approvals)
        /\ \A i \in 1 .. Len(deal.approvals) :
             deal'.approvals[i].followup = IF i = a THEN g ELSE deal.approvals[i].followup
    BY <2>3, <2>5, <2>8 DEF FollowupSet
  <2>10. /\ manual' \in Nat /\ manual <= manual' /\ TaskInOrder(l, manual') /\ replies' = replies
         /\ UNCHANGED <<product, asked, edits, faults>>
    BY <1>1, <1>3, <2>2
  <2> QED BY <1>1, <2>4, <2>6, <2>7, <2>9, <2>10, DecisionStepKeeps
<1> QED BY <1>2, <1>6, <1>7 DEF Claim

\* Under its lease a follow-up is open, and its decision is not announced.
LEMMA HeldIsUnannounced ==
  ASSUME LInv, NEW a \in Approvals, tasks[a].status \in Active \cup {"FAILED"}
  PROVE  /\ a \in 1 .. Len(deal.approvals) /\ deal.approvals[a].followup # "none"
         /\ deal.approvals[a].followup # "SENT" /\ replies[a] = 0
         /\ deal.approvals[a].status \in Decided
<1>1. tasks[a].status # "none" /\ tasks[a].status \notin {"SUCCEEDED", "STALE"}
  BY DEF Active
<1>2. /\ a \in 1 .. Len(deal.approvals) /\ deal.approvals[a].followup # "none"
      /\ deal.approvals[a].status \in Decided
      /\ FollowupInStep(deal.approvals[a].followup, tasks[a].status, replies[a])
  BY <1>1, TaskHasDecision
<1> QED BY <1>1, <1>2 DEF FollowupInStep

\* The book an announcement leaves: the effect of the decision, and the follow-up sent.
LEMMA AnnouncedBook ==
  ASSUME LInv, NEW a \in 1 .. Len(deal.approvals), deal.approvals[a].followup # "none",
         NEW d, d = deal \/ EventApplied(deal, a, Event(a), d),
         deal' = [d EXCEPT !.approvals[a].followup = "SENT"]
  PROVE  /\ FollowupSet(d, a, "SENT", deal') /\ BookInOrder(deal')
         /\ Len(deal'.approvals) = Len(deal.approvals)
         /\ \A i \in 1 .. Len(deal.approvals) : deal'.approvals[i].followup =
              IF i = a THEN "SENT" ELSE deal.approvals[i].followup
<1>1. BookInOrder(d) /\ d.approvals = deal.approvals
  BY DEF EventApplied, LInv
<1>2. a \in 1 .. Len(d.approvals) /\ d.approvals[a].followup # "none"
  BY <1>1
<1>3. FollowupSet(d, a, "SENT", deal')
  BY <1>1, <1>2, FollowupIsSet
<1> QED BY <1>1, <1>3 DEF FollowupSet

\* The branches in which a decision is announced: with its effect, or as not applied.
LEMMA AnnounceShape ==
  ASSUME LInv, NEW p \in Proc, NEW act \in DraftOutcomes, FinishFollowup(p, act),
         NEW a, a = proc[p].key
  PROVE  /\ a \in Approvals /\ proc' = [proc EXCEPT ![p] = Idle]
         /\ UNCHANGED <<product, asked, manual, edits, faults>>
         /\ \/ UNCHANGED <<deal, tasks, replies>>
            \/ HoldsLease(p) /\ Postpone(a, act)
            \/ \E d, t : /\ HoldsLease(p) /\ Announce(a, d, t)
                         /\ \/ d = deal /\ t = Outdated(tasks[a])
                            \/ /\ EventApplied(deal, a, Event(a), d)
                               /\ t \in {Succeeded(tasks[a]), Outdated(tasks[a])}
<1>1. a \in Approvals /\ proc' = [proc EXCEPT ![p] = Idle]
      /\ UNCHANGED <<product, asked, manual, edits, faults>>
  BY DEF FinishFollowup
<1>2. \/ UNCHANGED <<deal, tasks, replies>>
      \/ HoldsLease(p) /\ Postpone(a, act)
      \/ HoldsLease(p) /\ Announce(a, ApplyEvent(deal, a, Event(a)), Succeeded(tasks[a]))
      \/ HoldsLease(p) /\ Announce(a, StaleEffect(a), Outdated(tasks[a]))
  BY DEF FinishFollowup
<1>3. ASSUME HoldsLease(p), NEW event, event = Event(a) \/ (event = "INVALIDATED" /\ Event(a) = "INVALIDATED"),
             NEW d, d = ApplyEvent(deal, a, event)
      PROVE  EventApplied(deal, a, Event(a), d)
  <2>1. tasks[a].status \in Active
    BY <1>3 DEF HoldsLease, Active
  <2>2. a \in 1 .. Len(deal.approvals) /\ BookInOrder(deal)
    BY <1>1, <2>1, HeldIsUnannounced DEF LInv
  <2>3. event = Event(a)
    BY <1>3
  <2>4. event = "APPROVED" => deal.status # "AGREED"
    BY <2>3 DEF Event
  <2>5. EventApplied(deal, a, event, d)
    BY <1>3, <2>2, <2>4, EventIsApplied
  <2> QED BY <2>3, <2>5
<1>4. CASE HoldsLease(p) /\ Announce(a, ApplyEvent(deal, a, Event(a)), Succeeded(tasks[a]))
  <2>1. PICK d, t, e : d = ApplyEvent(deal, a, e) /\ t = Succeeded(tasks[a]) /\ e = Event(a)
    OBVIOUS
  <2>2. EventApplied(deal, a, Event(a), d)
    BY <1>3, <1>4, <2>1
  <2>3. Announce(a, d, t)
    BY <1>4, <2>1
  <2> QED BY <1>1, <1>4, <2>1, <2>2, <2>3
<1>5. CASE HoldsLease(p) /\ Announce(a, StaleEffect(a), Outdated(tasks[a]))
  <2>1. PICK d, t, e : d = StaleEffect(a) /\ t = Outdated(tasks[a]) /\ e = "INVALIDATED"
    OBVIOUS
  <2>2. d = deal \/ EventApplied(deal, a, Event(a), d)
    <3>1. d = deal \/ (Event(a) = "INVALIDATED" /\ d = ApplyEvent(deal, a, e))
      BY <2>1 DEF StaleEffect
    <3> QED BY <1>3, <1>5, <2>1, <3>1
  <2>3. Announce(a, d, t)
    BY <1>5, <2>1
  <2> QED BY <1>1, <1>5, <2>1, <2>2, <2>3
<1> QED BY <1>1, <1>2, <1>4, <1>5

\* A follow-up that ends is announced, postponed or dropped (model_task_service.finish_followup).
LEMMA FinishFollowupKeeps ==
  ASSUME LInv, NEW p \in Proc, NEW act \in DraftOutcomes, FinishFollowup(p, act) PROVE LInv'
<1> USE DEF LInv
<1>1. PICK a : a = proc[p].key
  OBVIOUS
<1>2. /\ a \in Approvals /\ proc' = [proc EXCEPT ![p] = Idle]
      /\ UNCHANGED <<product, asked, manual, edits, faults>>
  BY <1>1, AnnounceShape
<1>3. proc' \in [Proc -> Executions] /\ \A q \in Proc : proc'[q].at # "idle" => proc'[q].key \in Key
  BY <1>2, ProcEnds
<1>4. TaskInOrder(tasks[a], manual) /\ manual \in Nat /\ a \in Key
  BY <1>2, KeysApart DEF RowsInOrder
<1>5. CASE UNCHANGED <<deal, tasks, replies>>
  <2>1. RowsInOrder'
    BY <1>2, <1>3, <1>5 DEF RowsInOrder
  <2> QED BY <1>2, <1>5, <2>1, RestKeeps
<1>6. ASSUME HoldsLease(p)
      PROVE  /\ a \in 1 .. Len(deal.approvals) /\ deal.approvals[a].followup # "none"
             /\ replies[a] = 0 /\ tasks[a].status \in Active
  <2>1. tasks[a].status \in Active
    BY <1>1, <1>6 DEF HoldsLease, Active
  <2> QED BY <1>2, <2>1, HeldIsUnannounced
<1>7. CASE HoldsLease(p) /\ Postpone(a, act)
  <2>1. PICK t, f : t = AfterFailure(act, tasks[a])
                    /\ f = IF Retryable(act, tasks[a]) THEN "FAILED" ELSE "MANUAL_REQUIRED"
    OBVIOUS
  <2>2. TaskInOrder(t, manual) /\ t.status = IF Retryable(act, tasks[a]) THEN "RETRY_WAIT" ELSE "FAILED"
    BY <1>4, <2>1, FailureKeepsTask
  <2>3. tasks' = [tasks EXCEPT ![a] = t] /\ replies' = replies
        /\ deal' = [deal EXCEPT !.approvals[a].followup = f]
    BY <1>7, <2>1 DEF Postpone
  <2>4. FollowupSet(deal, a, f, deal')
    BY <1>6, <1>7, <2>1, <2>3, FollowupIsSet
  <2>5. FollowupInStep(f, t.status, replies'[a])
    BY <1>6, <1>7, <2>1, <2>2, <2>3 DEF FollowupInStep, Active
  <2>6. WaitingHasDecision'
    <3>1. \A i \in Approvals : i # a => tasks'[i].status = tasks[i].status
      BY <2>3, KeysApart DEF RowsInOrder
    <3>2. f # "SENT"
      BY <2>1
    <3> QED BY <1>6, <1>7, <2>4, <3>1, <3>2, WaitMoves
  <2>7. /\ manual' \in Nat /\ manual <= manual' /\ TaskInOrder(t, manual')
        /\ UNCHANGED <<product, asked, edits, faults>> /\ a \in 1 .. Len(deal.approvals)
    BY <1>2, <1>4, <1>6, <1>7, <2>2
  <2>8. BookInOrder(deal') /\ Len(deal'.approvals) = Len(deal.approvals)
        /\ \A i \in 1 .. Len(deal.approvals) :
             deal'.approvals[i].followup = IF i = a THEN f ELSE deal.approvals[i].followup
    BY <2>4 DEF FollowupSet
  <2> QED BY <1>2, <1>3, <2>3, <2>5, <2>6, <2>7, <2>8, DecisionStepKeeps
<1>8. ASSUME NEW d, NEW t, HoldsLease(p), Announce(a, d, t),
             \/ d = deal /\ t = Outdated(tasks[a])
             \/ EventApplied(deal, a, Event(a), d) /\ t \in {Succeeded(tasks[a]), Outdated(tasks[a])}
      PROVE  LInv'
  <2>1. /\ tasks' = [tasks EXCEPT ![a] = t] /\ replies' = Reply(a)
        /\ deal' = [d EXCEPT !.approvals[a].followup = "SENT"]
    BY <1>8 DEF Announce
  <2>2. TaskInOrder(t, manual) /\ t.status \in {"SUCCEEDED", "STALE"} /\ (d = deal => t.status = "STALE" \/ EventApplied(deal, a, Event(a), d))
    <3>1. "STALE" \in Statuses /\ "SUCCEEDED" \in Statuses
      BY DEF Statuses, Settled
    <3> QED BY <1>4, <1>8, <3>1, LeftKeepsTask DEF Outdated, Succeeded
  <2>3. /\ FollowupSet(d, a, "SENT", deal') /\ BookInOrder(deal')
        /\ Len(deal'.approvals) = Len(deal.approvals)
        /\ \A i \in 1 .. Len(deal.approvals) : deal'.approvals[i].followup =
             IF i = a THEN "SENT" ELSE deal.approvals[i].followup
    BY <1>6, <1>8, <2>1, AnnouncedBook
  <2>4. replies'[a] = 1
    BY <1>4, <1>6, <1>8, <2>1, ReplyRows
  <2>5. FollowupInStep("SENT", t.status, replies'[a])
    BY <2>2, <2>4 DEF FollowupInStep, Active
  <2>6. WaitingHasDecision'
    <3>1. CASE EventApplied(deal, a, Event(a), d)
      <4>1. deal'.status # "WAITING"
        BY <2>3, <3>1 DEF EventApplied, Continues, FollowupSet
      <4> QED BY <4>1 DEF WaitingHasDecision
    <3>2. CASE d = deal /\ t = Outdated(tasks[a])
      <4>1. tasks'[a].status = "STALE"
        <5>1. t.status = "STALE"
          BY <1>4, <3>2 DEF Outdated, Left, TaskInOrder, TaskRows
        <5> QED BY <1>4, <2>1, <5>1 DEF RowsInOrder
      <4>2. \A i \in Approvals : i # a => tasks'[i].status = tasks[i].status
        BY <2>1, KeysApart DEF RowsInOrder
      <4>3. FollowupSet(deal, a, "SENT", deal')
        BY <2>3, <3>2
      <4> QED BY <1>6, <1>8, <4>1, <4>2, <4>3, WaitMoves
    <3> QED BY <1>8, <3>1, <3>2
  <2>7. PICK f : f = "SENT"
    OBVIOUS
  <2>8. /\ FollowupInStep(f, t.status, replies'[a])
        /\ \A i \in 1 .. Len(deal.approvals) :
             deal'.approvals[i].followup = IF i = a THEN f ELSE deal.approvals[i].followup
    BY <2>3, <2>5, <2>7
  <2>9. /\ manual' \in Nat /\ manual <= manual' /\ TaskInOrder(t, manual')
        /\ UNCHANGED <<product, asked, edits, faults>> /\ a \in 1 .. Len(deal.approvals)
    BY <1>2, <1>4, <1>6, <1>8, <2>2
  <2> QED BY <1>2, <1>3, <2>1, <2>3, <2>6, <2>8, <2>9, DecisionStepKeeps
<1> QED BY <1>1, <1>5, <1>7, <1>8, AnnounceShape

\* The seller has a failed task tried once more (model_task_recovery_service.retry).
LEMMA RetryFailedKeeps == ASSUME LInv, NEW k \in Key, RetryFailed(k) PROVE LInv'
<1> USE DEF LInv
<1>1. PICK n, g : n = tasks[k].limit + 1 /\ g = manual + 1
  OBVIOUS
<1>2. PICK t : t = Reopened(tasks[k])
  OBVIOUS
<1>3. /\ tasks[k].status = "FAILED" /\ tasks' = [tasks EXCEPT ![k] = t] /\ manual' = g
      /\ UNCHANGED <<product, asked, replies, proc, edits, faults>>
  BY <1>1, <1>2 DEF RetryFailed
<1>4. TaskInOrder(tasks[k], manual) /\ manual \in Nat /\ MaxAttempts \in Nat /\ tasks[k] \in TaskRows
  BY LegacyAssumption DEF RowsInOrder
<1>5. n \in Nat /\ g \in Nat /\ manual <= g /\ tasks[k].attempts <= n /\ n <= MaxAttempts + g
  BY <1>1, <1>4 DEF TaskInOrder, TaskRows
<1>6. TaskInOrder(t, g) /\ t.status = "PENDING"
  <2>1. "PENDING" \in Statuses
    BY DEF Statuses, Active
  <2>2. /\ t \in TaskRows /\ t.status = "PENDING" /\ t.limit = n /\ t.attempts = tasks[k].attempts
        /\ t.lapsed = tasks[k].lapsed /\ t.due = tasks[k].due
    BY <1>1, <1>2, <1>4, <1>5, <2>1 DEF TaskRows, Reopened
  <2> QED BY <1>3, <1>4, <1>5, <2>2 DEF TaskInOrder
<1>7. /\ tasks' \in [Key -> TaskRows] /\ \A i \in Key : TaskInOrder(tasks'[i], g)
      /\ tasks'[k] = t /\ \A i \in Key : i # k => tasks'[i] = tasks[i]
  BY <1>3, <1>5, <1>6, TaskRowsGrow
<1>8. proc' \in [Proc -> Executions] /\ \A q \in Proc : proc'[q].at # "idle" => proc'[q].key \in Key
  BY <1>3 DEF RowsInOrder
<1>9. CASE k \in Req
  <2>1. deal' = deal /\ SameFollowups(deal, deal')
    BY <1>9 DEF RetryFailed, SameFollowups
  <2>2. RowsInOrder'
    BY <1>3, <1>5, <1>7, <1>8 DEF RowsInOrder
  <2>3. MessageInStep(asked'[k], tasks'[k].status, replies'[k])
    BY <1>3, <1>6, <1>7, <1>9, OpenIsUnanswered DEF Active
  <2>4. MessagesInStep'
    <3>1. \A s \in Req : s # k => tasks'[s] = tasks[s]
      BY <1>7, KeysApart
    <3> QED BY <1>3, <1>9, <2>3, <3>1, MessageMoves
  <2>5. \A a \in Approvals : tasks'[a] = tasks[a]
    BY <1>7, <1>9, KeysApart
  <2>6. DecisionsInStep' /\ WaitingHasDecision'
    BY <1>3, <2>1, <2>5, DecisionsKeep, WaitKeeps
  <2> QED BY <2>1, <2>2, <2>4, <2>6
<1>10. CASE k \notin Req
  <2>1. k \in Approvals
    BY <1>10, KeysApart
  <2>2. /\ k \in 1 .. Len(deal.approvals) /\ deal.approvals[k].followup # "none" /\ replies[k] = 0
    BY <1>3, <2>1, HeldIsUnannounced
  <2>3. PICK f : f = "FAILED"
    OBVIOUS
  <2>4. deal' = [deal EXCEPT !.approvals[k].followup = f]
    BY <1>10, <2>3 DEF RetryFailed
  <2>5. FollowupSet(deal, k, f, deal')
    BY <2>2, <2>3, <2>4, FollowupIsSet
  <2>6. FollowupInStep(f, t.status, replies'[k])
    BY <1>3, <1>6, <2>2, <2>3 DEF FollowupInStep, Active
  <2>7. WaitingHasDecision'
    <3>1. \A i \in Approvals : i # k => tasks'[i].status = tasks[i].status
      BY <1>7, KeysApart
    <3>2. f # "SENT"
      BY <2>3
    <3> QED BY <2>2, <2>5, <3>1, <3>2, WaitMoves
  <2>8. BookInOrder(deal') /\ Len(deal'.approvals) = Len(deal.approvals)
        /\ \A i \in 1 .. Len(deal.approvals) :
             deal'.approvals[i].followup = IF i = k THEN f ELSE deal.approvals[i].followup
    BY <2>5 DEF FollowupSet
  <2>9. manual' \in Nat /\ manual <= manual' /\ TaskInOrder(t, manual') /\ replies' = replies
    BY <1>3, <1>5, <1>6
  <2> QED BY <1>3, <1>8, <2>1, <2>2, <2>6, <2>7, <2>8, <2>9, DecisionStepKeeps
<1> QED BY <1>9, <1>10

\* The seller gives a task up: a message is told so, a decision is his to announce
\* (model_task_recovery_service.terminate).
LEMMA TerminateKeeps == ASSUME LInv, NEW k \in Key, Terminate(k) PROVE LInv'
<1> USE DEF LInv
<1>1. PICK t : t = Cancelled(tasks[k])
  OBVIOUS
<1>2. /\ tasks[k].status \in Active \cup {"FAILED"} /\ tasks' = [tasks EXCEPT ![k] = t]
      /\ replies' = ToldTerminated(k) /\ deal' = HandOver(deal, k)
      /\ UNCHANGED <<product, asked, proc, manual, edits, faults>>
  BY <1>1 DEF Terminate, Active
<1>3. TaskInOrder(t, manual) /\ manual \in Nat /\ t.status = "CANCELLED"
  <2>1. "CANCELLED" \in Statuses /\ TaskInOrder(tasks[k], manual) /\ manual \in Nat
    BY DEF Statuses, Settled, RowsInOrder
  <2> QED BY <1>1, <2>1, LeftKeepsTask DEF Cancelled
<1>4. /\ tasks' \in [Key -> TaskRows] /\ \A i \in Key : TaskInOrder(tasks'[i], manual)
      /\ tasks'[k] = t /\ \A i \in Key : i # k => tasks'[i] = tasks[i]
  BY <1>2, <1>3, TaskRowsKeep
<1>5. proc' \in [Proc -> Executions] /\ \A q \in Proc : proc'[q].at # "idle" => proc'[q].key \in Key
  BY <1>2 DEF RowsInOrder
<1>6. CASE k \in Req
  <2>1. replies[k] = 0 /\ \A s \in Settled : MessageInStep(asked[k], s, 1)
    BY <1>2, <1>6, OpenIsUnanswered
  <2>2. deal' = deal /\ SameFollowups(deal, deal') /\ replies' = Reply(k)
    BY <1>2, <1>6, <2>1 DEF HandOver, SameFollowups, ToldTerminated, Unfinished
  <2>3. /\ replies' \in [Key -> Nat] /\ replies'[k] = replies[k] + 1
        /\ \A i \in Key : i # k => replies'[i] = replies[i]
    BY <2>2, ReplyRows
  <2>4. RowsInOrder'
    BY <1>2, <1>4, <1>5, <2>3 DEF RowsInOrder
  <2>5. MessageInStep(asked'[k], tasks'[k].status, replies'[k])
    BY <1>2, <1>3, <1>4, <2>1, <2>3 DEF Settled
  <2>6. MessagesInStep'
    <3>1. \A s \in Req : s # k => tasks'[s] = tasks[s] /\ replies'[s] = replies[s]
      BY <1>4, <2>3, KeysApart
    <3> QED BY <1>2, <1>6, <2>5, <3>1, MessageMoves
  <2>7. \A a \in Approvals : tasks'[a] = tasks[a] /\ replies'[a] = replies[a]
    BY <1>4, <1>6, <2>3, KeysApart
  <2>8. DecisionsInStep' /\ WaitingHasDecision'
    BY <2>2, <2>7, DecisionsKeep, WaitKeeps
  <2> QED BY <2>2, <2>4, <2>6, <2>8
<1>7. CASE k \notin Req
  <2>1. k \in Approvals
    BY <1>7, KeysApart
  <2>2. /\ k \in 1 .. Len(deal.approvals) /\ deal.approvals[k].followup # "none" /\ replies[k] = 0
        /\ deal.approvals[k].followup # "SENT"
    BY <1>2, <2>1, HeldIsUnannounced
  <2>3. PICK f : f = "MANUAL_REQUIRED"
    OBVIOUS
  <2>4. deal' = [deal EXCEPT !.approvals[k].followup = f] /\ replies' = replies
    BY <1>2, <1>7, <2>2, <2>3 DEF HandOver, ToldTerminated
  <2>5. FollowupSet(deal, k, f, deal')
    BY <2>2, <2>3, <2>4, FollowupIsSet
  <2>6. FollowupInStep(f, t.status, replies'[k])
    BY <1>3, <2>2, <2>3, <2>4 DEF FollowupInStep, Active
  <2>7. WaitingHasDecision'
    <3>1. \A i \in Approvals : i # k => tasks'[i].status = tasks[i].status
      BY <1>4, KeysApart
    <3>2. f # "SENT"
      BY <2>3
    <3> QED BY <2>2, <2>5, <3>1, <3>2, WaitMoves
  <2>8. BookInOrder(deal') /\ Len(deal'.approvals) = Len(deal.approvals)
        /\ \A i \in 1 .. Len(deal.approvals) :
             deal'.approvals[i].followup = IF i = k THEN f ELSE deal.approvals[i].followup
    BY <2>5 DEF FollowupSet
  <2>9. manual' \in Nat /\ manual <= manual' /\ TaskInOrder(t, manual')
    BY <1>2, <1>3
  <2> QED BY <1>2, <1>5, <2>1, <2>2, <2>4, <2>6, <2>7, <2>8, <2>9, DecisionStepKeeps
<1> QED BY <1>6, <1>7


-------------------------------------------------------------------------------
(* The invariant and what follows from it.                                      *)

\* Every step keeps the invariant.
LEMMA LStep == LInv /\ Next => LInv'
<1> SUFFICES ASSUME LInv, Next PROVE LInv'
  OBVIOUS
<1>1. ASSUME NEW r \in Req, SendText(r) PROVE LInv'
  BY <1>1, SendTextKeeps
<1>2. ASSUME NEW r \in Req, NEW price \in Price, SendOffer(r, price) PROVE LInv'
  BY <1>2, SendOfferKeeps
<1>3. ASSUME NEW p \in Proc, Execute(p) PROVE LInv'
  <2>1. CASE Reconcile(p)
    BY <2>1, ReconcileKeeps
  <2>2. CASE FailChat(p)
    BY <2>2, FailChatKeeps
  <2>3. CASE LateAnswer(p)
    BY <2>3, LateAnswerKeeps
  <2>4. ASSUME NEW decision \in Decisions, FinishTurn(p, decision[1], decision[2]) PROVE LInv'
    BY <2>4, FinishTurnKeeps
  <2>5. ASSUME NEW act \in DraftOutcomes, FinishFollowup(p, act) PROVE LInv'
    BY <2>5, FinishFollowupKeeps
  <2> QED BY <1>3, <2>1, <2>2, <2>3, <2>4, <2>5 DEF Execute
<1>4. ASSUME NEW p \in Proc, Die(p) PROVE LInv'
  BY <1>4, DieKeeps
<1>5. ASSUME NEW p \in Proc, NEW k \in Req, Lease(p, k) \/ Resume(p, k) PROVE LInv'
  BY <1>5, KeysApart, LeaseKeeps DEF Resume
<1>6. ASSUME NEW p \in Proc, NEW a \in Approvals, Claim(p, a) PROVE LInv'
  BY <1>6, ClaimKeeps
<1>7. ASSUME NEW a \in Approvals, NEW decision \in Decided, Review(a, decision) PROVE LInv'
  BY <1>7, ReviewKeeps
<1>8. ASSUME NEW a \in Approvals, CancelRequest(a) \/ ExpireRequest(a) PROVE LInv'
  BY <1>8, CloseKeeps DEF CancelRequest, ExpireRequest
<1>9. CASE ExpireDueOwned
  BY <1>9, SweepKeeps
<1>10. CASE ConfirmOffer
  BY <1>10, ConfirmKeeps
<1>11. CASE CloseNegotiation
  BY <1>11, CloseNegotiationKeeps
<1>12. ASSUME NEW k \in Key, RetryFailed(k) PROVE LInv'
  BY <1>12, RetryFailedKeeps
<1>13. ASSUME NEW k \in Key, Terminate(k) PROVE LInv'
  BY <1>13, TerminateKeeps
<1>14. ASSUME NEW k \in Key, LeaseEnds(k) PROVE LInv'
  BY <1>14, LeaseEndsKeeps
<1>15. ASSUME NEW k \in Key, RetryComesDue(k) PROVE LInv'
  BY <1>15, RetryComesDueKeeps
<1>16. CASE Edit
  BY <1>16, EditKeeps
<1> QED
  BY <1>1, <1>2, <1>3, <1>4, <1>5, <1>6, <1>7, <1>8, <1>9, <1>10, <1>11, <1>12, <1>13, <1>14,
     <1>15, <1>16 DEF Next, Decided

\* And so does a step of the rest of the program.
LEMMA LStutters == LInv /\ UNCHANGED vars => LInv'
<1> SUFFICES ASSUME LInv, UNCHANGED vars PROVE LInv'
  OBVIOUS
<1>1. UNCHANGED <<product, deal, asked, tasks, replies, proc, manual, edits, faults>>
  BY DEF vars
<1>2. RowsInOrder'
  BY <1>1 DEF LInv, RowsInOrder
<1> QED BY <1>1, <1>2, RestKeeps

\* What the runs check is a part of it: the rows are those the tables can hold ...
LEMMA LTypes == LInv => TypeOK
<1> SUFFICES ASSUME LInv PROVE TypeOK
  OBVIOUS
<1>1. /\ product \in [policy : Nat, onSale : BOOLEAN, facts : Nat]
      /\ manual \in Nat /\ MaxAttempts \in Nat
  BY LegacyAssumption DEF LInv, RowsInOrder
<1>2. BookInOrder(deal) /\ deal \in Deals
  BY DEF LInv, BookInOrder
<1>3. /\ DOMAIN deal.offers = 1 .. Len(deal.offers)
      /\ DOMAIN deal.approvals = 1 .. Len(deal.approvals)
      /\ \A o \in 1 .. Len(deal.offers) : deal.offers[o] \in Offers
      /\ \A a \in 1 .. Len(deal.approvals) : deal.approvals[a] \in Requested
      /\ deal.current \in 0 .. Len(deal.offers) /\ deal.rounds \in 0 .. MaxRounds
  BY <1>2, BookRows
<1>4. deal.status \in {"ACTIVE", "WAITING", "AGREED", "CLOSED"}
  BY <1>2 DEF Deals
<1>5. \A o \in DOMAIN deal.offers :
        deal.offers[o] \in [by : {"BUYER", "AGENT"}, price : Price,
                            status : {"PROPOSED", "ACCEPTED", "REJECTED", "WITHDRAWN"}]
  BY <1>3 DEF Offers
<1>6. ASSUME NEW a \in DOMAIN deal.approvals
      PROVE  /\ deal.approvals[a].status \in {"PENDING", "APPROVED", "REJECTED", "VOID"}
             /\ deal.approvals[a].followup \in {"none", "PENDING", "FAILED", "SENT", "MANUAL_REQUIRED"}
             /\ deal.approvals[a].followup = "none" <=>
                   deal.approvals[a].status \notin {"APPROVED", "REJECTED"}
  <2>1. deal.approvals[a] \in Requested /\ ApprovalInOrder(deal, a)
    BY <1>2, <1>3, <1>6 DEF BookInOrder
  <2> QED BY <2>1 DEF Requested, Decided, ApprovalInOrder
<1>7. ASSUME NEW k \in Key
      PROVE  /\ tasks[k].status \in {"none", "FAILED"} \cup Active \cup Settled
             /\ tasks[k].lapsed => tasks[k].status = "RUNNING"
             /\ tasks[k].due => tasks[k].status = "RETRY_WAIT"
             /\ tasks[k].attempts \in 0..tasks[k].limit
             /\ tasks[k].limit \in 0..(MaxAttempts + manual)
  <2>1. TaskInOrder(tasks[k], manual) /\ tasks[k] \in TaskRows
    BY <1>7 DEF LInv, RowsInOrder, TaskInOrder
  <2>2. tasks[k].attempts \in Nat /\ tasks[k].limit \in Nat /\ tasks[k].status \in Statuses
    BY <2>1 DEF TaskRows
  <2> QED BY <1>1, <2>1, <2>2 DEF TaskInOrder, Statuses
<1>8. \A p \in Proc : proc[p].at \in {"idle", "leased", "calling"}
  BY DEF LInv, RowsInOrder, Executions
<1> QED BY <1>1, <1>3, <1>4, <1>5, <1>6, <1>7, <1>8 DEF TypeOK

\* ... a message is settled with its answer, a decision sent with its announcement, and a
\* failed or terminated announcement is on the seller's desk.
LEMMA LSettles == LInv => AnsweredWhenSettled /\ AnnouncedWhenSent /\ DeskHoldsFailedTasks
<1> SUFFICES ASSUME LInv PROVE AnsweredWhenSettled /\ AnnouncedWhenSent /\ DeskHoldsFailedTasks
  OBVIOUS
<1>1. AnsweredWhenSettled
  BY DEF LInv, MessagesInStep, MessageInStep, AnsweredWhenSettled
<1>2. ASSUME NEW a \in DOMAIN deal.approvals
      PROVE  FollowupInStep(deal.approvals[a].followup, tasks[a].status, replies[a])
  <2>1. a \in 1 .. Len(deal.approvals) /\ a \in Approvals
    BY <1>2, BookRows, ApprovalsHaveKeys DEF LInv
  <2> QED BY <2>1 DEF LInv, DecisionsInStep, DecisionInStep
<1>3. AnnouncedWhenSent
  BY <1>2 DEF AnnouncedWhenSent, FollowupInStep
<1>4. DeskHoldsFailedTasks
  BY <1>2 DEF DeskHoldsFailedTasks, FollowupInStep
<1> QED BY <1>1, <1>3, <1>4

\* The whole invariant: rows, book, messages, decisions and waits stay in step
\* (model_task_service, approval_followup, negotiation_service).
THEOREM LegacyInv == Spec => []LInv
<1>1. LInv /\ [Next]_vars => LInv'
  BY LStep, LStutters
<1> QED BY LStart, <1>1, PTL DEF Spec

\* Every row is one its table can hold (ModelExecutionTask's constraints).
THEOREM LegacyTypes == Spec => []TypeOK
BY LegacyInv, LTypes, PTL

\* A message is settled by its one answer (model_task_service.finish, terminate).
THEOREM MessagesAreAnsweredOnce == Spec => []AnsweredWhenSettled
BY LegacyInv, LSettles, PTL

\* A decision is announced once and marked as sent with it (ApprovalProcessor).
THEOREM DecisionsAreAnnouncedOnce == Spec => []AnnouncedWhenSent
BY LegacyInv, LSettles, PTL

\* The seller's desk shows what failed (_mark_approval_manual_required).
THEOREM DeskShowsWhatFailed == Spec => []DeskHoldsFailedTasks
BY LegacyInv, LSettles, PTL

\* Nobody waits for nothing (ApprovalService, _safe_stale_result).
THEOREM WaitsHaveDecisions == Spec => []WaitingHasDecision
<1>1. LInv => WaitingHasDecision
  BY DEF LInv
<1> QED BY LegacyInv, <1>1, PTL

-------------------------------------------------------------------------------
(* Offers are made, accepted and confirmed with authority.                      *)

\* A step that makes, accepts and confirms nothing, and leaves an ended session as it is.
Quiet(d, e) ==
  /\ Len(e.offers) = Len(d.offers) /\ KeepsOffers(d, e) /\ e.current = d.current
  /\ d.status \in {"AGREED", "CLOSED"} => e.status = d.status
  /\ e.status = "AGREED" => d.status = "AGREED"
  /\ d.status = "AGREED" => e.offers[d.current] = d.offers[d.current]

\* The three action properties of the runs, as one.
InAuthority == AcceptsWithAuthority /\ KeepsEnds /\ CountersFreshly

\* Such a step needs no authority.
LEMMA QuietIsAuthorized == ASSUME LInv, LInv', Quiet(deal, deal') PROVE InAuthority
<1>1. /\ DOMAIN deal.offers = 1 .. Len(deal.offers) /\ Len(deal.offers) \in Nat
      /\ DOMAIN deal'.offers = 1 .. Len(deal'.offers)
  BY BookRows DEF LInv
<1>2. Len(deal'.offers) = Len(deal.offers)
  BY DEF Quiet
<1>3. AcceptsWithAuthority
  <2>1. ASSUME NEW o \in DOMAIN deal'.offers PROVE ~Agrees(o) /\ ~Accepts(o)
    <3>1. o \in 1 .. Len(deal.offers) /\ o \in DOMAIN deal.offers
      BY <1>1, <1>2
    <3> QED BY <3>1 DEF Quiet, KeepsOffers, Agrees, Accepts
  <2> QED BY <2>1 DEF AcceptsWithAuthority
<1>4. KeepsEnds
  BY DEF KeepsEnds, Quiet
<1>5. CountersFreshly
  BY <1>1, <1>2 DEF CountersFreshly
<1> QED BY <1>3, <1>4, <1>5 DEF InAuthority

\* A step that leaves the offers, and moves the status at most from waiting to active, is one.
LEMMA SameBookIsQuiet ==
  ASSUME NEW d, NEW e, SameBook(d, e), e.status = d.status \/ Continues(d, e) PROVE Quiet(d, e)
BY DEF SameBook, Continues, Quiet, KeepsOffers

\* So does one that follows with the book as it is.
LEMMA QuietGoesOn ==
  ASSUME NEW d, NEW e, NEW f, Quiet(d, e), SameBook(e, f), f.status = e.status PROVE Quiet(d, f)
BY DEF SameBook, Quiet, KeepsOffers

\* A new follow-up alone is quiet (model_task_service).
LEMMA FollowupIsQuiet ==
  ASSUME NEW d \in Deals, NEW a, NEW f, NEW e, e = [d EXCEPT !.approvals[a].followup = f]
  PROVE  SameBook(d, e) /\ e.status = d.status
BY DEF Deals, SameBook

\* The buyer's offer is accepted by the rules, or not at all (chat_service.send_message).
LEMMA SendOfferIsAuthorized ==
  ASSUME LInv, LInv', NEW r \in Req, NEW price \in Price, SendOffer(r, price) PROVE InAuthority
<1>1. PICK d : d = BuyersBook(price)
  OBVIOUS
<1>2. /\ BookInOrder(d) /\ d.status = "ACTIVE" /\ Len(d.approvals) < d.rounds
      /\ KeepsOffers(deal, d) /\ Len(d.offers) = Len(deal.offers) + 1
      /\ d.current = Len(deal.offers) + 1 /\ d.offers[d.current].by = "BUYER"
      /\ d.offers[d.current].price = price /\ d.offers[d.current].status = "PROPOSED"
  BY <1>1, BuyersBookInOrder
<1>3. /\ DOMAIN deal.offers = 1 .. Len(deal.offers) /\ Len(deal.offers) \in Nat
      /\ DOMAIN deal'.offers = 1 .. Len(deal'.offers)
  BY BookRows DEF LInv
<1>4. d.current # 0 /\ product.policy \in Nat
  BY <1>2, <1>3 DEF LInv, RowsInOrder
<1>5. deal.status \notin {"AGREED", "CLOSED"} /\ product.onSale
  BY DEF SendOffer, Answerable
<1>6. \/ Zone(price, product.policy) = "AUTO" /\ deal' = AcceptOffer(d)
      \/ deal' = CreateRequest(d)
      \/ deal' = d
  <2>1. \/ Zone(price, product.policy) = "AUTO" /\ deal' = Tool(d, "accept", 0, d.current)
        \/ deal' = Tool(d, "approve", 0, d.current)
        \/ deal' = d
    BY <1>1 DEF SendOffer, BuyersBook, Store, Defer
  <2> QED BY <1>4, <2>1 DEF Tool, Requestable
<1>7. /\ deal'.status \in {"ACTIVE", "WAITING"} /\ deal'.current = d.current
      /\ Len(deal'.offers) = Len(d.offers)
      /\ \A i \in 1 .. Len(d.offers) :
           /\ deal'.offers[i].by = d.offers[i].by /\ deal'.offers[i].price = d.offers[i].price
           /\ deal'.offers[i].status = "ACCEPTED" =>
                \/ i = d.current /\ Zone(price, product.policy) = "AUTO"
                \/ d.offers[i].status = "ACCEPTED"
  <2>1. CASE deal' = d
    BY <1>2, <2>1
  <2>2. CASE deal' = CreateRequest(d)
    <3>1. PICK e : e = CreateRequest(d)
      OBVIOUS
    <3>2. e.status = "WAITING" /\ e.current = d.current /\ e.offers = d.offers
      BY <1>2, <1>4, <3>1, RequestIsAdded
    <3> QED BY <2>2, <3>1, <3>2
  <2>3. CASE Zone(price, product.policy) = "AUTO" /\ deal' = AcceptOffer(d)
    <3>1. PICK e : e = AcceptOffer(d)
      OBVIOUS
    <3>2. /\ e.status = d.status /\ e.current = d.current /\ Len(e.offers) = Len(d.offers)
          /\ \A i \in 1 .. Len(d.offers) :
               /\ e.offers[i].by = d.offers[i].by /\ e.offers[i].price = d.offers[i].price
               /\ e.offers[i].status = IF i = d.current THEN "ACCEPTED" ELSE d.offers[i].status
      BY <1>2, <1>4, <3>1, AcceptKeepsBook
    <3> QED BY <1>2, <2>3, <3>1, <3>2
  <2> QED BY <1>6, <2>1, <2>2, <2>3
<1>8. ASSUME NEW o \in DOMAIN deal'.offers, Accepts(o)
      PROVE  o = d.current /\ Zone(price, product.policy) = "AUTO"
  <2>1. o \in 1 .. Len(d.offers) /\ deal'.offers[o].status = "ACCEPTED"
    BY <1>3, <1>7, <1>8 DEF Accepts
  <2>2. CASE o = d.current
    BY <1>2, <1>7, <2>1, <2>2
  <2>3. CASE o # d.current
    <3>1. o \in 1 .. Len(deal.offers)
      BY <1>2, <1>3, <2>1, <2>3
    <3>2. deal.offers[o].status # "ACCEPTED"
      BY <1>3, <1>8, <3>1 DEF Accepts
    <3> QED BY <1>2, <1>7, <2>1, <2>3, <3>1, <3>2 DEF KeepsOffers
  <2> QED BY <2>2, <2>3
<1>9. AcceptsWithAuthority
  <2>1. ASSUME NEW o \in DOMAIN deal'.offers, Agrees(o) \/ Accepts(o)
        PROVE  Authorized(o) /\ (deal'.offers[o].by = "BUYER" \/ Agrees(o))
    <3>1. o = d.current /\ Zone(price, product.policy) = "AUTO"
      BY <1>7, <1>8, <2>1 DEF Agrees
    <3>2. o \in 1 .. Len(d.offers)
      BY <1>3, <1>7, <2>1
    <3>3. deal'.offers[o].by = "BUYER" /\ deal'.offers[o].price = price
      BY <1>2, <1>7, <3>1, <3>2
    <3> QED BY <1>5, <1>7, <3>1, <3>3 DEF Authorized
  <2> QED BY <2>1 DEF AcceptsWithAuthority
<1>10. KeepsEnds
  BY <1>5 DEF KeepsEnds
<1>11. CountersFreshly
  <2>1. d.current \in 1 .. Len(d.offers)
    BY <1>2, <1>3
  <2>2. deal'.offers[deal'.current].by = "BUYER"
    BY <1>2, <1>7, <2>1
  <2> QED BY <2>2 DEF CountersFreshly
<1> QED BY <1>9, <1>10, <1>11 DEF InAuthority

\* An answer that counters answers what its model was shown (chat_service.finish_turn).
LEMMA CounterIsAuthorized ==
  ASSUME LInv, LInv', NEW p \in Proc, NEW decision \in Decisions,
         FinishTurn(p, decision[1], decision[2])
  PROVE  InAuthority
<1>1. PICK k, price : k = proc[p].key /\ price = decision[2]
  OBVIOUS
<1>2. CASE deal' = deal
  <2>1. Quiet(deal, deal')
    BY <1>2 DEF Quiet, KeepsOffers
  <2> QED BY <2>1, QuietIsAuthorized
<1>3. CASE /\ price \in Price /\ ~StaleTurn(tasks[k]) /\ Counterable(deal, price, TurnOffer(k))
           /\ deal' = AddOffer(deal, "AGENT", price)
  <2>1. deal.status = "ACTIVE" /\ product.onSale /\ Zone(price, product.policy) = "AUTO"
    BY <1>3 DEF Counterable, Negotiable
  <2>2. Offered(deal, "AGENT", price, deal')
    <3>1. PICK e, by : e = AddOffer(deal, by, price) /\ by = "AGENT"
      OBVIOUS
    <3>2. Offered(deal, by, price, e)
      BY <1>3, <2>1, <3>1, OfferIsAdded DEF LInv
    <3> QED BY <1>3, <3>1, <3>2
  <2>3. /\ DOMAIN deal.offers = 1 .. Len(deal.offers) /\ Len(deal.offers) \in Nat
        /\ DOMAIN deal'.offers = 1 .. Len(deal'.offers)
    BY BookRows DEF LInv
  <2>4. /\ deal'.status = deal.status /\ deal'.offers[deal'.current].status = "PROPOSED"
        /\ Len(deal'.offers) = Len(deal.offers) + 1 /\ deal'.current = Len(deal.offers) + 1
    BY <2>2 DEF Offered
  <2>5. \A i \in 1 .. Len(deal.offers) :
          deal'.offers[i].status = "ACCEPTED" => deal.offers[i].status = "ACCEPTED"
    BY <2>2 DEF Offered, KeepsOffers
  <2>6. AcceptsWithAuthority
    <3>1. ASSUME NEW o \in DOMAIN deal'.offers PROVE ~Agrees(o) /\ ~Accepts(o)
      <4>1. ~Agrees(o)
        BY <2>1, <2>4 DEF Agrees
      <4>2. CASE o = deal'.current
        BY <2>4, <4>1, <4>2 DEF Accepts
      <4>3. CASE o # deal'.current
        <5>1. o \in 1 .. Len(deal.offers) /\ o \in DOMAIN deal.offers
          BY <2>3, <2>4, <4>3
        <5> QED BY <2>5, <4>1, <5>1 DEF Accepts
      <4> QED BY <4>2, <4>3
    <3> QED BY <3>1 DEF AcceptsWithAuthority
  <2>7. KeepsEnds
    BY <2>1 DEF KeepsEnds
  <2>8. CountersFreshly
    <3>1. k \in Req /\ tasks[k].status = "RUNNING"
      BY <1>1 DEF FinishTurn, HoldsLease
    <3>2. tasks'[k].status = "SUCCEEDED"
      <4>1. tasks' = [tasks EXCEPT ![k] = Succeeded(@)]
        BY <1>1, <1>3 DEF FinishTurn
      <4>2. tasks \in [Key -> TaskRows] /\ k \in Key
        BY <3>1, KeysApart DEF LInv, RowsInOrder
      <4> QED BY <4>1, <4>2 DEF TaskRows, Succeeded, Left
    <3>3. /\ tasks[k].offer = deal.current /\ tasks[k].policy = product.policy
          /\ tasks[k].input = <<product.facts, product.onSale>>
      BY <1>3 DEF StaleTurn, TurnInput
    <3>4. Zone(deal'.offers[deal'.current].price, product.policy) = "AUTO"
      BY <2>1, <2>2 DEF Offered
    <3> QED BY <3>1, <3>2, <3>3, <3>4 DEF CountersFreshly
  <2> QED BY <2>6, <2>7, <2>8 DEF InAuthority
<1> QED BY <1>1, <1>2, <1>3, TurnAppliesCounter

\* The announcement of an approval accepts the offer the seller approved, while it is current
\* and the rules are those he approved under (approval_followup.apply_result).
LEMMA AnnouncementIsAuthorized ==
  ASSUME LInv, LInv', NEW p \in Proc, NEW act \in DraftOutcomes, FinishFollowup(p, act)
  PROVE  InAuthority
<1>1. PICK a : a = proc[p].key
  OBVIOUS
<1>2. /\ a \in Approvals
      /\ \/ UNCHANGED <<deal, tasks, replies>>
         \/ HoldsLease(p) /\ Postpone(a, act)
         \/ \E d, t : /\ HoldsLease(p) /\ Announce(a, d, t)
                      /\ \/ d = deal /\ t = Outdated(tasks[a])
                         \/ /\ EventApplied(deal, a, Event(a), d)
                            /\ t \in {Succeeded(tasks[a]), Outdated(tasks[a])}
  BY <1>1, AnnounceShape
<1>3. BookInOrder(deal) /\ deal \in Deals
  BY DEF LInv, BookInOrder
<1>4. CASE UNCHANGED <<deal, tasks, replies>>
  <2>1. Quiet(deal, deal')
    BY <1>4 DEF Quiet, KeepsOffers
  <2> QED BY <2>1, QuietIsAuthorized
<1>5. CASE HoldsLease(p) /\ Postpone(a, act)
  <2>1. PICK f : f = IF Retryable(act, tasks[a]) THEN "FAILED" ELSE "MANUAL_REQUIRED"
    OBVIOUS
  <2>2. deal' = [deal EXCEPT !.approvals[a].followup = f]
    BY <1>5, <2>1 DEF Postpone
  <2>3. Quiet(deal, deal')
    BY <1>3, <2>2, FollowupIsQuiet, SameBookIsQuiet
  <2> QED BY <2>3, QuietIsAuthorized
<1>6. ASSUME NEW d, NEW t, HoldsLease(p), Announce(a, d, t),
             d = deal \/ EventApplied(deal, a, Event(a), d)
      PROVE  InAuthority
  <2>1. a \in 1 .. Len(deal.approvals) /\ deal.approvals[a].followup # "none"
        /\ deal.approvals[a].status \in Decided
    <3>1. tasks[a].status \in Active
      BY <1>1, <1>6 DEF HoldsLease, Active
    <3> QED BY <1>2, <3>1, HeldIsUnannounced
  <2>2. d \in Deals
    BY <1>3, <1>6 DEF EventApplied, BookInOrder
  <2>3. SameBook(d, deal') /\ deal'.status = d.status
    <3>1. PICK f : f = "SENT"
      OBVIOUS
    <3>2. deal' = [d EXCEPT !.approvals[a].followup = f]
      BY <1>6, <3>1 DEF Announce
    <3> QED BY <2>2, <3>2, FollowupIsQuiet
  <2>4. CASE d = deal
    <3>1. Quiet(deal, deal')
      BY <2>3, <2>4, SameBookIsQuiet
    <3> QED BY <3>1, QuietIsAuthorized
  <2>5. CASE EventApplied(deal, a, Event(a), d)
    <3>1. /\ Continues(deal, d) /\ d.current = deal.current /\ Len(d.offers) = Len(deal.offers)
          /\ \A i \in 1 .. Len(deal.offers) :
               /\ d.offers[i].by = deal.offers[i].by /\ d.offers[i].price = deal.offers[i].price
               /\ d.offers[i].status = "ACCEPTED" =>
                    \/ deal.offers[i].status = "ACCEPTED"
                    \/ Event(a) = "APPROVED" /\ i = deal.approvals[a].offer
          /\ deal.status = "AGREED" => d.offers[deal.current] = deal.offers[deal.current]
      BY <2>5 DEF EventApplied
    <3>2. CASE Event(a) # "APPROVED"
      <4>1. Quiet(deal, d)
        BY <3>1, <3>2 DEF Quiet, KeepsOffers, Continues
      <4>2. Quiet(deal, deal')
        BY <2>3, <4>1, QuietGoesOn
      <4> QED BY <4>2, QuietIsAuthorized
    <3>3. CASE Event(a) = "APPROVED"
      <4>1. /\ deal.status = "WAITING" /\ deal.current = deal.approvals[a].offer /\ product.onSale
            /\ product.policy = deal.approvals[a].policy /\ deal.approvals[a].status # "REJECTED"
        BY <3>3 DEF Event
      <4>2. /\ deal.approvals[a].status = "APPROVED" /\ a \in DOMAIN deal.approvals
            /\ deal.offers[deal.current].by = "BUYER" /\ deal.current \in 1 .. Len(deal.offers)
        <5>1. ApprovalInOrder(deal, a)
          BY <1>3, <2>1 DEF BookInOrder
        <5> QED BY <1>3, <2>1, <4>1, <5>1, BookRows DEF Decided, ApprovalInOrder
      <4>3. deal'.status = "ACTIVE" /\ deal'.current = deal.current /\ deal'.offers = d.offers
        BY <2>3, <3>1, <4>1 DEF SameBook, Continues
      <4>4. /\ DOMAIN deal.offers = 1 .. Len(deal.offers) /\ Len(deal.offers) \in Nat
            /\ DOMAIN deal'.offers = 1 .. Len(deal'.offers)
        BY BookRows DEF LInv
      <4>5. AcceptsWithAuthority
        <5>1. ASSUME NEW o \in DOMAIN deal'.offers, Agrees(o) \/ Accepts(o)
              PROVE  Authorized(o) /\ (deal'.offers[o].by = "BUYER" \/ Agrees(o))
          <6>1. o \in 1 .. Len(deal.offers) /\ o \in DOMAIN deal.offers
            BY <3>1, <4>3, <4>4
          <6>2. Accepts(o)
            BY <4>3, <5>1 DEF Agrees
          <6>3. o = deal.current
            BY <3>1, <4>1, <4>3, <6>1, <6>2 DEF Accepts
          <6>4. deal'.offers[o].by = "BUYER"
            BY <3>1, <4>2, <4>3, <6>1, <6>3
          <6>5. Authorized(o)
            BY <4>1, <4>2, <4>3, <6>3 DEF Authorized
          <6> QED BY <6>4, <6>5
        <5> QED BY <5>1 DEF AcceptsWithAuthority
      <4>6. KeepsEnds
        BY <4>1 DEF KeepsEnds
      <4>7. CountersFreshly
        BY <3>1, <4>3, <4>4 DEF CountersFreshly
      <4> QED BY <4>5, <4>6, <4>7 DEF InAuthority
    <3> QED BY <3>2, <3>3
  <2> QED BY <1>6, <2>4, <2>5
<1> QED BY <1>2, <1>4, <1>5, <1>6

\* The buyer confirms what the rules in force or an announced approval allow
\* (intent_service.confirm).
LEMMA ConfirmationIsAuthorized == ASSUME LInv, LInv', ConfirmOffer PROVE InAuthority
<1>1. deal.status = "ACTIVE" /\ product.onSale /\ Confirmable(deal.current)
  BY DEF ConfirmOffer, Negotiable
<1>2. /\ deal'.status = "AGREED" /\ deal'.current = deal.current
      /\ Len(deal'.offers) = Len(deal.offers)
      /\ \A i \in 1 .. Len(deal.offers) :
           /\ deal'.offers[i].by = deal.offers[i].by /\ deal'.offers[i].price = deal.offers[i].price
           /\ deal'.offers[i].status = IF i = deal.current THEN "ACCEPTED" ELSE deal.offers[i].status
  BY ConfirmedBook
<1>3. /\ DOMAIN deal.offers = 1 .. Len(deal.offers) /\ Len(deal.offers) \in Nat
      /\ DOMAIN deal'.offers = 1 .. Len(deal'.offers)
      /\ deal.current \in 1 .. Len(deal.offers)
      /\ \A o \in 1 .. Len(deal.offers) : deal.offers[o] \in Offers
  BY BookRows DEF LInv, ConfirmOffer
<1>4. Agrees(deal.current)
  BY <1>1, <1>2 DEF Agrees
<1>5. Authorized(deal.current)
  <2>1. \/ Zone(deal.offers[deal.current].price, product.policy) = "AUTO"
        \/ \E a \in ApprovalsOf(deal.current) :
              /\ deal.approvals[a].status = "APPROVED" /\ deal.approvals[a].followup = "SENT"
              /\ deal.approvals[a].policy = product.policy
    BY <1>1 DEF Confirmable
  <2>2. CASE Zone(deal.offers[deal.current].price, product.policy) = "AUTO"
    BY <1>1, <1>2, <1>3, <2>2 DEF Authorized
  <2>3. ASSUME NEW a \in ApprovalsOf(deal.current), deal.approvals[a].status = "APPROVED",
               deal.approvals[a].followup = "SENT", deal.approvals[a].policy = product.policy
        PROVE  Authorized(deal.current)
    <3>1. a \in DOMAIN deal.approvals /\ deal.approvals[a].offer = deal.current
      BY <2>3 DEF ApprovalsOf
    <3>2. replies[a] = 1
      BY <2>3, <3>1, LSettles DEF AnnouncedWhenSent
    <3> QED BY <1>1, <1>2, <2>3, <3>1, <3>2 DEF Authorized
  <2> QED BY <2>1, <2>2, <2>3
<1>6. AcceptsWithAuthority
  <2>1. ASSUME NEW o \in DOMAIN deal'.offers, Agrees(o) \/ Accepts(o) PROVE o = deal.current
    <3>1. o \in 1 .. Len(deal.offers) /\ o \in DOMAIN deal.offers
      BY <1>2, <1>3
    <3> QED BY <1>2, <2>1, <3>1 DEF Agrees, Accepts
  <2> QED BY <1>4, <1>5, <2>1 DEF AcceptsWithAuthority
<1>7. KeepsEnds
  BY <1>1 DEF KeepsEnds
<1>8. CountersFreshly
  BY <1>2, <1>3 DEF CountersFreshly
<1> QED BY <1>6, <1>7, <1>8 DEF InAuthority

\* The steps that neither make, accept nor confirm an offer.
LEMMA TheRestIsQuiet ==
  ASSUME LInv,
         \/ UNCHANGED deal
         \/ \E a \in PendingOf(deal) : deal' = Close(deal, a)
         \/ ExpireDueOwned \/ CloseNegotiation
         \/ \E a \in Approvals, decision \in Decided : Review(a, decision)
         \/ \E a, f : deal' = [deal EXCEPT !.approvals[a].followup = f]
  PROVE  Quiet(deal, deal')
<1>1. BookInOrder(deal) /\ deal \in Deals
  BY DEF LInv, BookInOrder
<1>2. CASE UNCHANGED deal
  BY <1>2 DEF Quiet, KeepsOffers
<1>3. ASSUME NEW a \in PendingOf(deal), deal' = Close(deal, a) PROVE Quiet(deal, deal')
  BY <1>1, <1>3, CloseKeepsBook, SameBookIsQuiet
<1>4. CASE ExpireDueOwned
  <2>1. PICK d : d = VoidPending(deal)
    OBVIOUS
  <2>2. BookInOrder(d) /\ SameBook(deal, d) /\ d.status = deal.status /\ deal' = Restore(d)
    BY <1>1, <1>4, <2>1, VoidKeepsBook DEF ExpireDueOwned
  <2>3. SameBook(deal, deal') /\ Continues(deal, deal')
    BY <2>2, RestoreKeepsBook DEF SameBook, Continues
  <2> QED BY <2>3, SameBookIsQuiet
<1>5. CASE CloseNegotiation
  <2>1. PICK d : d = VoidPending(deal)
    OBVIOUS
  <2>2. BookInOrder(d) /\ SameBook(deal, d) /\ d.status = deal.status
    BY <1>1, <2>1, VoidKeepsBook
  <2>3. PICK v : v = d.version + 1
    OBVIOUS
  <2>4. deal' = [d EXCEPT !.status = "CLOSED", !.version = v] /\ deal.status \in {"ACTIVE", "WAITING"}
    BY <1>5, <2>1, <2>3 DEF CloseNegotiation
  <2>5. SameBook(deal, deal') /\ deal'.status = "CLOSED"
    BY <2>2, <2>4 DEF BookInOrder, Deals, SameBook
  <2> QED BY <2>4, <2>5 DEF SameBook, Quiet, KeepsOffers
<1>6. ASSUME NEW a \in Approvals, NEW decision \in Decided, Review(a, decision)
      PROVE  Quiet(deal, deal')
  <2>1. a \in PendingOf(deal)
    BY <1>6 DEF Review
  <2>2. \/ deal' = Close(deal, a)
        \/ /\ deal.status = "WAITING" /\ deal'.current = deal.current
           /\ Len(deal'.offers) = Len(deal.offers) /\ KeepsOffers(deal, deal')
           /\ deal'.status \in {"ACTIVE", "WAITING"}
    BY <1>6, <2>1, ReviewKeepsBook
  <2> QED BY <1>3, <2>1, <2>2 DEF Quiet
<1>7. ASSUME NEW a, NEW f, deal' = [deal EXCEPT !.approvals[a].followup = f] PROVE Quiet(deal, deal')
  BY <1>1, <1>7, FollowupIsQuiet, SameBookIsQuiet
<1> QED BY <1>2, <1>3, <1>4, <1>5, <1>6, <1>7

\* No step of the legacy runtime goes beyond its authority.
LEMMA LActsInAuthority == LInv /\ Next => InAuthority
<1> SUFFICES ASSUME LInv, Next PROVE InAuthority
  OBVIOUS
<1>1. LInv'
  BY LStep
<1>2. CASE Quiet(deal, deal')
  BY <1>1, <1>2, QuietIsAuthorized
<1>3. ASSUME NEW r \in Req, SendText(r) PROVE Quiet(deal, deal')
  <2>1. UNCHANGED deal
    BY <1>3 DEF SendText, Defer
  <2> QED BY <2>1, TheRestIsQuiet
<1>4. ASSUME NEW r \in Req, NEW price \in Price, SendOffer(r, price) PROVE InAuthority
  BY <1>1, <1>4, SendOfferIsAuthorized
<1>5. ASSUME NEW p \in Proc, Execute(p) PROVE InAuthority
  <2>1. CASE Reconcile(p) \/ FailChat(p) \/ LateAnswer(p)
    <3>1. UNCHANGED deal
      BY <2>1 DEF Reconcile, FailChat, LateAnswer
    <3> QED BY <1>2, <3>1, TheRestIsQuiet
  <2>2. ASSUME NEW decision \in Decisions, FinishTurn(p, decision[1], decision[2])
        PROVE  InAuthority
    BY <1>1, <2>2, CounterIsAuthorized
  <2>3. ASSUME NEW act \in DraftOutcomes, FinishFollowup(p, act) PROVE InAuthority
    BY <1>1, <2>3, AnnouncementIsAuthorized
  <2> QED BY <1>5, <2>1, <2>2, <2>3 DEF Execute
<1>6. ASSUME NEW p \in Proc, Die(p) \/ \E k \in Req : Lease(p, k) \/ Resume(p, k)
      PROVE  Quiet(deal, deal')
  <2>1. UNCHANGED deal
    BY <1>6 DEF Die, Lease, Resume
  <2> QED BY <2>1, TheRestIsQuiet
<1>7. ASSUME NEW p \in Proc, NEW a \in Approvals, Claim(p, a) PROVE Quiet(deal, deal')
  <2>1. \/ UNCHANGED deal
        \/ \E f : deal' = [deal EXCEPT !.approvals[a].followup = f]
    BY <1>7 DEF Claim
  <2> QED BY <2>1, TheRestIsQuiet
<1>8. ASSUME NEW a \in Approvals, NEW decision \in Decided, Review(a, decision)
      PROVE  Quiet(deal, deal')
  BY <1>8, TheRestIsQuiet
<1>9. ASSUME NEW a \in Approvals, CancelRequest(a) \/ ExpireRequest(a) PROVE Quiet(deal, deal')
  BY <1>9, TheRestIsQuiet DEF CancelRequest, ExpireRequest
<1>10. CASE ExpireDueOwned \/ CloseNegotiation
  BY <1>2, <1>10, TheRestIsQuiet
<1>11. CASE ConfirmOffer
  BY <1>1, <1>11, ConfirmationIsAuthorized
<1>12. ASSUME NEW k \in Key, RetryFailed(k) \/ Terminate(k) PROVE Quiet(deal, deal')
  <2>1. \/ UNCHANGED deal
        \/ \E f : deal' = [deal EXCEPT !.approvals[k].followup = f]
    BY <1>12 DEF RetryFailed, Terminate, HandOver
  <2> QED BY <2>1, TheRestIsQuiet
<1>13. ASSUME NEW k \in Key, LeaseEnds(k) \/ RetryComesDue(k) PROVE Quiet(deal, deal')
  <2>1. UNCHANGED deal
    BY <1>13 DEF LeaseEnds, RetryComesDue
  <2> QED BY <2>1, TheRestIsQuiet
<1>14. CASE Edit
  <2>1. UNCHANGED deal
    BY <1>14 DEF Edit
  <2> QED BY <1>2, <2>1, TheRestIsQuiet
<1> QED
  BY <1>2, <1>3, <1>4, <1>5, <1>6, <1>7, <1>8, <1>9, <1>10, <1>11, <1>12, <1>13, <1>14
  DEF Next, Decided

\* An offer is accepted and confirmed with authority (intent_service.py, approval_followup.py).
THEOREM AcceptanceHasAuthority == Spec => [][AcceptsWithAuthority]_vars
<1>1. LInv /\ [Next]_vars => [AcceptsWithAuthority]_vars
  BY LActsInAuthority DEF InAuthority
<1> QED BY LegacyInv, <1>1, PTL DEF Spec

\* What was confirmed or ended stays so (chat_service.py, approval_service.py).
THEOREM EndsStay == Spec => [][KeepsEnds]_vars
<1>1. LInv /\ [Next]_vars => [KeepsEnds]_vars
  BY LActsInAuthority DEF InAuthority
<1> QED BY LegacyInv, <1>1, PTL DEF Spec

\* A counter offer answers the offer and the rules its model was shown (chat_service.py).
THEOREM CountersAreFresh == Spec => [][CountersFreshly]_vars
<1>1. LInv /\ [Next]_vars => [CountersFreshly]_vars
  BY LActsInAuthority DEF InAuthority
<1> QED BY LegacyInv, <1>1, PTL DEF Spec
================================================================================
